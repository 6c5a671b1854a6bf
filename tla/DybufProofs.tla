---------------------------- MODULE DybufProofs ----------------------------
(* Cursor order and memory safety of Dybuf, and that it implements the     *)
(* tape, for every width of uint and of a byte, every capacity and every   *)
(* string a careful caller appends.                                        *)
EXTENDS DybufTape, SequenceTheorems, TLAPS

\* A buffer with its type, its block and its cursors in order.
Sound(b) ==
  /\ b \in Buffer
  /\ b.data \in [0 .. b.cap - 1 -> Byte]
  /\ b.cap <= MaxCap
  /\ b.mark <= b.pos /\ b.pos <= b.limit /\ b.limit <= b.cap

IInv == Sound(dyb) /\ fault = FALSE

----------------------------------------------------------------------------
\* The constants as numbers.
LEMMA Numbers ==
  /\ MaxUint \in Nat /\ CacheUnit \in Nat /\ MaxByte \in Nat /\ MaxCap \in Nat
  /\ CacheUnit <= MaxCap /\ MaxCap <= MaxUint
  /\ MaxByte + MaxCap <= MaxUint
  /\ 0 \in Byte /\ 0 \in Uint
BY DybufAssumption DEF Byte, Uint

\* A block of a representable size is data.
LEMMA SoundData ==
  ASSUME NEW c \in Uint, NEW d \in [0 .. c - 1 -> Byte]
  PROVE  d \in Data
BY DEF Data

\* A buffer put together from its fields.
LEMMA SoundFields ==
  ASSUME NEW b, Sound(b)
  PROVE  /\ b.cap \in 0 .. MaxCap /\ b.data \in [0 .. b.cap - 1 -> Byte]
         /\ DOMAIN b.data = 0 .. b.cap - 1
         /\ b.limit \in Nat /\ b.pos \in Nat /\ b.mark \in Nat
         /\ b.fixed \in BOOLEAN
         /\ b.mark <= b.pos /\ b.pos <= b.limit /\ b.limit <= b.cap
BY Numbers DEF Sound, Buffer, Uint

\* A buffer with the block of a sound one and its cursors in order is sound.
LEMMA SoundCursors ==
  ASSUME NEW b, Sound(b), NEW x \in Buffer, x.data = b.data, x.cap = b.cap,
         x.mark <= x.pos, x.pos <= x.limit, x.limit <= b.cap
  PROVE  Sound(x)
BY DEF Sound

----------------------------------------------------------------------------
(* Each operation takes a sound buffer to a sound buffer.                  *)

\* dyb_refer makes a sound buffer.
LEMMA ReferSound ==
  ASSUME NEW c \in 0 .. MaxCap, NEW d \in [0 .. c - 1 -> Byte], NEW w \in BOOLEAN
  PROVE  Sound(Refer(d, c, w))
<1> DEFINE b == Refer(d, c, w)
<1>1. c \in Uint /\ d \in Data /\ 0 \in Uint
  BY Numbers, SoundData DEF Uint
<1>2. b \in Buffer
  BY <1>1 DEF Refer, Buffer
<1>3. /\ b.data = d /\ b.cap = c /\ b.pos = 0 /\ b.mark = 0
      /\ b.limit = IF w THEN 0 ELSE c
  BY DEF Refer
<1> HIDE DEF b
<1>4. Sound(b)
  BY <1>2, <1>3, Numbers DEF Sound
<1> QED
  BY <1>4 DEF b

\* dyb_create makes a sound buffer with the room asked for.
LEMMA CreateSound ==
  ASSUME NEW c \in 0 .. MaxCap
  PROVE  Sound(Create(c)) /\ Create(c).cap >= c /\ Create(c).cap \in 0 .. MaxCap
<1> DEFINE n == AllocSize(c)
<1> DEFINE d == [i \in 0 .. n - 1 |-> 0]
<1>1. n \in 0 .. MaxCap /\ c <= n
  BY Numbers DEF AllocSize, Greatest
<1>2. Create(c) = [data |-> d, cap |-> n, limit |-> 0, pos |-> 0, mark |-> 0,
                   fixed |-> FALSE]
  BY DEF Create
<1> HIDE DEF n
<1>3. d \in [0 .. n - 1 -> Byte] /\ n \in Uint
  BY <1>1, Numbers DEF Uint
<1> HIDE DEF d
<1>4. d \in Data
  BY <1>3, SoundData
<1> QED
  BY <1>1, <1>2, <1>3, <1>4, Numbers DEF Sound, Buffer, Uint

\* dyb_copy makes a sound buffer, adopting or cloning.
LEMMA CopySound ==
  ASSUME NEW c \in 0 .. MaxCap, NEW d \in [0 .. c - 1 -> Byte], NEW f \in BOOLEAN
  PROVE  Sound(Copy(d, c, f))
<1>1. CASE f
  <2> DEFINE b == Refer(d, c, FALSE)
  <2>1. Sound(b) /\ b \in Buffer
    BY ReferSound DEF Sound
  <2>2. Copy(d, c, f) = [b EXCEPT !.fixed = FALSE]
    BY <1>1 DEF Copy
  <2> HIDE DEF b
  <2> DEFINE x == [b EXCEPT !.fixed = FALSE]
  <2>3. x \in Buffer /\ x.data = b.data /\ x.cap = b.cap
        /\ x.limit = b.limit /\ x.pos = b.pos /\ x.mark = b.mark
    BY <2>1 DEF Buffer
  <2> HIDE DEF x
  <2>4. Sound(x)
    BY <2>1, <2>3, SoundCursors, SoundFields
  <2> QED
    BY <2>2, <2>4 DEF x
<1>2. CASE ~f
  <2> DEFINE n == AllocSize(c)
  <2> DEFINE e == [i \in 0 .. n - 1 |-> IF i < c THEN d[i] ELSE 0]
  <2>1. Copy(d, c, f) = [Create(c) EXCEPT !.limit = c, !.data = e]
    BY <1>2 DEF Copy
  <2>2. Create(c).cap = n /\ Create(c).pos = 0 /\ Create(c).mark = 0
    BY DEF Create
  <2>3. Sound(Create(c)) /\ n \in 0 .. MaxCap /\ c <= n
    BY <2>2, CreateSound
  <2> HIDE DEF n
  <2>4. e \in [0 .. n - 1 -> Byte] /\ n \in Uint
    BY <2>3, Numbers DEF Uint
  <2> HIDE DEF e
  <2>5. e \in Data
    BY <2>4, SoundData
  <2> DEFINE b == Create(c)
  <2>6. b \in Buffer /\ c \in Uint
    BY <2>3, Numbers DEF Sound, Uint
  <2> HIDE DEF b
  <2> DEFINE x == [b EXCEPT !.limit = c, !.data = e]
  <2>7. x \in Buffer /\ x.data = e /\ x.cap = b.cap
        /\ x.limit = c /\ x.pos = b.pos /\ x.mark = b.mark
    BY <2>5, <2>6 DEF Buffer
  <2> HIDE DEF x
  <2>8. Sound(x)
    BY <2>2, <2>3, <2>4, <2>7 DEF Sound, b
  <2> QED
    BY <2>1, <2>8 DEF x, b
<1> QED
  BY <1>1, <1>2

\* dyb_set_capacity clamps the cursors to the new block.
LEMMA SetCapacitySound ==
  ASSUME NEW b, Sound(b), NEW c \in 0 .. MaxCap
  PROVE  /\ Sound(SetCapacity(b, c))
         /\ ~b.fixed => SetCapacity(b, c).cap >= c
         /\ b.pos <= c => SetCapacity(b, c).pos = b.pos
         /\ SetCapacity(b, c).fixed = b.fixed
<1>0. b.cap \in Nat /\ c \in Nat
  BY SoundFields, Numbers
<1>1. CASE c = b.cap \/ b.fixed
  <2>1. SetCapacity(b, c) = b
    BY <1>1 DEF SetCapacity
  <2> QED
    BY <1>0, <1>1, <2>1
<1>2. CASE ~(c = b.cap \/ b.fixed)
  <2> DEFINE n == AllocSize(c)
  <2> DEFINE d == [i \in 0 .. n - 1 |-> IF i < Least(b.cap, n) THEN b.data[i] ELSE 0]
  <2>1. n \in 0 .. MaxCap /\ c <= n
    BY Numbers DEF AllocSize, Greatest
  <2>2. SetCapacity(b, c) =
          [data |-> d, cap |-> n, limit |-> Least(b.limit, n),
           pos |-> Least(b.pos, n), mark |-> Least(b.mark, n), fixed |-> FALSE]
    BY <1>2 DEF SetCapacity
  <2> HIDE DEF n
  <2>a. b.data \in [0 .. b.cap - 1 -> Byte] /\ 0 \in Byte /\ n \in Nat
    BY <2>1, Numbers, SoundFields
  <2>b. \A i \in 0 .. n - 1 : i < Least(b.cap, n) => b.data[i] \in Byte
    BY <1>0, <2>a DEF Least
  <2>c. d \in [0 .. n - 1 -> Byte]
    BY <2>a, <2>b
  <2>3. d \in [0 .. n - 1 -> Byte] /\ n \in Uint
    BY <2>1, <2>c, Numbers DEF Uint
  <2> HIDE DEF d
  <2>4. /\ Least(b.limit, n) \in Uint /\ Least(b.pos, n) \in Uint
        /\ Least(b.mark, n) \in Uint
        /\ Least(b.mark, n) <= Least(b.pos, n) /\ Least(b.pos, n) <= Least(b.limit, n)
        /\ Least(b.limit, n) <= n
        /\ b.pos <= c => Least(b.pos, n) = b.pos
    BY <2>1, Numbers, SoundFields DEF Least, Uint
  <2>5. d \in Data
    BY <2>3, SoundData
  <2>6. Sound(SetCapacity(b, c))
    BY <2>1, <2>2, <2>3, <2>4, <2>5 DEF Sound, Buffer
  <2>7. SetCapacity(b, c).cap = n /\ SetCapacity(b, c).pos = Least(b.pos, n)
        /\ SetCapacity(b, c).fixed = FALSE
    BY <2>2
  <2> QED
    BY <1>2, <2>1, <2>4, <2>6, <2>7, SoundFields
<1> QED
  BY <1>1, <1>2

\* A new limit that is not refused is set, and a position before it stays.
LEMMA SetLimitSound ==
  ASSUME NEW b, Sound(b), NEW l \in 0 .. MaxCap
  PROVE  /\ Sound(SetLimit(b, l))
         /\ l <= b.cap \/ ~b.fixed => SetLimit(b, l).limit = l
         /\ b.pos <= l => SetLimit(b, l).pos = b.pos
<1>1. CASE l > b.cap /\ b.fixed
  BY <1>1, SoundFields DEF SetLimit
<1>2. CASE ~(l > b.cap /\ b.fixed)
  <2> DEFINE g == IF l > b.cap THEN SetCapacity(b, l) ELSE b
  <2>1. Sound(g) /\ l <= g.cap /\ (b.pos <= l => g.pos = b.pos)
    <3>1. CASE l > b.cap
      BY <1>2, <3>1, SetCapacitySound, SoundFields
    <3>2. CASE ~(l > b.cap)
      BY <3>2, SoundFields
    <3> QED
      BY <3>1, <3>2
  <2>2. SetLimit(b, l) = [g EXCEPT !.limit = l, !.mark = Least(@, l), !.pos = Least(@, l)]
    BY <1>2 DEF SetLimit
  <2> HIDE DEF g
  <2>3. /\ Least(g.pos, l) \in Uint /\ Least(g.mark, l) \in Uint /\ l \in Uint
        /\ Least(g.mark, l) <= Least(g.pos, l) /\ Least(g.pos, l) <= l
        /\ b.pos <= l => Least(g.pos, l) = b.pos
    BY <2>1, SoundFields, Numbers DEF Least, Uint
  <2>4. Sound(SetLimit(b, l)) /\ SetLimit(b, l).limit = l
        /\ SetLimit(b, l).pos = Least(g.pos, l)
    BY <2>1, <2>2, <2>3 DEF Sound, Buffer
  <2> QED
    BY <2>3, <2>4
<1> QED
  BY <1>1, <1>2

\* dyb_set_position keeps the position between mark and limit.
LEMMA SetPositionSound ==
  ASSUME NEW b, Sound(b), NEW p \in Nat
  PROVE  Sound(SetPosition(b, p))
<1>1. b \in Buffer /\ b.mark \in Nat /\ b.limit \in Nat
  BY SoundFields DEF Sound
<1>2. CASE p > b.limit
  BY <1>2 DEF SetPosition
<1>3. CASE ~(p > b.limit)
  <2> DEFINE q == Greatest(p, b.mark)
  <2>1. q \in Uint /\ b.mark <= q /\ q <= b.limit
    BY <1>1, <1>3, SoundFields, Numbers DEF Greatest, Uint
  <2>2. SetPosition(b, p) = [b EXCEPT !.pos = q]
    BY <1>3 DEF SetPosition
  <2> HIDE DEF q
  <2> DEFINE x == [b EXCEPT !.pos = q]
  <2>3. x \in Buffer /\ x.data = b.data /\ x.cap = b.cap
        /\ x.limit = b.limit /\ x.pos = q /\ x.mark = b.mark
    BY <1>1, <2>1 DEF Buffer
  <2> HIDE DEF x
  <2>4. Sound(x)
    BY <2>1, <2>3, SoundCursors, SoundFields
  <2> QED
    BY <2>2, <2>4 DEF x
<1> QED
  BY <1>2, <1>3

\* dyb_mark keeps a buffer sound.
LEMMA MarkSound ==
  ASSUME NEW b, Sound(b)
  PROVE  Sound(Mark(b))
<1> DEFINE x == Mark(b)
<1>1. b \in Buffer /\ 0 \in Uint
  BY Numbers DEF Sound
<1>2. x \in Buffer /\ x.data = b.data /\ x.cap = b.cap
      /\ x.limit = b.limit /\ x.pos = b.pos /\ x.mark = b.pos
  BY <1>1 DEF Mark, Buffer
<1>3. b.pos <= b.pos /\ b.pos <= b.limit /\ b.limit <= b.cap
  BY SoundFields
<1> HIDE DEF x
<1>4. Sound(x)
  BY <1>2, <1>3, SoundCursors
<1> QED
  BY <1>4 DEF x

\* dyb_reset keeps a buffer sound.
LEMMA ResetSound ==
  ASSUME NEW b, Sound(b)
  PROVE  Sound(Reset(b))
<1> DEFINE x == Reset(b)
<1>1. b \in Buffer /\ 0 \in Uint
  BY Numbers DEF Sound
<1>2. x \in Buffer /\ x.data = b.data /\ x.cap = b.cap
      /\ x.limit = b.limit /\ x.pos = b.mark /\ x.mark = b.mark
  BY <1>1 DEF Reset, Buffer
<1>3. b.mark <= b.mark /\ b.mark <= b.limit /\ b.limit <= b.cap
  BY SoundFields
<1> HIDE DEF x
<1>4. Sound(x)
  BY <1>2, <1>3, SoundCursors
<1> QED
  BY <1>4 DEF x

\* dyb_clear keeps a buffer sound.
LEMMA ClearSound ==
  ASSUME NEW b, Sound(b)
  PROVE  Sound(Clear(b))
<1> DEFINE x == Clear(b)
<1>1. b \in Buffer /\ 0 \in Uint
  BY Numbers DEF Sound
<1>2. x \in Buffer /\ x.data = b.data /\ x.cap = b.cap
      /\ x.limit = b.cap /\ x.pos = 0 /\ x.mark = 0
  BY <1>1 DEF Clear, Buffer
<1>3. 0 <= 0 /\ 0 <= b.cap /\ b.cap <= b.cap
  BY SoundFields
<1> HIDE DEF x
<1>4. Sound(x)
  BY <1>2, <1>3, SoundCursors
<1> QED
  BY <1>4 DEF x

\* dyb_flip keeps a buffer sound.
LEMMA FlipSound ==
  ASSUME NEW b, Sound(b)
  PROVE  Sound(Flip(b))
<1> DEFINE x == Flip(b)
<1>1. b \in Buffer /\ 0 \in Uint
  BY Numbers DEF Sound
<1>2. x \in Buffer /\ x.data = b.data /\ x.cap = b.cap
      /\ x.limit = b.pos /\ x.pos = 0 /\ x.mark = 0
  BY <1>1 DEF Flip, Buffer
<1>3. 0 <= 0 /\ 0 <= b.pos /\ b.pos <= b.cap
  BY SoundFields
<1> HIDE DEF x
<1>4. Sound(x)
  BY <1>2, <1>3, SoundCursors
<1> QED
  BY <1>4 DEF x

\* dyb_rewind keeps a buffer sound.
LEMMA RewindSound ==
  ASSUME NEW b, Sound(b)
  PROVE  Sound(Rewind(b))
<1> DEFINE x == Rewind(b)
<1>1. b \in Buffer /\ 0 \in Uint
  BY Numbers DEF Sound
<1>2. x \in Buffer /\ x.data = b.data /\ x.cap = b.cap
      /\ x.limit = b.limit /\ x.pos = 0 /\ x.mark = 0
  BY <1>1 DEF Rewind, Buffer
<1>3. 0 <= 0 /\ 0 <= b.limit /\ b.limit <= b.cap
  BY SoundFields
<1> HIDE DEF x
<1>4. Sound(x)
  BY <1>2, <1>3, SoundCursors
<1> QED
  BY <1>4 DEF x

----------------------------------------------------------------------------
(* Arithmetic: no sum of a careful caller wraps.                           *)

\* A sum that fits uint is exact.
LEMMA NoWrap ==
  ASSUME NEW p \in Nat, NEW n \in Nat, p + n <= MaxUint
  PROVE  Plus(p, n) = p + n /\ Plus(p, n) \in Uint
BY Numbers DEF Plus, Uint

\* dyb_get_remainder of a sound buffer is exact.
LEMMA RemainderIs ==
  ASSUME NEW b, Sound(b)
  PROVE  Remainder(b) = b.limit - b.pos /\ Remainder(b) \in Nat
BY SoundFields, Numbers DEF Remainder, Minus

\* A two-byte length is at most MaxLen2.
LEMMA TwoDigits ==
  ASSUME NEW m \in Nat, NEW x \in 0 .. m, NEW y \in 0 .. m
  PROVE  x * (m + 1) + y \in 0 .. (m + 1) * (m + 1) - 1
<1>1. x * (m + 1) <= m * (m + 1) /\ x * (m + 1) \in Nat
  BY Z3
<1>2. m * (m + 1) + m = (m + 1) * (m + 1) - 1
  BY Z3
<1> QED
  BY <1>1, <1>2, Z3

\* A cut length is not longer than the length it was cut from.
LEMMA CutLength ==
  ASSUME NEW n \in Nat, NEW k \in Nat, k > 0
  PROVE  n % k \in 0 .. k - 1 /\ n % k <= n
<1>1. n % k \in 0 .. k - 1
  OBVIOUS
<1>2. n % k <= n
  BY Z3
<1> QED
  BY <1>1, <1>2

\* The digits of a two-byte length are bytes.
LEMMA Digits ==
  ASSUME NEW k \in Nat, k > 0, NEW n \in Nat, n < k * k
  PROVE  n \div k \in 0 .. k - 1 /\ n % k \in 0 .. k - 1
<1>1. n % k \in 0 .. k - 1 /\ n \div k \in Nat
  OBVIOUS
<1>2. n \div k < k
  OBVIOUS
<1> QED
  BY <1>1, <1>2

----------------------------------------------------------------------------
(* Moving and reading bytes.                                               *)

\* A new block of the same size, and cursors in order, make a sound buffer.
LEMMA SoundBlock ==
  ASSUME NEW b, Sound(b), NEW x \in [data : Data, cap : Uint, limit : Uint,
                                     pos : Uint, mark : Uint, fixed : BOOLEAN],
         x.data \in [0 .. b.cap - 1 -> Byte], x.cap = b.cap,
         x.mark <= x.pos, x.pos <= x.limit, x.limit <= b.cap
  PROVE  Sound(x)
BY DEF Sound, Buffer

\* dyb_compact keeps a buffer sound.
LEMMA CompactSound ==
  ASSUME NEW b, Sound(b)
  PROVE  Sound(Compact(b))
<1>1. CASE b.pos = 0
  BY <1>1 DEF Compact
<1>2. CASE b.pos # 0
  <2> DEFINE n == Minus(b.limit, b.pos)
  <2> DEFINE d == [i \in DOMAIN b.data |->
                     IF i < n /\ b.pos + i \in DOMAIN b.data
                     THEN b.data[b.pos + i] ELSE b.data[i]]
  <2>1. n \in Uint /\ 0 \in Uint /\ 0 <= n /\ n <= b.cap
    BY RemainderIs, SoundFields, Numbers DEF Remainder, Uint
  <2>2. Compact(b) = [b EXCEPT !.data = d, !.limit = n, !.pos = 0, !.mark = 0]
    BY <1>2 DEF Compact
  <2> HIDE DEF n
  <2>3. b \in Buffer /\ b.cap \in Uint /\ b.data \in [0 .. b.cap - 1 -> Byte]
    BY DEF Sound, Buffer
  <2>4. d \in [0 .. b.cap - 1 -> Byte]
    BY <2>3
  <2> HIDE DEF d
  <2>5. d \in Data
    BY <2>3, <2>4, SoundData
  <2> DEFINE x == [b EXCEPT !.data = d, !.limit = n, !.pos = 0, !.mark = 0]
  <2>6. x \in Buffer /\ x.data = d /\ x.cap = b.cap
        /\ x.limit = n /\ x.pos = 0 /\ x.mark = 0
    BY <2>1, <2>3, <2>5 DEF Buffer
  <2> HIDE DEF x
  <2>7. Sound(x)
    BY <2>1, <2>4, <2>6, SoundBlock DEF Buffer
  <2> QED
    BY <2>2, <2>7 DEF x
<1> QED
  BY <1>1, <1>2

\* Reading as many bytes as remain, or fewer, stays within the limit.
LEMMA NextSound ==
  ASSUME NEW b, Sound(b), NEW n \in Nat, b.pos + n <= b.limit
  PROVE  Sound(Next_(b, n)) /\ Next_(b, n).pos = b.pos + n
         /\ Next_(b, n).limit = b.limit /\ Next_(b, n).cap = b.cap
         /\ b.pos + n <= b.cap
<1> DEFINE q == Plus(b.pos, n)
<1>1. q = b.pos + n /\ q \in Uint /\ b.mark <= q /\ q <= b.limit /\ b.limit <= b.cap
  BY NoWrap, SoundFields, Numbers
<1>2. b \in Buffer
  BY DEF Sound
<1>3. Next_(b, n) = [b EXCEPT !.pos = q]
  BY DEF Next_
<1> HIDE DEF q
<1> DEFINE x == [b EXCEPT !.pos = q]
<1>4. x \in Buffer /\ x.data = b.data /\ x.cap = b.cap
      /\ x.limit = b.limit /\ x.pos = q /\ x.mark = b.mark
  BY <1>1, <1>2 DEF Buffer
<1> HIDE DEF x
<1>5. Sound(x)
  BY <1>1, <1>4, SoundCursors
<1>6. b.pos + n <= b.cap
  BY SoundFields
<1> QED
  BY <1>1, <1>3, <1>4, <1>5, <1>6 DEF x

\* The check of dyb_next_data_without_len is enough when nothing wraps.
LEMMA NextDataSound ==
  ASSUME NEW b, Sound(b), NEW len \in Nat, b.pos + len <= MaxUint
  PROVE  Sound(NextData(b, len)) /\ (HasData(b, len) => b.pos + len <= b.cap)
<1>1. CASE HasData(b, len)
  <2>1. b.pos + len <= b.limit
    BY <1>1, NoWrap, SoundFields DEF HasData
  <2> QED
    BY <1>1, <2>1, NextSound DEF NextData
<1>2. CASE ~HasData(b, len)
  BY <1>2 DEF NextData
<1> QED
  BY <1>1, <1>2

\* What is read at an index is a byte.
LEMMA ByteAtIs ==
  ASSUME NEW b, Sound(b), NEW i
  PROVE  ByteAt(b, i) \in 0 .. MaxByte
BY SoundFields, Numbers DEF ByteAt, Byte

\* A length header holds at most MaxLen2.
LEMMA HeaderLenIs ==
  ASSUME NEW b, Sound(b), NEW h \in {1, 2}
  PROVE  HeaderLen(b, h) \in 0 .. MaxLen2
<1>1. MaxByte \in Nat /\ MaxLen2 \in Nat /\ MaxByte <= MaxLen2
  BY DybufAssumption
<1>2. CASE h = 1
  BY <1>1, <1>2, ByteAtIs DEF HeaderLen
<1>3. CASE h = 2
  <2> DEFINE x == ByteAt(b, b.pos)
  <2> DEFINE y == ByteAt(b, Plus(b.pos, 1))
  <2>1. x \in 0 .. MaxByte /\ y \in 0 .. MaxByte
    BY ByteAtIs
  <2>2. HeaderLen(b, h) = x * (MaxByte + 1) + y
    BY <1>3 DEF HeaderLen
  <2> HIDE DEF x, y
  <2> QED
    BY <1>1, <2>1, <2>2, TwoDigits DEF MaxLen2
<1> QED
  BY <1>2, <1>3

\* A length-prefixed read stays within the block.
LEMMA NextWithLenSound ==
  ASSUME NEW b, Sound(b), NEW h \in {1, 2}, h <= Remainder(b)
  PROVE  /\ Sound(NextWithLen(b, h))
         /\ b.pos + h <= b.cap
         /\ HasData(Next_(b, h), HeaderLen(b, h))
              => b.pos + (h + HeaderLen(b, h)) <= b.cap
<1> DEFINE len == HeaderLen(b, h)
<1> DEFINE x == Next_(b, h)
<1>1. h \in Nat /\ b.pos + h <= b.limit
  BY RemainderIs, SoundFields
<1>2. Sound(x) /\ x.pos = b.pos + h /\ x.cap = b.cap /\ b.pos + h <= b.cap
  BY <1>1, NextSound
<1>3. len \in Nat /\ len <= MaxLen2 /\ MaxLen2 \in Nat
  BY HeaderLenIs, DybufAssumption
<1> HIDE DEF len, x
<1>4. x.pos + len <= MaxUint
  BY <1>2, <1>3, SoundFields, DybufAssumption
<1>5. Sound(NextData(x, len)) /\ (HasData(x, len) => x.pos + len <= x.cap)
  BY <1>2, <1>3, <1>4, NextDataSound
<1>6. HasData(x, len) => b.pos + (h + len) <= b.cap
  BY <1>1, <1>2, <1>3, <1>5, SoundFields
<1> QED
  BY <1>2, <1>5, <1>6 DEF NextWithLen, len, x

----------------------------------------------------------------------------
(* Appending.                                                              *)

\* Writing bytes where there is room leaves a block of bytes.
LEMMA StoreIs ==
  ASSUME NEW b, Sound(b), NEW bs \in Seq(Byte), b.pos + Len(bs) <= b.cap
  PROVE  Store(b, bs) \in [0 .. b.cap - 1 -> Byte]
<1>1. b.data \in [0 .. b.cap - 1 -> Byte] /\ b.pos \in Nat /\ b.cap \in Nat
      /\ Len(bs) \in Nat
  BY SoundFields
<1>2. \A i \in b.pos .. b.pos + Len(bs) - 1 : bs[i - b.pos + 1] \in Byte
  <2> TAKE i \in b.pos .. b.pos + Len(bs) - 1
  <2>1. i - b.pos + 1 \in 1 .. Len(bs)
    BY <1>1
  <2> QED
    BY <2>1
<1> QED
  BY <1>1, <1>2 DEF Store

\* A caller that asked for room finds the limit where its bytes end, or
\* behind.
LEMMA EnsureSound ==
  ASSUME NEW b, Sound(b), NEW l \in 0 .. MaxCap, b.pos <= l,
         b.fixed => l <= b.cap
  PROVE  /\ Sound(Ensure(b, l)) /\ Ensure(b, l).pos = b.pos
         /\ l <= Ensure(b, l).limit
<1>1. CASE l > b.limit
  <2>1. b.fixed \in BOOLEAN
    BY SoundFields
  <2>2. l <= b.cap \/ ~b.fixed
    BY <2>1
  <2>3. Sound(SetLimit(b, l)) /\ SetLimit(b, l).limit = l /\ SetLimit(b, l).pos = b.pos
    BY <2>2, SetLimitSound
  <2> QED
    BY <1>1, <2>3 DEF Ensure
<1>2. CASE ~(l > b.limit)
  BY <1>2, SoundFields DEF Ensure
<1> QED
  BY <1>1, <1>2

\* Writing before the limit keeps a buffer sound.
LEMMA PutSound ==
  ASSUME NEW b, Sound(b), NEW bs \in Seq(Byte), b.pos + Len(bs) <= b.limit
  PROVE  Sound(Put(b, bs))
<1> DEFINE q == Plus(b.pos, Len(bs))
<1> DEFINE d == Store(b, bs)
<1>1. q = b.pos + Len(bs) /\ q \in Uint /\ b.mark <= q /\ q <= b.limit
      /\ b.limit <= b.cap
  BY NoWrap, SoundFields, Numbers
<1>2. d \in [0 .. b.cap - 1 -> Byte]
  BY StoreIs, SoundFields
<1>3. b \in Buffer /\ b.cap \in Uint
  BY DEF Sound, Buffer
<1>4. Put(b, bs) = [b EXCEPT !.data = d, !.pos = q]
  BY DEF Put
<1> HIDE DEF q, d
<1>5. d \in Data
  BY <1>2, <1>3, SoundData
<1> DEFINE x == [b EXCEPT !.data = d, !.pos = q]
<1>6. x \in Buffer /\ x.data = d /\ x.cap = b.cap
      /\ x.limit = b.limit /\ x.pos = q /\ x.mark = b.mark
  BY <1>1, <1>3, <1>5 DEF Buffer
<1> HIDE DEF x
<1>7. Sound(x)
  BY <1>1, <1>2, <1>6, SoundBlock DEF Buffer
<1> QED
  BY <1>4, <1>7 DEF x

\* An append with room for it keeps a buffer sound and stays inside.
LEMMA AppendSound ==
  ASSUME NEW b, Sound(b), NEW bs \in Seq(Byte),
         b.pos + Len(bs) <= IF b.fixed THEN b.cap ELSE MaxCap
  PROVE  /\ Sound(Append_(b, bs)) /\ Sound(Ensure(b, Plus(b.pos, Len(bs))))
         /\ b.pos + Len(bs) <= Ensure(b, Plus(b.pos, Len(bs))).cap
<1> DEFINE l == Plus(b.pos, Len(bs))
<1> DEFINE e == Ensure(b, l)
<1>1. b.pos \in Nat /\ Len(bs) \in Nat /\ b.cap \in Nat /\ b.cap <= MaxCap
      /\ b.fixed \in BOOLEAN
  BY SoundFields, Numbers
<1>2. b.pos + Len(bs) <= MaxCap
  BY <1>1, Numbers
<1>3. l = b.pos + Len(bs) /\ l \in 0 .. MaxCap /\ b.pos <= l
  BY <1>1, <1>2, NoWrap, Numbers
<1>4. b.fixed => l <= b.cap
  BY <1>1, <1>3
<1> HIDE DEF l
<1>5. Sound(e) /\ e.pos = b.pos /\ l <= e.limit
  BY <1>3, <1>4, EnsureSound
<1> HIDE DEF e
<1>6. Sound(Put(e, bs)) /\ l <= e.cap
  BY <1>3, <1>5, PutSound, SoundFields
<1> QED
  BY <1>3, <1>5, <1>6 DEF Append_, e, l

\* A header and the cut payload are bytes.
LEMMA WithHeaderIs ==
  ASSUME NEW h \in {1, 2}, NEW bs \in Seq(Byte)
  PROVE  WithHeader(h, bs) \in Seq(Byte)
<1> DEFINE k == MaxByte + 1
<1> DEFINE len == Len(bs) % (IF h = 1 THEN k ELSE MaxLen2 + 1)
<1>1. MaxByte \in Nat /\ k \in Nat /\ k > 0 /\ MaxLen2 + 1 = k * k
      /\ Len(bs) \in Nat /\ MaxLen2 \in Nat /\ 0 .. k - 1 = Byte
  BY DybufAssumption DEF MaxLen2, Byte
<1> HIDE DEF k
<1>2. len \in Nat /\ len <= Len(bs)
  BY <1>1, CutLength
<1>3. SubSeq(bs, 1, len) \in Seq(Byte)
  BY <1>1, <1>2
<1>4. CASE h = 1
  <2>1. len \in Byte
    BY <1>1, <1>4, CutLength
  <2> HIDE DEF len
  <2>2. <<len>> \o SubSeq(bs, 1, len) \in Seq(Byte)
    BY <1>3, <2>1
  <2> QED
    BY <1>4, <2>2 DEF WithHeader, len, k
<1>5. CASE h = 2
  <2>1. len < k * k
    BY <1>1, <1>5, CutLength
  <2> HIDE DEF len
  <2>2. len \div k \in Byte /\ len % k \in Byte
    BY <1>1, <1>2, <2>1, Digits
  <2>3. <<len \div k, len % k>> \o SubSeq(bs, 1, len) \in Seq(Byte)
    BY <1>3, <2>2
  <2> QED
    BY <1>5, <2>3 DEF WithHeader, len, k
<1> QED
  BY <1>4, <1>5

----------------------------------------------------------------------------
(* The invariant: one step per operation.                                  *)

\* Every constructor makes a sound buffer.
LEMMA InitSound == Init => IInv
<1> SUFFICES ASSUME Init PROVE Sound(dyb)
  BY DEF Init, IInv
<1>1. PICK c \in 0 .. MaxCap :
        \/ \E d \in [0 .. c - 1 -> Byte], w \in BOOLEAN : dyb = Refer(d, c, w)
        \/ dyb = Create(c)
        \/ \E d \in [0 .. c - 1 -> Byte], n \in BOOLEAN : dyb = Copy(d, c, n)
  BY DEF Init
<1>2. CASE \E d \in [0 .. c - 1 -> Byte], w \in BOOLEAN : dyb = Refer(d, c, w)
  BY <1>2, ReferSound
<1>3. CASE dyb = Create(c)
  BY <1>3, CreateSound
<1>4. CASE \E d \in [0 .. c - 1 -> Byte], n \in BOOLEAN : dyb = Copy(d, c, n)
  BY <1>4, CopySound
<1> QED
  BY <1>1, <1>2, <1>3, <1>4

\* The cursor operations keep the invariant.
LEMMA CursorKeeps == IInv /\ Cursor => IInv'
<1> SUFFICES ASSUME Sound(dyb), fault = FALSE, Cursor
             PROVE  Sound(dyb') /\ fault' = FALSE
  BY DEF IInv, Sound, Buffer
<1>1. CASE \E c \in 0 .. MaxCap : Quiet(SetCapacity(dyb, c))
  BY <1>1, SetCapacitySound DEF Quiet
<1>2. CASE \E l \in 0 .. MaxCap : Quiet(SetLimit(dyb, l))
  BY <1>2, SetLimitSound DEF Quiet
<1>3. CASE \E p \in Uint : Quiet(SetPosition(dyb, p))
  <2>1. PICK p \in Uint : Quiet(SetPosition(dyb, p))
    BY <1>3
  <2>2. p \in Nat
    BY Numbers DEF Uint
  <2> QED
    BY <2>1, <2>2, SetPositionSound DEF Quiet
<1>4. CASE Quiet(Mark(dyb))
  BY <1>4, MarkSound DEF Quiet
<1>5. CASE Quiet(Reset(dyb))
  BY <1>5, ResetSound DEF Quiet
<1>6. CASE Quiet(Clear(dyb))
  BY <1>6, ClearSound DEF Quiet
<1>7. CASE Quiet(Flip(dyb))
  BY <1>7, FlipSound DEF Quiet
<1>8. CASE Quiet(Rewind(dyb))
  BY <1>8, RewindSound DEF Quiet
<1>9. CASE DoCompact
  <2> DEFINE n == IF dyb.pos = 0 THEN 0 ELSE Remainder(dyb)
  <2>1. ~(n > 0 /\ dyb.pos + n > dyb.cap)
    BY RemainderIs, SoundFields
  <2>3. Access(dyb, dyb.pos, n)
    BY <1>9 DEF DoCompact
  <2> HIDE DEF n
  <2>2. fault' = FALSE
    BY <2>1, <2>3 DEF Access
  <2> QED
    BY <1>9, <2>2, CompactSound DEF DoCompact
<1> QED
  BY <1>1, <1>2, <1>3, <1>4, <1>5, <1>6, <1>7, <1>8, <1>9 DEF Cursor

\* Reads of a careful caller keep the invariant.
LEMMA ReadKeeps == IInv /\ Read => IInv'
<1> SUFFICES ASSUME Sound(dyb), fault = FALSE, Read
             PROVE  Sound(dyb') /\ fault' = FALSE
  BY DEF IInv, Sound, Buffer
<1>1. ASSUME NEW n \in 1 .. 8, n <= Remainder(dyb), DoNext(n)
      PROVE  Sound(dyb') /\ fault' = FALSE
  <2>1. n \in Nat /\ dyb.pos + n <= dyb.limit
    BY <1>1, RemainderIs, SoundFields
  <2>2. Sound(Next_(dyb, n)) /\ dyb.pos + n <= dyb.cap
    BY <2>1, NextSound
  <2>3. ~(n > 0 /\ dyb.pos + n > dyb.cap)
    BY <2>1, <2>2, SoundFields
  <2> QED
    BY <1>1, <2>2, <2>3 DEF DoNext, Access
<1>2. ASSUME NEW len \in Uint, dyb.pos + len <= MaxUint, DoNextData(len)
      PROVE  Sound(dyb') /\ fault' = FALSE
  <2>1. len \in Nat
    BY Numbers DEF Uint
  <2>2. Sound(NextData(dyb, len)) /\ (HasData(dyb, len) => dyb.pos + len <= dyb.cap)
    BY <1>2, <2>1, NextDataSound
  <2> DEFINE n == IF HasData(dyb, len) THEN len ELSE 0
  <2>3. ~(n > 0 /\ dyb.pos + n > dyb.cap)
    BY <2>1, <2>2, SoundFields
  <2>4. dyb' = NextData(dyb, len) /\ Access(dyb, dyb.pos, n)
    BY <1>2 DEF DoNextData
  <2> HIDE DEF n
  <2> QED
    BY <2>2, <2>3, <2>4 DEF Access
<1>3. ASSUME NEW h \in {1, 2}, h <= Remainder(dyb), DoNextWithLen(h)
      PROVE  Sound(dyb') /\ fault' = FALSE
  <2> DEFINE n == IF HasData(Next_(dyb, h), HeaderLen(dyb, h))
                  THEN h + HeaderLen(dyb, h) ELSE h
  <2>1. Sound(NextWithLen(dyb, h)) /\ dyb.pos + n <= dyb.cap
    BY <1>3, NextWithLenSound
  <2>2. dyb' = NextWithLen(dyb, h) /\ Access(dyb, dyb.pos, n)
    BY <1>3 DEF DoNextWithLen
  <2>3. n \in Nat
    BY HeaderLenIs, DybufAssumption
  <2> HIDE DEF n
  <2>4. ~(n > 0 /\ dyb.pos + n > dyb.cap)
    BY <2>1, <2>3, SoundFields
  <2> QED
    BY <2>1, <2>2, <2>4 DEF Access
<1> QED
  BY <1>1, <1>2, <1>3 DEF Read

\* Appends of a careful caller keep the invariant.
LEMMA WriteKeeps == IInv /\ Write => IInv'
<1> SUFFICES ASSUME Sound(dyb), fault = FALSE, Write
             PROVE  Sound(dyb') /\ fault' = FALSE
  BY DEF IInv, Sound, Buffer
<1>1. ASSUME NEW bs \in Seq(Byte), Room(Len(bs)), DoAppend(bs)
      PROVE  Sound(dyb') /\ fault' = FALSE
  <2> DEFINE e == Ensure(dyb, Plus(dyb.pos, Len(bs)))
  <2>1. Sound(Append_(dyb, bs)) /\ Sound(e) /\ dyb.pos + Len(bs) <= e.cap
    BY <1>1, AppendSound DEF Room
  <2>2. dyb' = Append_(dyb, bs) /\ Access(e, dyb.pos, Len(bs))
    BY <1>1 DEF DoAppend
  <2> HIDE DEF e
  <2>4. ~(Len(bs) > 0 /\ dyb.pos + Len(bs) > e.cap)
    BY <2>1, SoundFields
  <2> QED
    BY <2>1, <2>2, <2>4 DEF Access
<1>2. Chunk \subseteq Seq(Byte)
  BY DybufAssumption
<1> QED
  BY <1>1, <1>2, WithHeaderIs DEF Write

\* Every step of a careful caller keeps the invariant.
LEMMA StepKeeps == IInv /\ [Next]_vars => IInv'
<1> SUFFICES ASSUME IInv, [Next]_vars PROVE IInv'
  OBVIOUS
<1>1. CASE Cursor
  BY <1>1, CursorKeeps
<1>2. CASE Read
  BY <1>2, ReadKeeps
<1>3. CASE Write
  BY <1>3, WriteKeeps
<1>4. CASE UNCHANGED vars
  BY <1>4 DEF IInv, Sound, Buffer, vars
<1> QED
  BY <1>1, <1>2, <1>3, <1>4 DEF Next

\* Every buffer a careful caller holds is sound and no access went astray.
THEOREM Invariance == Spec => []IInv
BY InitSound, StepKeeps, PTL DEF Spec

\* The type of the buffer: the block always has as many bytes as capacity
\* says (dyb_create, dyb_copy, dyb_set_capacity).
THEOREM TypeCorrect == Spec => []TypeOK
<1>1. IInv => TypeOK
  BY SoundFields DEF IInv, Sound, TypeOK
<1> QED
  BY <1>1, Invariance, PTL

\* mark <= position <= limit <= capacity, as dybuf.h:122 promises, in the
\* hands of a careful caller.
THEOREM CursorsInOrder == Spec => []CursorOrder
<1>1. IInv => CursorOrder
  BY SoundFields, Numbers DEF IInv, CursorOrder
<1> QED
  BY <1>1, Invariance, PTL

\* No read, append or compact leaves the block: dyb_set_limit grows it in
\* time and the checks of dyb_next_data_without_len are enough.
THEOREM NoAccessOutside == Spec => []NoFault
<1>1. IInv => NoFault
  BY DEF IInv, NoFault
<1> QED
  BY <1>1, Invariance, PTL

----------------------------------------------------------------------------
(* The bytes between two cursors as a sequence.                            *)

\* Their number and values.
LEMMA BetweenIs ==
  ASSUME NEW b, Sound(b), NEW m \in Nat, NEW k \in Nat, NEW n \in Nat,
         n = m + k, n <= b.cap
  PROVE  /\ Between(b, m, n) \in Seq(Byte)
         /\ Len(Between(b, m, n)) = k /\ DOMAIN Between(b, m, n) = 1 .. k
         /\ \A i \in 1 .. k : Between(b, m, n)[i] = b.data[m + i - 1]
<1>1. n - m = k
  OBVIOUS
<1>2. b.data \in [0 .. b.cap - 1 -> Byte] /\ b.cap \in Nat
  BY SoundFields, Numbers
<1>3. ASSUME NEW i \in 1 .. k PROVE b.data[m + i - 1] \in Byte
  <2>1. m + i - 1 \in 0 .. b.cap - 1
    BY <1>2
  <2> QED
    BY <1>2, <2>1
<1>4. Between(b, m, n) = [i \in 1 .. k |-> b.data[m + i - 1]]
  BY <1>1 DEF Between
<1>5. Between(b, m, n) \in [1 .. k -> Byte]
  BY <1>3, <1>4
<1>6. \A s \in [1 .. k -> Byte] : s \in Seq(Byte) /\ Len(s) = k /\ DOMAIN s = 1 .. k
  OBVIOUS
<1> QED
  BY <1>4, <1>5, <1>6

\* The same from the first byte on.
LEMMA FrontIs ==
  ASSUME NEW b, Sound(b), NEW n \in Nat, n <= b.cap
  PROVE  /\ Between(b, 0, n) \in Seq(Byte)
         /\ Len(Between(b, 0, n)) = n /\ DOMAIN Between(b, 0, n) = 1 .. n
         /\ \A i \in 1 .. n : Between(b, 0, n)[i] = b.data[i - 1]
<1>1. PICK m \in Nat : m = 0
  OBVIOUS
<1>2. n = m + n
  BY <1>1
<1>3. /\ Between(b, m, n) \in Seq(Byte)
      /\ Len(Between(b, m, n)) = n /\ DOMAIN Between(b, m, n) = 1 .. n
      /\ \A i \in 1 .. n : Between(b, m, n)[i] = b.data[m + i - 1]
  BY <1>2, BetweenIs
<1>4. ASSUME NEW i \in 1 .. n PROVE Between(b, m, n)[i] = b.data[i - 1]
  <2>1. m + i - 1 = i - 1
    BY <1>1
  <2> QED
    BY <1>3, <2>1
<1> QED
  BY <1>1, <1>3, <1>4

\* No byte between a cursor and itself.
LEMMA NoBytes ==
  ASSUME NEW b, NEW m \in Nat
  PROVE  Between(b, m, m) = <<>>
BY DEF Between

\* The bytes up to a cursor and those behind it are all bytes.
LEMMA Joined ==
  ASSUME NEW b, Sound(b), NEW p \in Nat, NEW l \in Nat, p <= l, l <= b.cap
  PROVE  Between(b, 0, p) \o Between(b, p, l) = Between(b, 0, l)
<1>1. PICK s : s = Between(b, 0, p)
  OBVIOUS
<1>2. PICK t : t = Between(b, p, l)
  OBVIOUS
<1>3. PICK u : u = Between(b, 0, l)
  OBVIOUS
<1>4. b.cap \in Nat /\ p <= b.cap
  BY SoundFields, Numbers
<1>5. s \in Seq(Byte) /\ Len(s) = p /\ \A i \in 1 .. p : s[i] = b.data[i - 1]
  BY <1>1, <1>4, FrontIs
<1>6. t \in Seq(Byte) /\ Len(t) = l - p /\ \A i \in 1 .. l - p : t[i] = b.data[p + i - 1]
  <2>1. PICK k \in Nat : k = l - p /\ l = p + k
    OBVIOUS
  <2>2. t \in Seq(Byte)
    BY <1>2, <1>4, <2>1, BetweenIs
  <2>3. Len(t) = k
    <3>1. DOMAIN t = 1 .. k
      BY <1>2, <2>1 DEF Between
    <3> QED
      BY <2>1, <2>2, <3>1
  <2>4. \A i \in 1 .. k : t[i] = b.data[p + i - 1]
    BY <1>2, <2>1 DEF Between
  <2> QED
    BY <2>1, <2>2, <2>3, <2>4
<1>7. u \in Seq(Byte) /\ Len(u) = l /\ \A i \in 1 .. l : u[i] = b.data[i - 1]
  BY <1>3, FrontIs
<1>8. PICK w : w = s \o t
  OBVIOUS
<1>9. /\ w \in Seq(Byte) /\ Len(w) = l
      /\ \A i \in 1 .. l : w[i] = IF i <= p THEN s[i] ELSE t[i - p]
  <2>1. p + (l - p) = l
    OBVIOUS
  <2>2. /\ w \in Seq(Byte) /\ Len(w) = Len(s) + Len(t)
        /\ \A i \in 1 .. Len(s) + Len(t) :
             w[i] = IF i <= Len(s) THEN s[i] ELSE t[i - Len(s)]
    BY <1>5, <1>6, <1>8, ConcatProperties
  <2> QED
    BY <1>5, <1>6, <2>1, <2>2
<1>10. ASSUME NEW i \in 1 .. l PROVE w[i] = u[i]
  <2>1. CASE i <= p
    <3>1. i \in 1 .. p
      BY <2>1
    <3> QED
      BY <1>5, <1>7, <1>9, <2>1, <3>1
  <2>2. CASE i > p
    <3>1. i - p \in 1 .. l - p /\ p + (i - p) - 1 = i - 1
      BY <2>2
    <3>2. t[i - p] = b.data[i - 1]
      BY <1>6, <3>1
    <3> QED
      BY <1>7, <1>9, <2>2, <3>2
  <2> QED
    BY <2>1, <2>2
<1>11. w = u
  BY <1>7, <1>9, <1>10, SeqEqual
<1> QED
  BY <1>1, <1>2, <1>3, <1>11, <1>8

\* The bytes up to a cursor are a prefix of those up to a later one.
LEMMA PrefixIs ==
  ASSUME NEW b, Sound(b), NEW m \in Nat, m <= b.cap,
         NEW x, Sound(x), NEW n \in Nat, n <= x.cap, m <= n,
         \A i \in 0 .. m - 1 : x.data[i] = b.data[i]
  PROVE  T!IsPrefix(Between(b, 0, m), Between(x, 0, n))
<1>1. PICK s : s = Between(b, 0, m)
  OBVIOUS
<1>2. PICK t : t = Between(x, 0, n)
  OBVIOUS
<1>3. /\ s \in Seq(Byte) /\ Len(s) = m /\ DOMAIN s = 1 .. m
      /\ \A i \in 1 .. m : s[i] = b.data[i - 1]
  BY <1>1, SoundFields, FrontIs
<1>4. t \in Seq(Byte) /\ Len(t) = n /\ \A i \in 1 .. n : t[i] = x.data[i - 1]
  BY <1>2, SoundFields, FrontIs
<1>5. \A i \in 1 .. m : s[i] = t[i]
  <2> SUFFICES ASSUME NEW i \in 1 .. m PROVE s[i] = t[i]
    OBVIOUS
  <2>1. i - 1 \in 0 .. m - 1 /\ i \in 1 .. n
    OBVIOUS
  <2> QED
    BY <1>3, <1>4, <2>1
<1>6. SubSeq(s, 1, m) = SubSeq(t, 1, m)
  BY <1>5
<1>7. T!IsPrefix(s, t)
  BY <1>3, <1>4, <1>6 DEF T!IsPrefix
<1> QED
  BY <1>1, <1>2, <1>7

\* Two buffers with the same first bytes.
LEMMA FrontSame ==
  ASSUME NEW b, Sound(b), NEW n \in Nat, n <= b.cap, NEW x, Sound(x), n <= x.cap,
         \A i \in 0 .. n - 1 : x.data[i] = b.data[i]
  PROVE  Between(x, 0, n) = Between(b, 0, n)
<1>1. PICK s : s = Between(b, 0, n)
  OBVIOUS
<1>2. PICK t : t = Between(x, 0, n)
  OBVIOUS
<1>3. s \in Seq(Byte) /\ Len(s) = n /\ \A i \in 1 .. n : s[i] = b.data[i - 1]
  BY <1>1, FrontIs
<1>4. t \in Seq(Byte) /\ Len(t) = n /\ \A i \in 1 .. n : t[i] = x.data[i - 1]
  BY <1>2, FrontIs
<1>5. ASSUME NEW i \in 1 .. n PROVE s[i] = t[i]
  <2>1. i - 1 \in 0 .. n - 1
    OBVIOUS
  <2> QED
    BY <1>3, <1>4, <2>1
<1>6. s = t
  BY <1>3, <1>4, <1>5, SeqEqual
<1> QED
  BY <1>1, <1>2, <1>6

\* Two buffers with the same bytes between two cursors.
LEMMA BackSame ==
  ASSUME NEW b, Sound(b), NEW m \in Nat, NEW n \in Nat, m <= n, n <= b.cap,
         NEW x, Sound(x), n <= x.cap,
         \A i \in m .. n - 1 : x.data[i] = b.data[i]
  PROVE  Between(x, m, n) = Between(b, m, n)
<1>1. ASSUME NEW i \in 1 .. n - m PROVE x.data[m + i - 1] = b.data[m + i - 1]
  <2>1. m + i - 1 \in m .. n - 1
    OBVIOUS
  <2> QED
    BY <2>1
<1> QED
  BY <1>1 DEF Between

\* Without its first bytes a sequence begins at a later cursor.
LEMMA Dropped ==
  ASSUME NEW b, Sound(b), NEW p \in Nat, NEW n \in Nat, NEW l \in Nat,
         p + n <= l, l <= b.cap
  PROVE  T!Drop(Between(b, p, l), n) = Between(b, p + n, l)
<1>1. PICK s : s = Between(b, p, l)
  OBVIOUS
<1>2. PICK m \in Nat : m = p + n
  OBVIOUS
<1>3. PICK k \in Nat : l = m + k
  <2>1. l - m \in Nat /\ l = m + (l - m)
    BY <1>2
  <2> QED
    BY <2>1
<1>4. PICK t : t = Between(b, m, l)
  OBVIOUS
<1>5. PICK j \in Nat : j = n + k /\ l = p + j
  BY <1>2, <1>3
<1>a. s \in Seq(Byte) /\ Len(s) = j /\ \A i \in 1 .. j : s[i] = b.data[p + i - 1]
  <2>1. s \in Seq(Byte)
    BY <1>1, <1>5, BetweenIs
  <2>2. Len(s) = j
    BY <1>1, <1>5, BetweenIs
  <2>3. \A i \in 1 .. j : s[i] = b.data[p + i - 1]
    <3>1. l - p = j
      BY <1>5
    <3> QED
      BY <1>1, <3>1 DEF Between
  <2> QED
    BY <2>1, <2>2, <2>3
<1>b. t \in Seq(Byte) /\ Len(t) = k /\ \A i \in 1 .. k : t[i] = b.data[m + i - 1]
  <2>1. t \in Seq(Byte)
    BY <1>3, <1>4, BetweenIs
  <2>2. Len(t) = k
    BY <1>3, <1>4, BetweenIs
  <2>3. \A i \in 1 .. k : t[i] = b.data[m + i - 1]
    <3>1. l - m = k
      BY <1>3
    <3> QED
      BY <1>4, <3>1 DEF Between
  <2> QED
    BY <2>1, <2>2, <2>3
<1>6. PICK u : u = SubSeq(s, n + 1, n + k)
  OBVIOUS
<1>7. u \in Seq(Byte) /\ Len(u) = k /\ \A i \in 1 .. k : u[i] = s[n + i]
  <2>1. /\ n + 1 \in Int /\ n + k \in Int /\ n + k - (n + 1) + 1 = k
        /\ \A i \in n + 1 .. n + k : s[i] \in Byte
    BY <1>5, <1>a
  <2>2. /\ u \in Seq(Byte) /\ Len(u) = IF n + 1 <= n + k THEN n + k - (n + 1) + 1 ELSE 0
        /\ \A i \in 1 .. n + k - (n + 1) + 1 : u[i] = s[n + 1 + i - 1]
    BY <1>6, <2>1, SubSeqProperties
  <2>3. ASSUME NEW i \in 1 .. k PROVE u[i] = s[n + i]
    <3>1. i \in 1 .. n + k - (n + 1) + 1 /\ n + 1 + i - 1 = n + i
      BY <2>1
    <3>2. u[i] = s[n + 1 + i - 1]
      BY <2>2, <3>1
    <3> QED
      BY <3>1, <3>2
  <2>4. Len(u) = k
    BY <2>1, <2>2
  <2> QED
    BY <2>2, <2>3, <2>4
<1>8. ASSUME NEW i \in 1 .. k PROVE t[i] = u[i]
  <2>1. n + i \in 1 .. j /\ p + (n + i) - 1 = m + i - 1
    BY <1>2, <1>5
  <2>2. s[n + i] = b.data[p + (n + i) - 1]
    BY <1>a, <2>1
  <2> QED
    BY <1>7, <1>b, <2>1, <2>2
<1>9. t = u
  BY <1>b, <1>7, <1>8, SeqEqual
<1> QED
  BY <1>1, <1>2, <1>4, <1>5, <1>6, <1>9, <1>a DEF T!Drop

----------------------------------------------------------------------------
(* Steps of the tape: what they need to know of block and cursors.         *)

\* The cursors and bytes of two sound buffers.
LEMMA CursorsOf ==
  ASSUME NEW b, Sound(b)
  PROVE  /\ b.cap \in Nat /\ b.limit \in Nat /\ b.pos \in Nat /\ b.mark \in Nat
         /\ b.mark <= b.pos /\ b.pos <= b.limit /\ b.limit <= b.cap
         /\ b.pos <= b.cap /\ b.mark <= b.cap
         /\ b.data \in [0 .. b.cap - 1 -> Byte]
BY SoundFields, Numbers

\* All bytes of the tape lie before the limit, those passed before the
\* position.
LEMMA TapeIs ==
  ASSUME Sound(dyb), Sound(dyb')
  PROVE  /\ T!Whole = Between(dyb, 0, dyb.limit)
         /\ T!Whole' = Between(dyb', 0, dyb'.limit)
         /\ Len(Between(dyb, 0, dyb.pos)) = dyb.pos
         /\ Len(Between(dyb', 0, dyb'.pos)) = dyb'.pos
         /\ Len(Between(dyb, 0, dyb.limit)) = dyb.limit
         /\ Len(Between(dyb', 0, dyb'.limit)) = dyb'.limit
<1>1. ASSUME NEW b, Sound(b)
      PROVE  /\ Between(b, 0, b.pos) \o Between(b, b.pos, b.limit) = Between(b, 0, b.limit)
             /\ Len(Between(b, 0, b.pos)) = b.pos /\ Len(Between(b, 0, b.limit)) = b.limit
  BY <1>1, CursorsOf, Joined, FrontIs
<1> QED
  BY <1>1 DEF T!Whole

\* The position moves.
LEMMA MoveStep ==
  ASSUME Sound(dyb), Sound(dyb'), dyb'.data = dyb.data, dyb'.limit = dyb.limit,
         dyb'.mark = dyb.mark
  PROVE  T!Move
<1>1. Between(dyb', 0, dyb'.limit) = Between(dyb, 0, dyb.limit)
  BY DEF Between
<1>2. dyb'.pos >= dyb.mark
  BY CursorsOf
<1> QED
  BY <1>1, <1>2, TapeIs DEF T!Move

\* The bytes before a new end are kept, and the cursors clamped to it.
LEMMA CutStep ==
  ASSUME Sound(dyb), Sound(dyb'), NEW n \in Nat,
         dyb'.limit = Least(dyb.limit, n), dyb'.pos = Least(dyb.pos, n),
         dyb'.mark = Least(dyb.mark, n),
         \A i \in 0 .. dyb'.limit - 1 : dyb'.data[i] = dyb.data[i]
  PROVE  T!Cut
<1>1. /\ dyb.limit \in Nat /\ dyb.pos \in Nat /\ dyb.mark \in Nat /\ dyb'.limit \in Nat
      /\ dyb.mark <= dyb.pos /\ dyb.pos <= dyb.limit
      /\ dyb.limit <= dyb.cap /\ dyb'.limit <= dyb'.cap
  BY CursorsOf
<1>2. dyb'.limit <= dyb.limit
  BY <1>1 DEF Least
<1>3. T!IsPrefix(T!Whole', T!Whole)
  BY <1>1, <1>2, TapeIs, PrefixIs
<1>4. dyb'.pos = IF dyb.pos < dyb'.limit THEN dyb.pos ELSE dyb'.limit
  BY <1>1 DEF Least
<1>5. dyb'.mark = IF dyb.mark < dyb'.limit THEN dyb.mark ELSE dyb'.limit
  BY <1>1 DEF Least
<1> QED
  BY <1>3, <1>4, <1>5, TapeIs DEF T!Cut

\* More bytes get before the limit.
LEMMA RevealStep ==
  ASSUME Sound(dyb), Sound(dyb'), dyb.limit <= dyb'.limit,
         \/ dyb'.pos = dyb.pos /\ dyb'.mark = dyb.mark
         \/ dyb'.pos = 0 /\ dyb'.mark = 0,
         \A i \in 0 .. dyb.limit - 1 : dyb'.data[i] = dyb.data[i]
  PROVE  T!Reveal
<1>1. /\ dyb.limit \in Nat /\ dyb.pos \in Nat /\ dyb'.limit \in Nat
      /\ dyb.pos <= dyb.limit /\ dyb.pos <= dyb.cap /\ dyb'.pos <= dyb'.cap
      /\ dyb.limit <= dyb.cap /\ dyb'.limit <= dyb'.cap
  BY CursorsOf
<1>2. T!IsPrefix(T!Whole, T!Whole')
  BY <1>1, TapeIs, PrefixIs
<1>3. CASE dyb'.pos = dyb.pos /\ dyb'.mark = dyb.mark
  <2>1. \A i \in 0 .. dyb.pos - 1 : dyb'.data[i] = dyb.data[i]
    BY <1>1
  <2>2. Between(dyb', 0, dyb'.pos) = Between(dyb, 0, dyb.pos)
    <3>1. PICK p \in Nat : p = dyb.pos /\ p = dyb'.pos
      BY <1>1, <1>3
    <3>2. Between(dyb', 0, p) = Between(dyb, 0, p)
      BY <1>1, <2>1, <3>1, FrontSame
    <3> QED
      BY <3>1, <3>2
  <2> QED
    BY <1>2, <1>3, <2>2 DEF T!Reveal
<1>4. CASE dyb'.pos = 0 /\ dyb'.mark = 0
  <2>1. Between(dyb', 0, dyb'.pos) = <<>>
    BY <1>4, NoBytes
  <2> QED
    BY <1>2, <1>4, <2>1 DEF T!Reveal
<1> QED
  BY <1>3, <1>4

\* Bytes are written at the position, up to the new one; those from there to
\* the limit stay, and the limit moves only if there are none.
LEMMA WriteStep ==
  ASSUME Sound(dyb), Sound(dyb'), dyb.pos <= dyb'.pos, dyb'.mark = dyb.mark,
         dyb'.limit = Greatest(dyb.limit, dyb'.pos),
         \A i \in 0 .. dyb.pos - 1 : dyb'.data[i] = dyb.data[i],
         \A i \in dyb'.pos .. dyb.limit - 1 : dyb'.data[i] = dyb.data[i]
  PROVE  T!Write
<1>1. /\ dyb.limit \in Nat /\ dyb.pos \in Nat /\ dyb'.pos \in Nat
      /\ dyb.pos <= dyb.limit /\ dyb.pos <= dyb.cap /\ dyb'.pos <= dyb'.cap
      /\ dyb.limit <= dyb.cap /\ dyb'.limit <= dyb'.cap /\ dyb'.limit \in Nat
      /\ dyb'.pos <= dyb'.limit /\ dyb.cap \in Nat /\ dyb'.cap \in Nat
  BY CursorsOf
<1>2. T!IsPrefix(Between(dyb, 0, dyb.pos), Between(dyb', 0, dyb'.pos))
  BY <1>1, PrefixIs
<1>3. PICK n \in Nat : n = dyb'.pos - dyb.pos
  BY <1>1
<1>4. T!Drop(Between(dyb, dyb.pos, dyb.limit), n) = Between(dyb', dyb'.pos, dyb'.limit)
  <2>1. CASE dyb'.pos <= dyb.limit
    <3>1. dyb'.limit = dyb.limit /\ dyb.pos + n = dyb'.pos
      BY <1>1, <1>3, <2>1 DEF Greatest
    <3>2. PICK p \in Nat, q \in Nat, l \in Nat : p = dyb.pos /\ q = dyb'.pos /\ l = dyb.limit
      BY <1>1
    <3>3. T!Drop(Between(dyb, p, l), n) = Between(dyb, p + n, l)
      BY <1>1, <2>1, <3>1, <3>2, Dropped
    <3>4. \A i \in q .. l - 1 : dyb'.data[i] = dyb.data[i]
      BY <3>2
    <3>5. Between(dyb', q, l) = Between(dyb, q, l)
      BY <1>1, <2>1, <3>1, <3>2, <3>4, BackSame
    <3> QED
      BY <3>1, <3>2, <3>3, <3>5
  <2>2. CASE dyb'.pos > dyb.limit
    <3>1. dyb'.limit = dyb'.pos
      BY <1>1, <2>2 DEF Greatest
    <3>2. Between(dyb', dyb'.pos, dyb'.limit) = <<>>
      BY <1>1, <3>1, NoBytes
    <3>3. PICK k \in Nat : k = Len(Between(dyb, dyb.pos, dyb.limit)) /\ k < n + 1
      <4>1. PICK k \in Nat : dyb.limit = dyb.pos + k
        <5>1. dyb.limit - dyb.pos \in Nat /\ dyb.limit = dyb.pos + (dyb.limit - dyb.pos)
          BY <1>1
        <5> QED
          BY <5>1
      <4>2. Len(Between(dyb, dyb.pos, dyb.limit)) = k
        BY <1>1, <4>1, BetweenIs
      <4>3. k < n + 1
        BY <1>1, <1>3, <2>2, <4>1
      <4> QED
        BY <4>2, <4>3
    <3>4. SubSeq(Between(dyb, dyb.pos, dyb.limit), n + 1, k) = <<>>
      BY <3>3, SubSeqEmpty
    <3> QED
      BY <3>2, <3>3, <3>4 DEF T!Drop
  <2> QED
    BY <1>1, <2>1, <2>2
<1>5. Len(Between(dyb', 0, dyb'.pos)) - Len(Between(dyb, 0, dyb.pos)) = n
  BY <1>1, <1>3, TapeIs
<1> QED
  BY <1>2, <1>4, <1>5 DEF T!Write
----------------------------------------------------------------------------
(* What the operations do to block and cursors.                            *)

\* The new block holds the bytes of the old one, as many as fit.
LEMMA SetCapacityKeeps ==
  ASSUME NEW b, Sound(b), NEW c \in 0 .. MaxCap, ~(c = b.cap \/ b.fixed)
  PROVE  \E n \in Nat :
           /\ c <= n
           /\ SetCapacity(b, c).limit = Least(b.limit, n)
           /\ SetCapacity(b, c).pos = Least(b.pos, n)
           /\ SetCapacity(b, c).mark = Least(b.mark, n)
           /\ \A i \in 0 .. n - 1 : i < b.cap => SetCapacity(b, c).data[i] = b.data[i]
<1> DEFINE n == AllocSize(c)
           d == [i \in 0 .. n - 1 |-> IF i < Least(b.cap, n) THEN b.data[i] ELSE 0]
<1>1. n \in Nat /\ c <= n /\ b.cap \in Nat
  BY Numbers, CursorsOf DEF AllocSize, Greatest
<1>2. SetCapacity(b, c) =
        [data |-> d, cap |-> n, limit |-> Least(b.limit, n),
         pos |-> Least(b.pos, n), mark |-> Least(b.mark, n), fixed |-> FALSE]
  BY DEF SetCapacity
<1> HIDE DEF n
<1>3. ASSUME NEW i \in 0 .. n - 1, i < b.cap PROVE d[i] = b.data[i]
  <2>1. i < Least(b.cap, n)
    BY <1>1, <1>3 DEF Least
  <2> QED
    BY <2>1
<1> HIDE DEF d
<1> QED
  BY <1>1, <1>2, <1>3

\* A limit that is not refused is set, and the bytes before it stay.
LEMMA SetLimitKeeps ==
  ASSUME NEW b, Sound(b), NEW l \in 0 .. MaxCap, l <= b.cap \/ ~b.fixed
  PROVE  /\ SetLimit(b, l).limit = l
         /\ SetLimit(b, l).pos = Least(b.pos, l)
         /\ SetLimit(b, l).mark = Least(b.mark, l)
         /\ \A i \in 0 .. b.limit - 1 : i < l => SetLimit(b, l).data[i] = b.data[i]
<1>1. /\ l \in Nat /\ b.cap \in Nat /\ b.limit \in Nat /\ b.pos \in Nat /\ b.mark \in Nat
      /\ b.mark <= b.pos /\ b.pos <= b.limit /\ b.limit <= b.cap
  BY Numbers, CursorsOf
<1>2. PICK g : g = IF l > b.cap THEN SetCapacity(b, l) ELSE b
  OBVIOUS
<1>3. Sound(g) /\ g.pos = b.pos /\ g.mark = b.mark
      /\ \A i \in 0 .. b.limit - 1 : i < l => g.data[i] = b.data[i]
  <2>1. CASE l > b.cap
    <3>1. g = SetCapacity(b, l) /\ Sound(g) /\ ~(l = b.cap \/ b.fixed)
      BY <1>1, <1>2, <2>1, SetCapacitySound
    <3>2. PICK n \in Nat :
            /\ l <= n /\ g.pos = Least(b.pos, n) /\ g.mark = Least(b.mark, n)
            /\ \A i \in 0 .. n - 1 : i < b.cap => g.data[i] = b.data[i]
      BY <3>1, SetCapacityKeeps
    <3>3. g.pos = b.pos /\ g.mark = b.mark
      BY <1>1, <2>1, <3>2 DEF Least
    <3>4. ASSUME NEW i \in 0 .. b.limit - 1, i < l PROVE g.data[i] = b.data[i]
      <4>1. i \in 0 .. n - 1 /\ i < b.cap
        BY <1>1, <2>1, <3>2
      <4> QED
        BY <3>2, <4>1
    <3> QED
      BY <3>1, <3>3, <3>4
  <2>2. CASE ~(l > b.cap)
    BY <1>2, <2>2
  <2> QED
    BY <2>1, <2>2
<1>4. SetLimit(b, l) = [g EXCEPT !.limit = l, !.mark = Least(@, l), !.pos = Least(@, l)]
  BY <1>1, <1>2 DEF SetLimit
<1>5. g \in Buffer
  BY <1>3 DEF Sound
<1> QED
  BY <1>3, <1>4, <1>5 DEF Buffer

\* An append that has room writes its bytes and no others.
LEMMA AppendKeeps ==
  ASSUME NEW b, Sound(b), NEW bs \in Seq(Byte),
         b.pos + Len(bs) <= IF b.fixed THEN b.cap ELSE MaxCap
  PROVE  /\ Append_(b, bs).pos = b.pos + Len(bs)
         /\ Append_(b, bs).mark = b.mark
         /\ Append_(b, bs).limit = Greatest(b.limit, b.pos + Len(bs))
         /\ \A i \in 0 .. b.pos - 1 : Append_(b, bs).data[i] = b.data[i]
         /\ \A i \in b.pos + Len(bs) .. b.limit - 1 : Append_(b, bs).data[i] = b.data[i]
<1>1. PICK q \in Nat : q = b.pos + Len(bs)
  BY CursorsOf
<1>2. /\ b.cap \in Nat /\ b.limit \in Nat /\ b.pos \in Nat /\ b.mark \in Nat
      /\ b.mark <= b.pos /\ b.pos <= b.limit /\ b.limit <= b.cap
      /\ b.cap <= MaxCap /\ Len(bs) \in Nat /\ b.pos <= q
  BY <1>1, CursorsOf, SoundFields, Numbers
<1>3. q \in 0 .. MaxCap /\ (q <= b.cap \/ ~b.fixed) /\ Plus(b.pos, Len(bs)) = q
  BY <1>1, <1>2, Numbers, NoWrap
<1>4. PICK e : e = Ensure(b, q)
  OBVIOUS
<1>5. e \in Buffer /\ Sound(e) /\ e.pos = b.pos /\ e.mark = b.mark
      /\ e.limit = Greatest(b.limit, q)
      /\ \A i \in 0 .. b.limit - 1 : e.data[i] = b.data[i]
  <2>1. CASE q > b.limit
    <3>1. e = SetLimit(b, q) /\ Sound(e)
      BY <1>3, <1>4, <2>1, SetLimitSound DEF Ensure
    <3>2. /\ e.limit = q /\ e.pos = Least(b.pos, q) /\ e.mark = Least(b.mark, q)
          /\ \A i \in 0 .. b.limit - 1 : i < q => e.data[i] = b.data[i]
      BY <1>3, <3>1, SetLimitKeeps
    <3>3. e.pos = b.pos /\ e.mark = b.mark /\ e.limit = Greatest(b.limit, q)
      BY <1>2, <2>1, <3>2 DEF Least, Greatest
    <3>4. \A i \in 0 .. b.limit - 1 : e.data[i] = b.data[i]
      BY <1>2, <2>1, <3>2
    <3> QED
      BY <3>1, <3>3, <3>4 DEF Sound
  <2>2. CASE ~(q > b.limit)
    BY <1>2, <1>4, <2>2 DEF Ensure, Greatest, Sound
  <2> QED
    BY <2>1, <2>2
<1>6. Append_(b, bs) = [e EXCEPT !.data = Store(e, bs), !.pos = q]
  BY <1>3, <1>4, <1>5 DEF Append_, Put
<1>7. ASSUME NEW i \in 0 .. b.limit - 1, i < b.pos \/ q <= i
      PROVE  Store(e, bs)[i] = b.data[i]
  <2>1. i \in DOMAIN e.data
    <3>1. DOMAIN e.data = 0 .. e.cap - 1 /\ e.cap \in Nat /\ e.limit <= e.cap
      BY <1>5, SoundFields, CursorsOf
    <3>2. b.limit <= e.limit /\ e.limit \in Nat
      BY <1>2, <1>5 DEF Greatest
    <3> QED
      BY <1>2, <3>1, <3>2
  <2>2. i \notin e.pos .. e.pos + Len(bs) - 1
    BY <1>1, <1>2, <1>5, <1>7
  <2>3. Store(e, bs)[i] = e.data[i]
    BY <2>1, <2>2 DEF Store
  <2> QED
    BY <1>5, <2>3
<1>8. PICK x : x = Append_(b, bs)
  OBVIOUS
<1>9. x.pos = q /\ x.mark = b.mark /\ x.limit = Greatest(b.limit, q) /\ x.data = Store(e, bs)
  BY <1>5, <1>6, <1>8 DEF Buffer
<1>10. /\ \A i \in 0 .. b.pos - 1 : i \in 0 .. b.limit - 1 /\ i < b.pos
       /\ \A i \in q .. b.limit - 1 : i \in 0 .. b.limit - 1 /\ q <= i
  BY <1>2
<1> QED
  BY <1>1, <1>7, <1>8, <1>9, <1>10

\* Compacting moves the bytes ahead to the front.
LEMMA CompactKeeps ==
  ASSUME NEW b, Sound(b), b.pos > 0
  PROVE  /\ Compact(b).pos = 0 /\ Compact(b).mark = 0
         /\ Compact(b).limit = b.limit - b.pos
         /\ \A i \in 0 .. b.limit - b.pos - 1 : Compact(b).data[0 + i] = b.data[b.pos + i]
<1>1. /\ b.cap \in Nat /\ b.limit \in Nat /\ b.pos \in Nat
      /\ b.pos <= b.limit /\ b.limit <= b.cap /\ DOMAIN b.data = 0 .. b.cap - 1
  BY CursorsOf, SoundFields
<1>2. PICK n \in Nat : n = b.limit - b.pos
  BY <1>1
<1>3. Minus(b.limit, b.pos) = n
  BY <1>1, <1>2 DEF Minus
<1> DEFINE d == [i \in DOMAIN b.data |-> IF i < n /\ b.pos + i \in DOMAIN b.data
                                         THEN b.data[b.pos + i] ELSE b.data[i]]
<1>4. Compact(b) = [b EXCEPT !.data = d, !.limit = n, !.pos = 0, !.mark = 0]
  BY <1>1, <1>3 DEF Compact
<1>5. ASSUME NEW i \in 0 .. n - 1 PROVE d[i] = b.data[b.pos + i]
  <2>1. i \in DOMAIN b.data /\ b.pos + i \in DOMAIN b.data
    BY <1>1, <1>2
  <2> QED
    BY <2>1
<1> HIDE DEF d
<1>6. b \in Buffer
  BY DEF Sound
<1>7. PICK x : x = Compact(b)
  OBVIOUS
<1>8. x.pos = 0 /\ x.mark = 0 /\ x.limit = n /\ x.data = d
  BY <1>4, <1>6, <1>7 DEF Buffer
<1>9. \A i \in 0 .. n - 1 : x.data[0 + i] = b.data[b.pos + i]
  BY <1>5, <1>8
<1> QED
  BY <1>2, <1>7, <1>8, <1>9

\* Reads move the position alone.
LEMMA NextKeeps ==
  ASSUME NEW b, b \in Buffer, NEW n
  PROVE  /\ Next_(b, n).data = b.data /\ Next_(b, n).limit = b.limit
         /\ Next_(b, n).mark = b.mark
BY DEF Next_, Buffer
----------------------------------------------------------------------------
(* Every operation is a step of the tape, or leaves it as it is.           *)

\* A new capacity cuts the tape, if the new block is too short for it.
LEMMA CapacityTape ==
  ASSUME Sound(dyb), Sound(dyb'), NEW c \in 0 .. MaxCap, dyb' = SetCapacity(dyb, c)
  PROVE  T!Cut \/ dyb' = dyb
<1>1. CASE c = dyb.cap \/ dyb.fixed
  BY <1>1 DEF SetCapacity
<1>2. CASE ~(c = dyb.cap \/ dyb.fixed)
  <2>1. PICK n \in Nat :
          /\ dyb'.limit = Least(dyb.limit, n) /\ dyb'.pos = Least(dyb.pos, n)
          /\ dyb'.mark = Least(dyb.mark, n)
          /\ \A i \in 0 .. n - 1 : i < dyb.cap => dyb'.data[i] = dyb.data[i]
    BY <1>2, SetCapacityKeeps
  <2>2. ASSUME NEW i \in 0 .. dyb'.limit - 1 PROVE dyb'.data[i] = dyb.data[i]
    <3>1. i \in 0 .. n - 1 /\ i < dyb.cap
      BY <2>1, CursorsOf DEF Least
    <3> QED
      BY <2>1, <3>1
  <2> QED
    BY <2>1, <2>2, CutStep
<1> QED
  BY <1>1, <1>2

\* A new limit cuts the tape or reveals more of it.
LEMMA LimitTape ==
  ASSUME Sound(dyb), Sound(dyb'), NEW l \in 0 .. MaxCap, dyb' = SetLimit(dyb, l)
  PROVE  T!Cut \/ T!Reveal \/ dyb' = dyb
<1>1. CASE l > dyb.cap /\ dyb.fixed
  BY <1>1 DEF SetLimit
<1>2. CASE ~(l > dyb.cap /\ dyb.fixed)
  <2>1. /\ dyb.limit \in Nat /\ dyb.pos \in Nat /\ dyb.mark \in Nat /\ dyb.cap \in Nat
        /\ dyb.mark <= dyb.pos /\ dyb.pos <= dyb.limit /\ l \in Nat
        /\ l <= dyb.cap \/ ~dyb.fixed
    BY <1>2, CursorsOf, Numbers
  <2>2. /\ dyb'.limit = l /\ dyb'.pos = Least(dyb.pos, l) /\ dyb'.mark = Least(dyb.mark, l)
        /\ \A i \in 0 .. dyb.limit - 1 : i < l => dyb'.data[i] = dyb.data[i]
    BY <2>1, SetLimitKeeps
  <2>3. CASE l <= dyb.limit
    <3>1. dyb'.limit = Least(dyb.limit, l)
      BY <2>1, <2>2, <2>3 DEF Least
    <3>2. \A i \in 0 .. dyb'.limit - 1 : dyb'.data[i] = dyb.data[i]
      BY <2>1, <2>2, <2>3
    <3> QED
      BY <2>1, <2>2, <3>1, <3>2, CutStep
  <2>4. CASE l > dyb.limit
    <3>1. dyb.limit <= dyb'.limit /\ dyb'.pos = dyb.pos /\ dyb'.mark = dyb.mark
      BY <2>1, <2>2, <2>4 DEF Least
    <3>2. \A i \in 0 .. dyb.limit - 1 : dyb'.data[i] = dyb.data[i]
      BY <2>1, <2>2, <2>4
    <3> QED
      BY <3>1, <3>2, RevealStep
  <2> QED
    BY <2>1, <2>3, <2>4
<1> QED
  BY <1>1, <1>2

\* compact forgets what was passed.
LEMMA CompactTape ==
  ASSUME Sound(dyb), Sound(dyb'), dyb.pos > 0, dyb' = Compact(dyb)
  PROVE  T!Forget
<1>1. PICK n \in Nat : n = dyb.limit - dyb.pos
  BY CursorsOf
<1>2. /\ dyb'.pos = 0 /\ dyb'.mark = 0 /\ dyb'.limit = n
      /\ \A i \in 0 .. n - 1 : dyb'.data[0 + i] = dyb.data[dyb.pos + i]
  BY <1>1, CompactKeeps
<1>3. PICK z \in Nat : z = 0
  OBVIOUS
<1>4. Between(dyb', z, n) = Between(dyb, dyb.pos, dyb.limit)
  <2>1. n - z = dyb.limit - dyb.pos /\ z <= n /\ n <= dyb'.cap
    BY <1>1, <1>2, <1>3, CursorsOf
  <2>2. \A i \in 0 .. dyb.limit - dyb.pos - 1 : dyb'.data[z + i] = dyb.data[dyb.pos + i]
    BY <1>1, <1>2, <1>3
  <2>3. PICK p \in Nat, l \in Nat : p = dyb.pos /\ l = dyb.limit
    BY CursorsOf
  <2>4. p <= l /\ l <= dyb.cap /\ n - z = l - p
    BY <2>1, <2>3, CursorsOf
  <2>5. \A i \in 0 .. l - p - 1 : dyb'.data[z + i] = dyb.data[p + i]
    BY <2>2, <2>3
  <2>6. Between(dyb', z, n) = Between(dyb, p, l)
    <3>1. ASSUME NEW i \in 1 .. l - p PROVE dyb'.data[z + i - 1] = dyb.data[p + i - 1]
      <4>1. i - 1 \in 0 .. l - p - 1 /\ z + i - 1 = z + (i - 1) /\ p + i - 1 = p + (i - 1)
        BY <2>4
      <4> QED
        BY <2>5, <4>1
    <3> QED
      BY <2>4, <3>1 DEF Between
  <2> QED
    BY <2>3, <2>6
<1>5. Between(dyb', 0, dyb'.pos) = <<>>
  BY <1>2, NoBytes
<1> QED
  BY <1>2, <1>3, <1>4, <1>5 DEF T!Forget

\* The cursors alone are moved.
LEMMA CursorsTape ==
  ASSUME Sound(dyb), Sound(dyb'),
         \/ \E p \in Uint : dyb' = SetPosition(dyb, p)
         \/ dyb' = Mark(dyb) \/ dyb' = Reset(dyb) \/ dyb' = Clear(dyb)
         \/ dyb' = Flip(dyb) \/ dyb' = Rewind(dyb)
  PROVE  T!TapeNext \/ dyb' = dyb
<1> USE DEF T!TapeNext
<1>1. dyb \in Buffer
  BY DEF Sound
<1>2. /\ dyb.limit \in Nat /\ dyb.pos \in Nat /\ dyb.cap \in Nat
      /\ dyb.pos <= dyb.limit /\ dyb.limit <= dyb.cap
  BY CursorsOf
<1>3. CASE \E p \in Uint : dyb' = SetPosition(dyb, p)
  <2>1. dyb' = dyb \/ (dyb'.data = dyb.data /\ dyb'.limit = dyb.limit /\ dyb'.mark = dyb.mark)
    BY <1>1, <1>3 DEF SetPosition, Buffer
  <2> QED
    BY <2>1, MoveStep
<1>4. CASE dyb' = Mark(dyb)
  <2>1. /\ dyb'.data = dyb.data /\ dyb'.limit = dyb.limit /\ dyb'.pos = dyb.pos
        /\ dyb'.mark = dyb.pos
    BY <1>1, <1>4 DEF Mark, Buffer
  <2>2. /\ Between(dyb', 0, dyb'.pos) = Between(dyb, 0, dyb.pos)
        /\ Between(dyb', dyb'.pos, dyb'.limit) = Between(dyb, dyb.pos, dyb.limit)
    BY <2>1 DEF Between
  <2> QED
    BY <2>1, <2>2, TapeIs DEF T!SetMark
<1>5. CASE dyb' = Reset(dyb)
  <2>1. dyb'.data = dyb.data /\ dyb'.limit = dyb.limit /\ dyb'.mark = dyb.mark
    BY <1>1, <1>5 DEF Reset, Buffer
  <2> QED
    BY <2>1, MoveStep
<1>6. CASE dyb' = Clear(dyb)
  <2>1. dyb'.data = dyb.data /\ dyb'.limit = dyb.cap /\ dyb'.pos = 0 /\ dyb'.mark = 0
    BY <1>1, <1>6 DEF Clear, Buffer
  <2>2. dyb.limit <= dyb'.limit
    BY <1>2, <2>1
  <2> QED
    BY <2>1, <2>2, RevealStep
<1>7. CASE dyb' = Flip(dyb)
  <2>1. dyb'.data = dyb.data /\ dyb'.limit = dyb.pos /\ dyb'.pos = 0 /\ dyb'.mark = 0
    BY <1>1, <1>7 DEF Flip, Buffer
  <2>2. Between(dyb', 0, dyb'.pos) = <<>>
    BY <2>1, NoBytes
  <2>3. Between(dyb', dyb'.pos, dyb'.limit) = Between(dyb, 0, dyb.pos)
    BY <2>1 DEF Between
  <2> QED
    BY <2>1, <2>2, <2>3 DEF T!Turn
<1>8. CASE dyb' = Rewind(dyb)
  <2>1. dyb'.data = dyb.data /\ dyb'.limit = dyb.limit /\ dyb'.pos = 0 /\ dyb'.mark = 0
    BY <1>1, <1>8 DEF Rewind, Buffer
  <2>2. Between(dyb', 0, dyb'.pos) = <<>>
    BY <2>1, NoBytes
  <2>3. Between(dyb', dyb'.pos, dyb'.limit) = Between(dyb, 0, dyb.limit)
    BY <2>1 DEF Between
  <2> QED
    BY <2>1, <2>2, <2>3, TapeIs DEF T!Restart
<1> QED
  BY <1>3, <1>4, <1>5, <1>6, <1>7, <1>8

\* A read moves the position, whether the data is there or refused.
LEMMA ReadTape ==
  ASSUME Sound(dyb), Sound(dyb'), Read
  PROVE  T!Move
<1>1. dyb \in Buffer
  BY DEF Sound
<1>2. ASSUME NEW b, b \in Buffer, NEW n, NEW len
      PROVE  /\ NextData(b, len).data = b.data /\ NextData(b, len).limit = b.limit
             /\ NextData(b, len).mark = b.mark
  BY <1>2, NextKeeps DEF NextData
<1>3. ASSUME NEW h \in {1, 2}, h <= Remainder(dyb)
      PROVE  Next_(dyb, h) \in Buffer
  <2>1. h \in Nat /\ dyb.pos + h <= dyb.limit
    BY <1>3, RemainderIs, CursorsOf
  <2> QED
    BY <2>1, NextSound DEF Sound
<1>4. dyb'.data = dyb.data /\ dyb'.limit = dyb.limit /\ dyb'.mark = dyb.mark
  <2>1. CASE \E n \in 1 .. 8 : n <= Remainder(dyb) /\ DoNext(n)
    BY <1>1, <2>1, NextKeeps DEF DoNext
  <2>2. CASE \E len \in Uint : dyb.pos + len <= MaxUint /\ DoNextData(len)
    BY <1>1, <1>2, <2>2 DEF DoNextData
  <2>3. CASE \E h \in {1, 2} : h <= Remainder(dyb) /\ DoNextWithLen(h)
    BY <1>1, <1>2, <1>3, <2>3, NextKeeps DEF DoNextWithLen, NextWithLen
  <2> QED
    BY <2>1, <2>2, <2>3 DEF Read
<1> QED
  BY <1>4, MoveStep

\* An append writes at the position.
LEMMA WriteTape ==
  ASSUME Sound(dyb), Sound(dyb'), Write
  PROVE  T!Write
<1>1. PICK bs \in Seq(Byte) : Room(Len(bs)) /\ DoAppend(bs)
  BY DybufAssumption, WithHeaderIs DEF Write
<1>2. /\ dyb'.pos = dyb.pos + Len(bs) /\ dyb'.mark = dyb.mark
      /\ dyb'.limit = Greatest(dyb.limit, dyb.pos + Len(bs))
      /\ \A i \in 0 .. dyb.pos - 1 : dyb'.data[i] = dyb.data[i]
      /\ \A i \in dyb.pos + Len(bs) .. dyb.limit - 1 : dyb'.data[i] = dyb.data[i]
  BY <1>1, AppendKeeps DEF Room, DoAppend
<1>3. dyb.pos <= dyb'.pos
  BY <1>2, CursorsOf
<1> QED
  BY <1>2, <1>3, WriteStep

\* The three kinds of operations.
LEMMA StepTape ==
  ASSUME IInv, IInv', [Next]_vars
  PROVE  /\ T!TapeNext \/ dyb' = dyb
         /\ DoCompact /\ dyb.pos > 0 => T!Forget
         /\ Read => T!Move
         /\ Write => T!Write
<1>1. Sound(dyb) /\ Sound(dyb')
  BY DEF IInv
<1>2. DoCompact /\ dyb.pos > 0 => T!Forget
  BY <1>1, CompactTape DEF DoCompact
<1>3. (Read => T!Move) /\ (Write => T!Write)
  BY <1>1, ReadTape, WriteTape
<1>4. ASSUME Cursor PROVE T!TapeNext \/ dyb' = dyb
  <2>1. ASSUME NEW c \in 0 .. MaxCap, Quiet(SetCapacity(dyb, c))
        PROVE  T!TapeNext \/ dyb' = dyb
    <3>1. T!Cut \/ dyb' = dyb
      BY <1>1, <2>1, CapacityTape DEF Quiet
    <3> QED
      BY <3>1 DEF T!TapeNext
  <2>2. ASSUME NEW l \in 0 .. MaxCap, Quiet(SetLimit(dyb, l))
        PROVE  T!TapeNext \/ dyb' = dyb
    <3>1. T!Cut \/ T!Reveal \/ dyb' = dyb
      BY <1>1, <2>2, LimitTape DEF Quiet
    <3> QED
      BY <3>1 DEF T!TapeNext
  <2>3. ASSUME DoCompact PROVE T!TapeNext \/ dyb' = dyb
    <3>1. CASE dyb.pos = 0
      BY <2>3, <3>1 DEF DoCompact, Compact
    <3>2. CASE dyb.pos # 0
      <4>1. dyb.pos > 0
        BY <1>1, <3>2, CursorsOf
      <4> QED
        BY <1>2, <2>3, <4>1 DEF T!TapeNext
    <3> QED
      BY <3>1, <3>2
  <2>4. ASSUME \/ \E p \in Uint : Quiet(SetPosition(dyb, p))
               \/ Quiet(Mark(dyb)) \/ Quiet(Reset(dyb)) \/ Quiet(Clear(dyb))
               \/ Quiet(Flip(dyb)) \/ Quiet(Rewind(dyb))
        PROVE  T!TapeNext \/ dyb' = dyb
    <3>1. \/ \E p \in Uint : dyb' = SetPosition(dyb, p)
          \/ dyb' = Mark(dyb) \/ dyb' = Reset(dyb) \/ dyb' = Clear(dyb)
          \/ dyb' = Flip(dyb) \/ dyb' = Rewind(dyb)
      BY <2>4 DEF Quiet
    <3> QED
      BY <1>1, <3>1, CursorsTape
  <2> QED
    BY <1>4, <2>1, <2>2, <2>3, <2>4 DEF Cursor
<1>5. T!TapeNext \/ dyb' = dyb
  <2>1. CASE Read \/ Write
    BY <1>3, <2>1 DEF T!TapeNext
  <2>2. CASE UNCHANGED vars
    BY <2>2 DEF vars
  <2> QED
    BY <1>4, <2>1, <2>2 DEF Next
<1> QED
  BY <1>2, <1>3, <1>5

\* The buffer begins with nothing passed.
LEMMA InitTape == Init => T!TapeInit
<1> SUFFICES ASSUME Init PROVE T!TapeInit
  OBVIOUS
<1>1. dyb.pos = 0 /\ dyb.mark = 0
  <2>1. ASSUME NEW d, NEW c, NEW w PROVE Refer(d, c, w).pos = 0 /\ Refer(d, c, w).mark = 0
    BY DEF Refer
  <2>2. ASSUME NEW c PROVE Create(c).pos = 0 /\ Create(c).mark = 0
    BY DEF Create
  <2>3. ASSUME NEW d, NEW c, NEW n \in BOOLEAN
        PROVE  Copy(d, c, n).pos = 0 /\ Copy(d, c, n).mark = 0
    <3>1. CASE n
      <4>1. Copy(d, c, n) = [Refer(d, c, FALSE) EXCEPT !.fixed = FALSE]
        BY <3>1 DEF Copy
      <4> QED
        BY <4>1 DEF Refer
    <3>2. CASE ~n
      <4> DEFINE z == [i \in 0 .. AllocSize(c) - 1 |-> IF i < c THEN d[i] ELSE 0]
      <4>1. Copy(d, c, n) = [Create(c) EXCEPT !.limit = c, !.data = z]
        BY <3>2 DEF Copy
      <4> HIDE DEF z
      <4> QED
        BY <4>1 DEF Create
    <3> QED
      BY <3>1, <3>2
  <2> QED
    BY <2>1, <2>2, <2>3 DEF Init
<1>2. Between(dyb, 0, dyb.pos) = <<>>
  BY <1>1, NoBytes
<1> QED
  BY <1>1, <1>2 DEF T!TapeInit

\* The buffer implements the tape: no operation of a careful caller loses,
\* moves or invents a byte between mark, position and limit, whatever blocks
\* are allocated and copied beneath (dyb_set_capacity, dyb_compact).
THEOREM BufferIsTape == Spec => ImplementsTape
<1>1. IInv /\ IInv' /\ [Next]_vars => [T!TapeNext]_(T!tape)
  <2> SUFFICES ASSUME IInv, IInv', [Next]_vars, dyb' = dyb
               PROVE  UNCHANGED T!tape
    BY StepTape
  <2> QED
    BY DEF T!tape
<1> QED
  BY <1>1, InitTape, Invariance, PTL DEF Spec, ImplementsTape, T!TapeSpec

\* compact, the reads and the appends are the operations of the tape with
\* their names (dyb_compact, dyb_next_..., dyb_append_...).
THEOREM OperationsAreNamed == Spec => OperationsMatch
<1>1. IInv /\ IInv' /\ [Next]_vars =>
        /\ [DoCompact /\ dyb.pos > 0 => T!Forget]_dyb
        /\ [Read => T!Move]_dyb
        /\ [Write => T!Write]_dyb
  BY StepTape
<1> QED
  BY <1>1, Invariance, PTL DEF Spec, OperationsMatch
============================================================================
