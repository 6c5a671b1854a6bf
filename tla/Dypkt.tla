------------------------------- MODULE Dypkt -------------------------------
(***************************************************************************)
(* The packets of dypkt/dypkt.h over the buffers of dybuf.h.  A writer     *)
(* appends items to a buffer of its own; the bytes before its position     *)
(* then go to a reader, which looks at the tag of each item and calls the  *)
(* dyp_next_ function of its type, as dybuf/README.md and dypkt_test of    *)
(* test.c do.                                                              *)
(*                                                                         *)
(* An item is a type, an index and a value: a number, a string or bytes.   *)
(* Bytes are real here, so that a reader out of step reads what it would.  *)
(***************************************************************************)
EXTENDS Typdex, SequencesExt

CONSTANTS
  MaxUint,     \* largest value of uint (2^32 - 1 in the code)
  Item,        \* what the writer may append
  Memory,      \* capacity of the memory a writer without growth packs into
  MaxItems     \* bound on the items of one packet

\* enum dype
dype_bool == 1
dype_int == 2
dype_uint == 3
dype_float == 6
dype_double == 7
dype_string == 10
dype_bytes == 11
dype_f == 15

\* enum dype_fid
dype_f_eof == 0
dype_f_version == 1
dype_f_protocol == 7
dype_f_proto_version == 8

VARIABLES
  phase,     \* "writing" or "reading"
  out,       \* the writer's dypkt
  in,        \* the reader's dypkt
  sent,      \* the items whose append has returned
  got,       \* the items the reader has seen
  fault,     \* a byte outside the block of out or in was accessed
  over       \* the reader has met the end of the packet

vars == <<phase, out, in, sent, got, fault, over>>

B == INSTANCE Dybuf WITH
       dyb <- in, CacheUnit <- 16, MaxByte <- 255, MaxCap <- MaxUint - 65535, Chunk <- {}

----------------------------------------------------------------------------
(* What each append function writes: the tag, then the parts of the value, *)
(* each by a call of its own.                                              *)

IsNumber(type, index) == type = dype_uint \/ (type = dype_f /\ index \in {dype_f_version, dype_f_proto_version})
IsText(type, index) == type = dype_string \/ (type = dype_f /\ index = dype_f_protocol)

ValueParts(item) ==
  CASE item.type = dype_bool -> <<<<item.val>>>>
    [] item.type = dype_int -> <<C!VarS64(item.val)>>
    [] IsNumber(item.type, item.index) -> <<C!VarU64(item.val)>>
    [] item.type \in {dype_float, dype_double} -> <<item.val>>
    [] IsText(item.type, item.index) ->
         <<C!VarU64(Len(item.val) + 1), item.val \o <<0>>>>
    [] item.type = dype_bytes -> <<C!VarU64(Len(item.val)), item.val>>
    [] OTHER -> <<>>

Code(item) == Tag(item.type, item.index) \o FlattenSeq(ValueParts(item))

\* A number of 64 bits.
IsU64(n) == n \in Nat /\ (n \div C!Pow2[30]) \div C!Pow2[30] < 16

ByteSeq == Seq(0 .. 255)

\* What the append functions take.  For a greater index dyb_append_typdex
\* returns null, and the caller goes on with a value that has no tag.
IsItem(x) ==
  /\ x = [type |-> x.type, index |-> x.index, val |-> x.val]
  /\ x.index \in 0 .. C!Pow2[20] - 1
  /\ \/ x.type = dype_bool /\ x.val \in {0, 1}
     \/ x.type = dype_int /\ x.val \in Int /\ IsU64(C!ZigZag(x.val))
     \/ IsNumber(x.type, x.index) /\ IsU64(x.val)
     \/ x.type = dype_float /\ x.val \in ByteSeq /\ Len(x.val) = 4
     \/ x.type = dype_double /\ x.val \in ByteSeq /\ Len(x.val) = 8
     \/ /\ IsText(x.type, x.index) /\ x.val \in ByteSeq /\ IsU64(Len(x.val) + 1)
        /\ \A i \in DOMAIN x.val : x.val[i] # 0
     \/ x.type = dype_bytes /\ x.val \in ByteSeq /\ IsU64(Len(x.val))
     \/ x.type = dype_f /\ ~IsNumber(x.type, x.index) /\ ~IsText(x.type, x.index) /\ x.val = <<>>

\* Packets are so short that position + length does not wrap.
ASSUME DypktAssumption ==
  /\ MaxUint \in Nat /\ Memory \in Nat /\ MaxItems \in Nat
  /\ \A item \in Item : IsItem(item) /\ MaxItems * Len(Code(item)) <= MaxUint

\* A slip: the writer does not look.
AnyRoom(item) == TRUE

\* Room for the item: a careful writer into fixed memory looks at it.
Room(item) == out.fixed => out.pos + Len(Code(item)) <= out.cap

\* One dyb_append_ call after the other.
Appended(b, parts) ==
  LET after[i \in 0 .. Len(parts)] ==
        IF i = 0 THEN b ELSE B!Append_(after[i - 1], parts[i])
  IN  after[Len(parts)]

AppendItem(item) ==
  /\ phase = "writing"
  /\ Len(sent) < MaxItems /\ Room(item)
  /\ out' = Appended(B!Append_(out, Tag(item.type, item.index)), ValueParts(item))
  /\ fault' = (fault \/ out'.pos > out'.cap)
  /\ sent' = Append(sent, item)
  /\ UNCHANGED <<phase, in, got, over>>

----------------------------------------------------------------------------
(* The bytes go to the reader, who refers to them or keeps a copy; or the  *)
(* writer turns its own buffer round.                                      *)

Packet == [i \in 0 .. out.pos - 1 |-> out.data[i]]

Unpack(clone) ==
  IF clone THEN B!Copy(Packet, out.pos, FALSE) ELSE B!Refer(Packet, out.pos, FALSE)

Send ==
  /\ phase = "writing"
  /\ phase' = "reading"
  /\ \/ \E clone \in BOOLEAN : in' = Unpack(clone)
     \/ in' = B!Flip(out)
  /\ UNCHANGED <<out, sent, got, fault, over>>

----------------------------------------------------------------------------
(* What each dyp_next_ function reads from the bytes bs at the position:   *)
(* the tag, then the value.  A value is skip bytes that are taken without  *)
(* a check, then len bytes the library takes if they are before the limit. *)

Ahead(b) == [i \in 1 .. b.cap - b.pos + 16 |-> B!ByteAt(b, b.pos + i - 1)]

Number(r) == [val |-> r.val, skip |-> r.used, len |-> 0]

\* dyb_next_cstring_with_var_len, dyb_next_data_with_var_len: the value is
\* the bytes without the last ones of them; null reads as the empty string.
Counted(bs, last) ==
  LET n == C!NextVarU64(bs)
  IN  [val |-> SubSeq(bs, n.used + 1, n.used + n.val - last), skip |-> n.used, len |-> n.val]

Raw(bs, n) == [val |-> SubSeq(bs, 1, n), skip |-> n, len |-> 0]

\* A slip: the length of a string does not count its end.
TextShort(bs) == [Counted(bs, 1) EXCEPT !.len = @ - 1]

Text(bs) == Counted(bs, 1)

Value(type, index, bs) ==
  CASE type = dype_bool -> [val |-> IF bs[1] # 0 THEN 1 ELSE 0, skip |-> 1, len |-> 0]
    [] type = dype_int -> Number(C!NextVarS64(bs))
    [] IsNumber(type, index) -> Number(C!NextVarU64(bs))
    [] type = dype_float -> Raw(bs, 4)
    [] type = dype_double -> Raw(bs, 8)
    [] IsText(type, index) -> Text(bs)
    [] type = dype_bytes -> Counted(bs, 0)
    [] OTHER -> [val |-> <<>>, skip |-> 0, len |-> 0]

IsEof(item) == item.type = dype_f /\ item.index = dype_f_eof

\* The loop of the reader: dyp_next_type, then the dyp_next_ function of the
\* type, while (dyp_get_remainder(dyp) > 0), up to eof.  A reader out of step
\* is followed no further than one item behind the longest packet.
ReadItem ==
  /\ phase = "reading" /\ ~over
  /\ B!Remainder(in) > 0 /\ Len(got) <= MaxItems
  /\ \E bs \in {Ahead(in)} : \E t \in {NextTypdex(bs)} :
       \E rest \in {SubSeq(bs, t.used + 1, Len(bs))} :
       \E v \in {Value(t.type, t.index, rest)} :
         LET x == B!Next_(in, t.used + v.skip)
             refused == v.len > 0 /\ ~B!HasData(x, v.len)
             item == [type |-> t.type, index |-> t.index,
                      val |-> IF refused THEN <<>> ELSE v.val]
         IN  /\ in' = B!NextData(x, v.len)
             /\ got' = Append(got, item)
             /\ over' = IsEof(item)
             /\ fault' = (fault \/ in'.pos > in.cap)
  /\ UNCHANGED <<phase, out, sent>>

ReadEnd ==
  /\ phase = "reading" /\ ~over
  /\ B!Remainder(in) = 0
  /\ over' = TRUE
  /\ UNCHANGED <<phase, out, in, sent, got, fault>>

----------------------------------------------------------------------------
Init ==
  /\ phase = "writing"
  /\ out \in {B!Create(0), B!Refer([i \in 0 .. Memory - 1 |-> 0], Memory, TRUE)}
  /\ in = B!Refer(<<>>, 0, FALSE)
  /\ sent = <<>> /\ got = <<>>
  /\ fault = FALSE /\ over = FALSE

Next == (\E item \in Item : AppendItem(item)) \/ Send \/ ReadItem \/ ReadEnd

\* The writer sends what it has, and the reader's loop goes on.
Spec == Init /\ [][Next]_vars /\ WF_vars(Send) /\ WF_vars(ReadItem \/ ReadEnd)

----------------------------------------------------------------------------
(* Properties                                                              *)

TypeOK ==
  /\ phase \in {"writing", "reading"}
  /\ \A b \in {out, in} : DOMAIN b.data = 0 .. b.cap - 1
  /\ sent \in Seq(Item)
  /\ fault \in BOOLEAN /\ over \in BOOLEAN

\* The items up to the first eof.
UpToEof(items) ==
  {i \in 1 .. Len(items) : \A j \in 1 .. i - 1 : ~IsEof(items[j])}

\* The reader sees the writer's items, with type, index and value, in their
\* order: no item is read with the function of another, whatever lengths
\* and forms of tags were mixed (dyp_append_ and dyp_next_ functions).
ReadsWhatWasSent == phase = "reading" => IsPrefix(got, sent)

\* A reader at its end has seen everything up to eof, none left out because
\* a read before it took a byte too many.
ReadsAll == over => Len(got) = Cardinality(UpToEof(sent))

\* Writer and reader stay inside their blocks and the reader stays before
\* the limit, although only the remainder is looked at between two items.
StaysInside == TypeOK /\ ~fault /\ in.pos <= in.limit

\* The reader comes to its end: each dyp_next_ function takes bytes away.
ReaderEnds == <>over
=============================================================================
