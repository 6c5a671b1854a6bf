------------------------------ MODULE MCCodes ------------------------------
(* All numbers of the full width of VarCodec, one after the other, and      *)
(* under the same count all types of a tag with the indexes on both sides   *)
(* of every bound.                                                          *)
EXTENDS VarCodec

CONSTANT Indexes     \* a sequence

ASSUME IndexesAssumption == Indexes \in Seq(Nat) \ {<<>>}

X == INSTANCE Typdex

VARIABLE v     \* an unsigned number

Largest == Pow2[Width] - 1

type == v % 256
index == Indexes[1 + ((v \div 256) % Len(Indexes))]

Bounds == <<0, 1, 7, 8, 255, 256, 8191, 8192, 65535, 65536, 1048575, 1048576>>

Init == v = 0
Next == v' = (v + 1) % (Largest + 1)
Spec == Init /\ [][Next]_v

\* What may follow a code in a buffer.
Tails == {<<>>, <<0>>, <<Q - 1, Q - 1>>}

\* The signed number with the bits of v.
Signed == IF v <= Largest \div 2 THEN v ELSE v - (Largest + 1)

\* lt precedes gt at the first byte they do not share; neither is a prefix
\* of the other.
Precedes(lt, gt) ==
  \E i \in 1 .. Len(lt) :
    /\ i <= Len(gt) /\ lt[i] < gt[i]
    /\ \A j \in 1 .. i - 1 : lt[j] = gt[j]

\* What dyb_append_var_u64 writes dyb_next_var_u64 reads, and no byte more,
\* at every seam between two tiers.
RoundTrip ==
  \A tail \in Tails :
    NextVarU64(VarU64(v) \o tail) = [val |-> v, used |-> Len(VarU64(v))]

\* Codes sort like the numbers they stand for, so that no number has two
\* codes and no code begins another one: tiers neither overlap nor leave gaps.
CodesInOrder == v < Largest => Precedes(VarU64(v), VarU64(v + 1))

\* dyb_append_var_s64 and dyb_next_var_s64 agree on every signed number, the
\* most negative included.
SignedRoundTrip ==
  \A tail \in Tails : NextVarS64(VarS64(Signed) \o tail).val = Signed

\* A tag is read as dyb_append_typdex wrote it, whichever of the four forms
\* was chosen, and peek and next agree on its length; only an index of more
\* than 20 bits gets no tag.
TagRoundTrip ==
  LET tag == X!Tag(type, index)
  IN  IF index < Pow2[20]
      THEN \A tail \in {<<>>, <<0>>, <<255>>} :
             X!NextTypdex(tag \o tail) = [type |-> type, index |-> index, used |-> Len(tag)]
      ELSE tag = <<>>
=============================================================================
