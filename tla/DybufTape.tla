----------------------------- MODULE DybufTape -----------------------------
(* The buffer of dybuf.h implements the tape: block, capacity and growth   *)
(* are hidden, the cursors become the split between past and ahead.        *)
EXTENDS Dybuf

Between(b, from, to) == [i \in 1 .. to - from |-> b.data[from + i - 1]]

T == INSTANCE Tape WITH
       past  <- Between(dyb, 0, dyb.pos),
       ahead <- Between(dyb, dyb.pos, dyb.limit),
       kept  <- dyb.mark

\* Used with care, every operation is a step of the tape: growing a buffer,
\* compacting, flipping or refusing a read never loses, moves or invents a
\* byte between mark, position and limit.
ImplementsTape == T!TapeSpec

\* Each operation is the tape operation of its name, not only some step of
\* the tape.
OperationsMatch ==
  /\ [][DoCompact /\ dyb.pos > 0 => T!Forget]_dyb
  /\ [][Read => T!Move]_dyb
  /\ [][Write => T!Write]_dyb
============================================================================
