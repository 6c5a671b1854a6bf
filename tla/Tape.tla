-------------------------------- MODULE Tape --------------------------------
(***************************************************************************)
(* What a byte buffer promises its user, as the comments of dybuf.h tell   *)
(* it: a tape with the bytes already passed and the bytes still ahead, and *)
(* a mark behind which the position does not go back by accident.  Blocks, *)
(* capacities and growth do not appear.                                    *)
(***************************************************************************)
EXTENDS Integers, SequencesExt

VARIABLES
  past,    \* the bytes before the position
  ahead,   \* the bytes from the position to the limit
  kept     \* how many of the past bytes lie before the mark

tape == <<past, ahead, kept>>

Whole == past \o ahead

Drop(s, n) == SubSeq(s, n + 1, Len(s))

TapeInit == past = <<>> /\ kept = 0

\* Appending overwrites what is ahead, and extends the tape where it ends.
Write ==
  /\ IsPrefix(past, past')
  /\ ahead' = Drop(ahead, Len(past') - Len(past))
  /\ kept' = kept

\* Reading, and moving to a position, change no byte; no move passes the mark.
Move == Whole' = Whole /\ Len(past') >= kept /\ kept' = kept

\* The mark is put at the position.
SetMark == UNCHANGED <<past, ahead>> /\ kept' = Len(past)

\* rewind: all of the tape is ahead again.
Restart == past' = <<>> /\ ahead' = Whole /\ kept' = 0

\* flip: what was written is what is read, and nothing else.
Turn == past' = <<>> /\ ahead' = past /\ kept' = 0

\* compact: what was read is forgotten, what is ahead is all kept.
Forget == past' = <<>> /\ ahead' = ahead /\ kept' = 0

\* The tape is cut at a new end.
Cut ==
  /\ IsPrefix(Whole', Whole)
  /\ Len(past') = IF Len(past) < Len(Whole') THEN Len(past) ELSE Len(Whole')
  /\ kept' = IF kept < Len(Whole') THEN kept ELSE Len(Whole')

\* The tape gets longer, by bytes nobody has appended.
Reveal ==
  /\ IsPrefix(Whole, Whole')
  /\ \/ past' = past /\ kept' = kept
     \/ past' = <<>> /\ kept' = 0

TapeNext ==
  Write \/ Move \/ SetMark \/ Restart \/ Turn \/ Forget \/ Cut \/ Reveal

TapeSpec == TapeInit /\ [][TapeNext]_tape
============================================================================
