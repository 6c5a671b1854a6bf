------------------------------ MODULE MCDybuf ------------------------------
(* Buffers of up to MaxCap bytes with two byte values. *)
EXTENDS DybufTape

Chunks == {<<>>, <<1>>, <<0, 1>>, <<1, 1, 0>>}
============================================================================
