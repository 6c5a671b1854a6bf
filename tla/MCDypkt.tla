------------------------------ MODULE MCDypkt ------------------------------
(* Packets of up to MaxItems items of every type, with values and indexes  *)
(* on both sides of the bounds of their codes.                             *)
EXTENDS Dypkt

I(type, index, val) == [type |-> type, index |-> index, val |-> val]

Items == {
  I(dype_f, dype_f_eof, <<>>), I(dype_f, dype_f_version, 127), I(dype_f, dype_f_protocol, <<106>>), I(dype_f, dype_f_proto_version, 16512),
  I(dype_bool, 0, 1), I(dype_bool, 7, 0), I(dype_int, 8, -1), I(dype_int, 255, 64), I(dype_uint, 256, 128),
  I(dype_uint, 8191, 16511), I(dype_float, 8192, <<205, 204, 204, 61>>),
  I(dype_double, 1, <<154, 153, 153, 153, 153, 153, 201, 63>>),
  I(dype_string, 2, <<>>), I(dype_string, 1048575, <<104, 105>>),
  I(dype_bytes, 3, <<>>), I(dype_bytes, 4, <<240, 0>>)}
=============================================================================
