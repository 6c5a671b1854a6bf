----------------------------- MODULE ObjectCopy -----------------------------
(***************************************************************************)
(* What packing and unpacking promise together: a copy of a graph grows    *)
(* object by object and field by field.  An object has one copy, however   *)
(* many refer to it; a field is copied once, as it is in the source, when  *)
(* the objects it refers to have their copies.                             *)
(***************************************************************************)
CONSTANTS
  Obj,
  Slots(_),     \* the fields an object of the source has
  Value(_, _),  \* the value of a field
  Refers(_, _)  \* the objects a field refers to

VARIABLES
  source,
  copy          \* for each object that has one: its fields so far

vars == <<source, copy>>

Nothing == [n \in {} |-> n]

\* f with v for k as well.
With(f, k, v) == [x \in DOMAIN f \cup {k} |-> IF x = k THEN v ELSE f[x]]

Init == copy = Nothing

Meet(o) ==
  /\ o \notin DOMAIN copy
  /\ copy' = With(copy, o, Nothing)

Fill(o, s) ==
  /\ s \notin DOMAIN copy[o]
  /\ Refers(source[o], s) \subseteq DOMAIN copy
  /\ copy' = [copy EXCEPT ![o] = With(@, s, Value(source[o], s))]

Next ==
  /\ \/ \E o \in Obj : Meet(o)
     \/ \E o \in DOMAIN copy : \E s \in Slots(source[o]) : Fill(o, s)
  /\ source' = source

Spec == Init /\ [][Next]_vars
=============================================================================
