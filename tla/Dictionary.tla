----------------------------- MODULE Dictionary -----------------------------
(***************************************************************************)
(* What maps promise: at most one value for each key.  A put or a delete   *)
(* takes effect on one key of one map when it is called; what goes on      *)
(* until it returns may do away with whole maps but changes no other.      *)
(***************************************************************************)
CONSTANTS Name, Key, Value

VARIABLES
  dict,     \* the maps there are, each a set of pairs of a key and a value
  running   \* a call is under way

vars == <<dict, running>>

Init == dict = [m \in {} |-> {}] /\ running = FALSE

Others(m, k) == {e \in dict[m] : e[1] # k}

Make(m) ==
  /\ ~running /\ m \notin DOMAIN dict
  /\ dict' = [n \in DOMAIN dict \cup {m} |-> IF n = m THEN {} ELSE dict[n]]
  /\ UNCHANGED running

Put(m, k, v) ==
  /\ ~running /\ running' = TRUE
  /\ dict' = [dict EXCEPT ![m] = Others(m, k) \cup {<<k, v>>}]

Delete(m, k) ==
  /\ ~running /\ running' = TRUE
  /\ dict' = [dict EXCEPT ![m] = Others(m, k)]

\* A map is given up, by a call or in the course of one.
Discard(m) ==
  /\ dict' = [n \in DOMAIN dict \ {m} |-> dict[n]]
  /\ running' = TRUE

CallOrReturn == running' = ~running /\ UNCHANGED dict

Next ==
  \/ CallOrReturn
  \/ \E m \in Name : Make(m)
  \/ \E m \in DOMAIN dict :
       \/ Discard(m)
       \/ \E k \in Key : Delete(m, k) \/ \E v \in Value : Put(m, k, v)

Spec == Init /\ [][Next]_vars
=============================================================================
