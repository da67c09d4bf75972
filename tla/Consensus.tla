------------------------------ MODULE Consensus ------------------------------
(***************************************************************************)
(* What consensus on a block promises, whatever the algorithm: of all the  *)
(* sets of events that could make the block, at most one is ever chosen.   *)
(***************************************************************************)

CONSTANT Value     (* the sets of events a block can be built from           *)
VARIABLE chosen    (* the sets that some witness has decided on              *)

Init == chosen = {}

Choose(v) == chosen = {} /\ chosen' = {v}

Next == \E v \in Value : Choose(v)

Spec == Init /\ [][Next]_chosen
=============================================================================
