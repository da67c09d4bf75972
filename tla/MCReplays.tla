------------------------------ MODULE MCReplays ------------------------------
(***************************************************************************)
(* Two peers, P and Q, and two replayers: r, whose f1 and f2 both follow   *)
(* f0, and s, whose g1, g2 and g3 all follow the genesis event.  P merges  *)
(* one side of both forks and Q the other; f3, after f1, and g3 are made   *)
(* when the first block has been written.                                  *)
(***************************************************************************)
EXTENDS Replays

CONSTANTS P, Q, r, s, f0, f1, f2, f3, g1, g2, g3, p1, q1, p2

MCEvent == {f0, f1, f2, f3, g1, g2, g3, p1, q1, p2}
MCCreator == [e \in MCEvent |->
  CASE e \in {p1, p2} -> P [] e = q1 -> Q
    [] e \in {f0, f1, f2, f3} -> r [] OTHER -> s]
MCTree == [e \in MCEvent |->
  CASE e \in {f1, f2} -> f0 [] e = f3 -> f1 [] e = p2 -> p1 [] OTHER -> None]
MCParent == [e \in MCEvent |->
  CASE e \in {f1, f2} -> {f0} [] e = f3 -> {f1}
    [] e = p1 -> {f1, g1} [] e = q1 -> {f2, g2} [] e = p2 -> {p1, q1} [] OTHER -> {}]
MCBasis == [e \in MCEvent |-> IF e \in {f3, g3, p2} THEN 1 ELSE 0]
MCDecides == <<{q1}, {p2}>>
=============================================================================
