------------------------------ MODULE MCBlocks ------------------------------
(***************************************************************************)
(* A witness with three merge events, a peer with two and one with one.    *)
(*                                                                         *)
(*   g <- m1 <- m2 <- m3     the witness, m1 and m3 with a regular event   *)
(*   g <- n1 <- n2           the peer, with a regular event each; n1 is    *)
(*                           merged by m1, n2 merges m1 and is merged by m3*)
(*   g <- k1                 another peer; k1 is merged by m2              *)
(*                                                                         *)
(* The witness made m2 before it had written block 1.                      *)
(***************************************************************************)
EXTENDS Blocks

CONSTANTS g, m1, m2, m3, n1, n2, k1, rm1, rm3, rn1, rn2

MCEvent == {m1, m2, m3, n1, n2, k1, rm1, rm3, rn1, rn2}
MCMergeEvent == {m1, m2, m3, n1, n2, k1}
MCWitnessEvents == <<m1, m2, m3>>

MCTreeParent ==
  [e \in MCEvent |-> CASE e \in {m1, rm1, n1, rn1, k1} -> g
                       [] e \in {n2, rn2}          -> n1
                       [] e = m2                   -> m1
                       [] e \in {m3, rm3}          -> m2]
MCParent ==
  [e \in MCEvent |-> {MCTreeParent[e]} \cup
                     CASE e = m1 -> {rm1, n1}
                       [] e = m2 -> {k1}
                       [] e = m3 -> {rm3, n2}
                       [] e = n1 -> {rn1}
                       [] e = n2 -> {rn2, m1}
                       [] OTHER  -> {}]
MCBasis == [e \in MCEvent |-> CASE e \in {n2, rn2} -> 1
                                [] e \in {m3, rm3} -> 2
                                [] OTHER           -> 0]
=============================================================================
