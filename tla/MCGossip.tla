------------------------------ MODULE MCGossip ------------------------------
(***************************************************************************)
(*   w1 <- w2 <- w3   a witness; w3, with a regular event, was made when   *)
(*                    block 1 was written and merges s1 and x1             *)
(*   s1               the server, a non-witness, with a regular event      *)
(*   x1               another non-witness's, committed to in block 1        *)
(*   k1               the client's, merged by w2                           *)
(*                                                                         *)
(* w1, w2 and k1 are in block 1.                                           *)
(***************************************************************************)
EXTENDS Gossip

CONSTANTS w, x, w1, w2, w3, rw3, s1, rs1, x1, k1

MCEvent == {w1, w2, w3, rw3, s1, rs1, x1, k1}
MCMergeEvent == {w1, w2, w3, s1, x1, k1}
MCParent == [e \in MCEvent |-> CASE e = w2  -> {w1, k1}
                                 [] e = w3  -> {w2, s1, x1, rw3}
                                 [] e = rw3 -> {w2}
                                 [] e = s1  -> {rs1}
                                 [] OTHER   -> {}]
MCCreator == [e \in MCEvent |-> CASE e \in {s1, rs1} -> Server
                                  [] e = x1 -> x
                                  [] e = k1 -> Client
                                  [] OTHER  -> w]
MCGeneration == [m \in MCMergeEvent |-> CASE m = w2 -> 2 [] m = w3 -> 3 [] OTHER -> 1]
MCBasis == [e \in MCEvent |-> IF e \in {w3, rw3} THEN 1 ELSE 0]
MCRequired == [e \in MCEvent |-> CASE e \in {s1, rs1}  -> -1
                                   [] e \in {w3, rw3, x1} -> 1
                                   [] OTHER           -> 0]
MCBlockOf == [e \in MCEvent |-> IF e \in {w1, w2, k1} THEN 1 ELSE 2]
=============================================================================
