---------------------------- MODULE MCOperations ----------------------------
(***************************************************************************)
(* Three operations, the last of which has a basisBlockHeight of its own,  *)
(* and two requests.                                                       *)
(***************************************************************************)
EXTENDS Operations

CONSTANTS op1, op2, op3, r1, r2, p1, p2

MCOperation == {op1, op2, op3}
MCBasis == [op \in MCOperation |-> IF op = op3 THEN 1 ELSE 0]
MCRequest == {r1, r2}
MCSubmits == [r \in MCRequest |-> IF r = r1 THEN {op1, op2} ELSE {op1, op3}]

(* The second request is served by the process of the first or by the one   *)
(* that runs the work session.                                              *)
MCServes == [r \in MCRequest |-> IF r = r1 THEN {p1} ELSE {p1, p2}]
=============================================================================
