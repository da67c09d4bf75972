---------------------------- MODULE MCContinuity ----------------------------
(***************************************************************************)
(* Four witnesses, of which one may fail, and no forks.                    *)
(***************************************************************************)
EXTENDS Continuity, TLC

CONSTANTS w1, w2, w3, w4,
          Generations,      (* bound: events of w1, w2 and w3                *)
          SlowGenerations   (* bound: events of w4                           *)

MCBranch == {w1, w2, w3, w4}
MCCreator == [b \in MCBranch |-> b]
MCBaseHeight == [b \in MCBranch |-> 0]
MCGenLimit == [b \in MCBranch |-> IF b = w4 THEN SlowGenerations ELSE Generations]

Alike == Permutations({w1, w2, w3})
=============================================================================
