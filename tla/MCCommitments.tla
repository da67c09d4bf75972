---------------------------- MODULE MCCommitments ----------------------------
(* The local peer with a peer A, of which it gets two events, and a peer B  *)
(* of which it gets one; the local peer and A come and go as witnesses.     *)
EXTENDS Commitments, TLC

CONSTANTS l, A, B, a1, a2, b1, none

MCEvent == {a1, a2, b1}
MCByOthers == {a1}
MCPeer == {A, B}
MCCreator == a1 :> A @@ a2 :> A @@ b1 :> B
MCBefore == a1 :> none @@ a2 :> a1 @@ b1 :> none
MCBasis == a1 :> 0 @@ a2 :> 1 @@ b1 :> 1
MCWitnessSets == {{l}, {A}}
=============================================================================
