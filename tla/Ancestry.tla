------------------------------ MODULE Ancestry ------------------------------
(***************************************************************************)
(* Walking the graph of events from children to parents.                   *)
(***************************************************************************)
EXTENDS Naturals, FiniteSets

(* The events of a set that are reached from members of `from' along        *)
(* parents without leaving the set, in as many generations as it may take.  *)
AncestorsWithin(parent, set, from) ==
  LET reached[k \in Nat] ==
        IF k = 0 THEN from \cap set
        ELSE LET nearer == reached[k - 1]
             IN nearer \cup (set \cap UNION {parent[e] : e \in nearer})
  IN {e \in set : e \in reached[Cardinality(set)]}
=============================================================================
