--------------------------- MODULE AncestryProofs ---------------------------
(***************************************************************************)
(* What walking from children to parents reaches: the least set that holds *)
(* where it starts and, with an event, its parents.                        *)
(***************************************************************************)
EXTENDS Ancestry, Integers, FiniteSetTheorems, WellFoundedInduction, TLAPS

(* Induction over the natural numbers, for sets of them.                    *)
LEMMA AllNaturals ==
  ASSUME NEW S \in SUBSET Nat, 0 \in S, \A n \in S : n + 1 \in S
  PROVE  S = Nat
<1> DEFINE missing == Nat \ S
<1>1. SUFFICES ASSUME missing # {} PROVE FALSE
  OBVIOUS
<1>2. missing \subseteq Nat
  OBVIOUS
<1> HIDE DEF missing
<1>3. PICK n \in missing : \A k \in missing : <<k, n>> \notin OpToRel(<, Nat)
  BY <1>1, <1>2, NatLessThanWellFounded, WFMin
<1>4. n \in Nat /\ n \notin S
  BY DEF missing
<1>5. n - 1 \in Nat /\ n - 1 < n
  BY <1>4
<1>6. n - 1 \in S
  BY <1>3, <1>4, <1>5 DEF missing, OpToRel
<1>7. (n - 1) + 1 \in S
  BY <1>6
<1> QED BY <1>4, <1>7

(* One generation further.                                                  *)
Further(parent, set, X) == X \cup (set \cap UNION {parent[e] : e \in X})

(* The generations that are reached, as a function.                         *)
Generations(parent, set, from, f) ==
  f = [k \in Nat |-> IF k = 0 THEN from \cap set ELSE Further(parent, set, f[k - 1])]

LEMMA GenerationsExist ==
  ASSUME NEW parent, NEW set, NEW from
  PROVE  \E f : Generations(parent, set, from, f)
<1> DEFINE F(X) == Further(parent, set, X)
           G(n) == {g \in [0 .. n -> SUBSET set] :
                      g[0] = from \cap set /\ \A k \in 1 .. n : g[k] = F(g[k - 1])}
           some == {n \in Nat : G(n) # {}}
<1>1. \A X \in SUBSET set : F(X) \in SUBSET set
  BY DEF Further
<1> HIDE DEF F
(* A shorter function is part of a longer one.                              *)
<1>2. ASSUME NEW n \in Nat, NEW m \in Nat, n <= m, NEW g \in G(n), NEW h \in G(m)
      PROVE  \A k \in 0 .. n : g[k] = h[k]
  <2> DEFINE same == {k \in Nat : k <= n => g[k] = h[k]}
  <2>1. 0 \in same
    OBVIOUS
  <2>2. ASSUME NEW k \in same PROVE k + 1 \in same
    <3>1. SUFFICES ASSUME k + 1 <= n PROVE g[k + 1] = h[k + 1]
      OBVIOUS
    <3>2. k + 1 \in 1 .. n /\ k + 1 \in 1 .. m /\ (k + 1) - 1 = k
      BY <1>2, <3>1
    <3>3. g[k + 1] = F(g[k]) /\ h[k + 1] = F(h[k])
      BY <3>2
    <3> QED BY <3>1, <3>3
  <2>3. same = Nat
    <3>1. same \in SUBSET Nat
      OBVIOUS
    <3> HIDE DEF same
    <3> QED BY <2>1, <2>2, <3>1, AllNaturals
  <2>4. \A k \in Nat : k \in same
    BY <2>3
  <2> QED BY <2>4
<1>3. 0 \in some
  <2>1. [k \in 0 .. 0 |-> from \cap set] \in G(0)
    OBVIOUS
  <2> QED BY <2>1
<1>4. ASSUME NEW n \in some PROVE n + 1 \in some
  <2>1. PICK g \in G(n) : TRUE
    BY <1>4
  <2> DEFINE h == [k \in 0 .. n + 1 |-> IF k <= n THEN g[k] ELSE F(g[n])]
  <2>2. h \in [0 .. n + 1 -> SUBSET set] /\ h[0] = from \cap set
    BY <1>1
  <2>3. ASSUME NEW k \in 1 .. n + 1 PROVE h[k] = F(h[k - 1])
    <3>1. CASE k <= n
      <4>1. k \in 1 .. n /\ k - 1 <= n /\ k - 1 \in 0 .. n + 1 /\ k \in 0 .. n + 1
        BY <3>1
      <4>2. g[k] = F(g[k - 1])
        BY <4>1
      <4> QED BY <4>1, <4>2
    <3>2. CASE k = n + 1
      BY <3>2
    <3> QED BY <3>1, <3>2
  <2>4. h \in G(n + 1)
    BY <2>2, <2>3
  <2> HIDE DEF h, G
  <2>5. G(n + 1) # {} /\ n + 1 \in Nat
    BY <2>4
  <2> QED BY <2>5
<1>5. some = Nat
  <2>1. some \in SUBSET Nat
    OBVIOUS
  <2> HIDE DEF some
  <2> QED BY <1>3, <1>4, <2>1, AllNaturals
<1> DEFINE g(n) == CHOOSE x \in G(n) : TRUE
           f == [k \in Nat |-> g(k)[k]]
<1>6. \A n \in Nat : g(n) \in G(n)
  BY <1>5
<1> HIDE DEF g, some
<1>7. ASSUME NEW k \in Nat
      PROVE  f[k] = IF k = 0 THEN from \cap set ELSE F(f[k - 1])
  <2>1. g(k) \in G(k)
    BY <1>6
  <2>2. CASE k = 0
    BY <2>1, <2>2
  <2>3. CASE k # 0
    <3>1. k \in 1 .. k /\ k - 1 \in Nat /\ k - 1 <= k /\ k - 1 \in 0 .. k - 1
      BY <2>3
    <3>2. g(k)[k] = F(g(k)[k - 1])
      BY <2>1, <3>1
    <3>3. g(k - 1) \in G(k - 1)
      BY <1>6, <3>1
    <3> DEFINE j == k - 1
    <3>4. j \in Nat /\ j <= k /\ j \in 0 .. j /\ g(j) \in G(j)
      BY <3>1, <3>3
    <3> HIDE DEF j, G
    <3>5. g(j)[j] = g(k)[j]
      BY <1>2, <2>1, <3>4
    <3> USE DEF j
    <3> QED BY <2>3, <3>1, <3>2, <3>5
  <2> QED BY <2>2, <2>3
<1>8. Generations(parent, set, from, f)
  <2>1. f = [k \in Nat |-> IF k = 0 THEN from \cap set ELSE F(f[k - 1])]
    BY <1>7
  <2> HIDE DEF f
  <2> QED BY <2>1 DEF Generations, F
<1> QED BY <1>8

(* What AncestorsWithin takes of them.                                      *)
LEMMA AncestorsAreGenerations ==
  ASSUME NEW parent, NEW set, NEW from
  PROVE  \E f : /\ Generations(parent, set, from, f)
                /\ AncestorsWithin(parent, set, from) = {e \in set : e \in f[Cardinality(set)]}
<1> DEFINE f == CHOOSE x : Generations(parent, set, from, x)
<1>1. Generations(parent, set, from, f)
  BY GenerationsExist
<1>2. AncestorsWithin(parent, set, from) = {e \in set : e \in f[Cardinality(set)]}
  BY DEF AncestorsWithin, Generations, Further
<1> QED BY <1>1, <1>2
-----------------------------------------------------------------------------
(* The least set: what holds the start and the parents of what it holds,    *)
(* holds all that is reached.                                               *)
LEMMA AncestorsLeast ==
  ASSUME NEW parent, NEW set, IsFiniteSet(set), NEW from, NEW S,
         from \cap set \subseteq S,
         \A e \in S \cap set : parent[e] \cap set \subseteq S
  PROVE  AncestorsWithin(parent, set, from) \subseteq S
<1>1. PICK f : /\ Generations(parent, set, from, f)
               /\ AncestorsWithin(parent, set, from) = {e \in set : e \in f[Cardinality(set)]}
  BY AncestorsAreGenerations
<1> DEFINE within == {k \in Nat : f[k] \subseteq S \cap set}
<1>2. 0 \in within
  BY <1>1 DEF Generations
<1>3. ASSUME NEW k \in within PROVE k + 1 \in within
  <2>1. k \in Nat /\ k + 1 \in Nat /\ k + 1 # 0 /\ (k + 1) - 1 = k
    OBVIOUS
  <2>2. f[k + 1] = Further(parent, set, f[k])
    BY <1>1, <2>1 DEF Generations
  <2>3. Further(parent, set, f[k]) \subseteq S \cap set
    BY DEF Further
  <2> QED BY <2>1, <2>2, <2>3
<1>4. within = Nat
  <2>1. within \in SUBSET Nat
    OBVIOUS
  <2> HIDE DEF within
  <2> QED BY <1>2, <1>3, <2>1, AllNaturals
<1>5. Cardinality(set) \in within
  BY <1>4, FS_CardinalityType
<1> QED BY <1>1, <1>5

(* It holds the start and the parents of what it holds.                     *)
LEMMA AncestorsClosed ==
  ASSUME NEW parent, NEW set, IsFiniteSet(set), NEW from
  PROVE  LET A == AncestorsWithin(parent, set, from)
         IN /\ A \subseteq set
            /\ from \cap set \subseteq A
            /\ \A e \in A : parent[e] \cap set \subseteq A
<1>1. PICK f : /\ Generations(parent, set, from, f)
               /\ AncestorsWithin(parent, set, from) = {e \in set : e \in f[Cardinality(set)]}
  BY AncestorsAreGenerations
<1>2. /\ f[0] = from \cap set
      /\ \A k \in Nat : f[k + 1] = Further(parent, set, f[k])
  <2>1. \A k \in Nat : k + 1 \in Nat /\ k + 1 # 0 /\ (k + 1) - 1 = k
    OBVIOUS
  <2> QED BY <1>1, <2>1 DEF Generations
<1> DEFINE N == Cardinality(set)
<1>3. N \in Nat
  BY FS_CardinalityType
<1> HIDE DEF N
(* Every generation holds the start and nothing outside of the set.         *)
<1> DEFINE within == {k \in Nat : f[k] \in SUBSET set /\ from \cap set \subseteq f[k]}
<1>4. within = Nat
  <2>1. 0 \in within
    BY <1>2
  <2>2. ASSUME NEW k \in within PROVE k + 1 \in within
    <3>1. k \in Nat /\ f[k + 1] = Further(parent, set, f[k])
      BY <1>2
    <3> QED BY <3>1 DEF Further
  <2>3. within \in SUBSET Nat
    OBVIOUS
  <2> HIDE DEF within
  <2> QED BY <2>1, <2>2, <2>3, AllNaturals
(* A generation either adds nothing to the one before, and then none after  *)
(* it does, or it is larger.                                                *)
<1> DEFINE grown == {k \in Nat : f[k + 1] = f[k] \/ Cardinality(f[k]) >= k}
<1>5. grown = Nat
  <2>0. \A k \in Nat : /\ f[k] \in SUBSET set /\ f[k] \subseteq f[k + 1]
                       /\ IsFiniteSet(f[k]) /\ Cardinality(f[k]) \in Nat
    <3>1. \A k \in Nat : f[k] \in SUBSET set /\ f[k] \subseteq f[k + 1]
      BY <1>2, <1>4 DEF Further
    <3> QED BY <3>1, FS_Subset, FS_CardinalityType
  <2>1. 0 \in grown
    BY <2>0
  <2>2. ASSUME NEW k \in grown PROVE k + 1 \in grown
    <3>1. k \in Nat /\ k + 1 \in Nat /\ k + 2 \in Nat /\ (k + 1) + 1 = k + 2
      OBVIOUS
    <3>2. CASE f[k + 1] = f[k]
      <4>1. f[k + 2] = f[k + 1]
        BY <1>2, <3>1, <3>2
      <4> QED BY <3>1, <4>1
    <3>3. CASE f[k + 1] # f[k]
      <4>1. Cardinality(f[k]) >= k
        BY <3>3
      <4>2. f[k] \in SUBSET f[k + 1] /\ IsFiniteSet(f[k + 1])
        BY <2>0, <3>1
      <4>3. /\ Cardinality(f[k]) <= Cardinality(f[k + 1])
            /\ Cardinality(f[k + 1]) = Cardinality(f[k]) => f[k + 1] = f[k]
        BY <4>2, FS_Subset
      <4>4. Cardinality(f[k + 1]) >= k + 1
        BY <2>0, <3>1, <3>3, <4>1, <4>3
      <4> QED BY <3>1, <4>4
    <3> QED BY <3>2, <3>3
  <2>3. grown \in SUBSET Nat
    OBVIOUS
  <2> HIDE DEF grown
  <2> QED BY <2>1, <2>2, <2>3, AllNaturals
<1>6. f[N] \in SUBSET set /\ from \cap set \subseteq f[N] /\ f[N + 1] = Further(parent, set, f[N])
  <2>1. N \in within
    BY <1>3, <1>4
  <2> QED BY <1>2, <1>3, <2>1
<1>7. f[N + 1] = f[N]
  <2>1. N \in grown
    BY <1>3, <1>5
  <2>2. ASSUME Cardinality(f[N]) >= N PROVE f[N + 1] = f[N]
    <3>1. Cardinality(f[N]) <= N /\ Cardinality(f[N]) \in Nat
      BY <1>6, FS_Subset, FS_CardinalityType DEF N
    <3>2. Cardinality(f[N]) = Cardinality(set)
      BY <1>3, <2>2, <3>1 DEF N
    <3>3. f[N] = set
      BY <1>6, <3>2, FS_Subset
    <3> QED BY <1>6, <3>3 DEF Further
  <2> QED BY <2>1, <2>2
<1>8. \A e \in f[N] : parent[e] \cap set \subseteq f[N]
  BY <1>6, <1>7 DEF Further
<1>9. AncestorsWithin(parent, set, from) = f[N]
  BY <1>1, <1>6 DEF N
<1> QED BY <1>6, <1>8, <1>9
=============================================================================
