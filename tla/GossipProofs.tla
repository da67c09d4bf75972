---------------------------- MODULE GossipProofs ----------------------------
(***************************************************************************)
(* Theorems about gossip, for any events, peers, answers and bounds.       *)
(***************************************************************************)
EXTENDS Gossip, AncestryProofs

(* The parts of the inductive invariant: what holds whatever happens.       *)

(* Events have the height of their block or none, and get it after their    *)
(* parents; those of the blocks that are there have it.                     *)
HeightsGiven ==
  \A e \in Event :
    /\ heightAt[e] # -1 => heightAt[e] = BlockOf[e] /\ \A p \in Parent[e] : heightAt[p] # -1
    /\ BlockOf[e] <= serverHeight => heightAt[e] # -1

(* The client has what it made and what is in its blocks.                   *)
ClientKnows ==
  \A e \in Event : Creator[e] = Client \/ BlockOf[e] <= clientHeight => e \in known

(* It withholds events of the server's alone.                               *)
WithheldOfServer ==
  \A e \in withheld : \E m \in LocalNonWitness : e \in {m} \cup Regular(m)

(* A request tells what the client still has; an answer what is stored.     *)
RequestFits ==
  /\ request.pc # "idle" => /\ request.basis = clientHeight
                            /\ request.from = cursor.localEventNumber
                            /\ request.heads \subseteq known
                            /\ withheld = {}
  /\ request.pc # "answer" => request.events = {}
  /\ request.events \subseteq Stored

(* What holds as long as no number is given twice: numbers differ, grow     *)
(* from parents to children and lie below the next one.                     *)
NumbersGrow ==
  \A e \in Stored : /\ number[e] < nextNumber
                    /\ \A x \in Stored : number[x] = number[e] => x = e
                    /\ \A p \in Parent[e] : p \in Stored /\ number[p] < number[e]

(* Between a regular event and the merge event that merges it are only      *)
(* others that it merges.                                                   *)
MergedTogether ==
  \A m \in MergeEvent : \A e \in Stored \cap Regular(m) : \A x \in Stored :
    number[x] > number[e] => x \in Regular(m) \/ (m \in Stored /\ number[m] <= number[x])

(* The client knows the parents of what it knows.                           *)
ClosedUnderParents ==
  /\ \A e \in known : Parent[e] \subseteq known
  /\ \A e \in withheld : Parent[e] \subseteq known \cup withheld

(* A cursor is at most one past a stored event, so not past the next one.   *)
Reached(n) == n = 0 \/ \E e \in Stored : n <= number[e] + 1
CursorsReached ==
  /\ Reached(cursor.localEventNumber)
  /\ request.pc = "answer" => Reached(request.cursor.localEventNumber)

(* What the cursor of an answer passes is known or comes with the answer.   *)
AnswerCovers ==
  request.pc = "answer" =>
    \A e \in Stored : number[e] < request.cursor.localEventNumber =>
      e \in known \cup request.events

(* A batch that the client can take, with what it knows.                    *)
GoodBatch(es, basis) ==
  \A e \in es :
    LET later == {x \in es : number[x] > number[e]} IN
    /\ Parent[e] \subseteq known \cup es
    /\ Basis[e] <= basis /\ Required[e] <= basis
    /\ e \in LocalNonWitness => later = {}
    /\ e \notin MergeEvent =>
         /\ later # {}
         /\ \A x \in later : (\A y \in later : number[x] <= number[y]) => Creator[x] = Creator[e]

Steady ==
  /\ NumbersGrow /\ MergedTogether /\ ClosedUnderParents
  /\ CursorsReached /\ AnswerCovers
  /\ GoodBatch(request.events, request.basis)
  /\ Passed \subseteq known

IInv ==
  /\ TypeOK /\ HeightsGiven /\ ClientKnows /\ WithheldOfServer /\ RequestFits
  /\ ~rewound => Steady
-----------------------------------------------------------------------------
(* Least, greatest and first of what has numbers.                           *)

LEMMA Least ==
  ASSUME NEW S, S # {}, NEW f, \A e \in S : f[e] \in Nat
  PROVE  \E e \in S : \A x \in S : f[e] <= f[x]
<1> DEFINE values == {f[e] : e \in S}
<1>1. values \subseteq Nat /\ values # {} /\ \A x \in S : f[x] \in values
  OBVIOUS
<1>2. \A v \in values : \E e \in S : v = f[e]
  OBVIOUS
<1> HIDE DEF values
<1>3. PICK n \in values : \A k \in values : <<k, n>> \notin OpToRel(<, Nat)
  BY <1>1, NatLessThanWellFounded, WFMin
<1>4. PICK e \in S : n = f[e]
  BY <1>2
<1>5. \A k \in values : k \in Nat /\ n \in Nat /\ ~(k < n)
  BY <1>1, <1>3 DEF OpToRel
<1>6. \A x \in S : f[e] <= f[x]
  BY <1>1, <1>4, <1>5
<1> QED BY <1>6

LEMMA Greatest ==
  ASSUME NEW S, IsFiniteSet(S), S # {}, NEW f, \A e \in S : f[e] \in Nat
  PROVE  \E e \in S : \A x \in S : f[x] <= f[e]
<1> DEFINE above(e) == {x \in S : f[x] > f[e]}
           g == [e \in S |-> Cardinality(above(e))]
<1>1. \A e \in S : above(e) \in SUBSET S
  OBVIOUS
<1>2. \A e, x \in S : f[x] > f[e] =>
        above(x) \in SUBSET above(e) /\ x \in above(e) /\ x \notin above(x)
  OBVIOUS
<1> HIDE DEF above
<1>3. \A e \in S : IsFiniteSet(above(e)) /\ g[e] \in Nat
  BY <1>1, FS_Subset, FS_CardinalityType
<1>4. \A e, x \in S : f[x] > f[e] => g[x] < g[e]
  <2> SUFFICES ASSUME NEW e \in S, NEW x \in S, f[x] > f[e] PROVE g[x] < g[e]
    OBVIOUS
  <2>1. above(x) # above(e) /\ above(x) \in SUBSET above(e) /\ IsFiniteSet(above(e))
    BY <1>2, <1>3
  <2>2. /\ Cardinality(above(x)) <= Cardinality(above(e))
        /\ Cardinality(above(x)) # Cardinality(above(e))
    BY <2>1, FS_Subset
  <2>3. g[x] \in Nat /\ g[e] \in Nat
    BY <1>3
  <2>4. g[x] = Cardinality(above(x)) /\ g[e] = Cardinality(above(e))
    OBVIOUS
  <2> HIDE DEF g
  <2> QED BY <2>2, <2>3, <2>4
<1> HIDE DEF g
<1>5. PICK e \in S : \A x \in S : g[e] <= g[x]
  BY <1>3, Least
<1>6. \A x \in S : ~(f[x] > f[e])
  BY <1>3, <1>4, <1>5
<1>7. \A x \in S : f[x] <= f[e]
  BY <1>6
<1> QED BY <1>7

(* The k lowest of a set.                                                   *)
Low(f, k, S) == {e \in S : Cardinality({x \in S : f[x] < f[e]}) < k}

LEMMA LowIs ==
  ASSUME NEW S, IsFiniteSet(S), NEW f, \A e \in S : f[e] \in Nat, NEW k \in Nat \ {0}
  PROVE  /\ Low(f, k, S) \subseteq S
         /\ S # {} => Low(f, k, S) # {}
         /\ \A e \in Low(f, k, S) : \A x \in S : f[x] <= f[e] => x \in Low(f, k, S)
         /\ k = 1 => \A e \in Low(f, k, S) : \A x \in S : f[e] <= f[x]
<1> DEFINE below(e) == {x \in S : f[x] < f[e]}
<1>1. \A e \in S : e \in Low(f, k, S) <=> Cardinality(below(e)) < k
  BY DEF Low
<1>2. Low(f, k, S) \subseteq S
  BY DEF Low
<1>3. \A e, x \in S : (f[x] <= f[e] => below(x) \in SUBSET below(e)) /\ (f[x] < f[e] => x \in below(e))
  OBVIOUS
<1>4. \A e \in S : below(e) \in SUBSET S /\ ((\A x \in S : f[e] <= f[x]) => below(e) = {})
  OBVIOUS
<1> HIDE DEF below
<1>5. \A e \in S : IsFiniteSet(below(e)) /\ Cardinality(below(e)) \in Nat
  BY <1>4, FS_Subset, FS_CardinalityType
<1>6. S # {} => Low(f, k, S) # {}
  <2>1. SUFFICES ASSUME S # {} PROVE \E e \in S : e \in Low(f, k, S)
    BY <1>2
  <2>2. PICK e \in S : \A x \in S : f[e] <= f[x]
    BY <2>1, Least
  <2>3. Cardinality(below(e)) = 0
    BY <1>4, <2>2, FS_EmptySet
  <2> QED BY <1>1, <2>3
<1>7. ASSUME NEW e \in Low(f, k, S), NEW x \in S, f[x] <= f[e] PROVE x \in Low(f, k, S)
  <2>1. e \in S /\ below(x) \in SUBSET below(e) /\ IsFiniteSet(below(e))
    BY <1>2, <1>3, <1>5, <1>7
  <2>2. Cardinality(below(x)) <= Cardinality(below(e))
    BY <2>1, FS_Subset
  <2>3. Cardinality(below(e)) < k
    BY <1>1, <2>1
  <2> QED BY <1>1, <1>5, <2>1, <2>2, <2>3
<1>8. ASSUME k = 1, NEW e \in Low(f, k, S), NEW x \in S PROVE f[e] <= f[x]
  <2>1. e \in S /\ Cardinality(below(e)) = 0
    BY <1>1, <1>2, <1>5, <1>8
  <2>2. below(e) = {}
    BY <1>5, <2>1, FS_EmptySet
  <2>3. ~(f[x] < f[e])
    BY <1>3, <2>1, <2>2
  <2>4. f[x] \in Nat /\ f[e] \in Nat
    BY <2>1
  <2> QED BY <2>3, <2>4
<1> QED BY <1>2, <1>6, <1>7, <1>8

LEMMA MaxIs ==
  ASSUME NEW S, NEW x \in S, \A y \in S : x >= y
  PROVE  Max(S) \in S /\ \A y \in S : Max(S) >= y
BY DEF Max
-----------------------------------------------------------------------------
(* What the constants say.                                                  *)

LEMMA HeightMax ==
  ASSUME NEW a \in Nat, NEW b \in Nat \cup {-1}
  PROVE  Max({a, b}) \in Nat
<1>1. CASE a >= b
  BY <1>1, MaxIs
<1>2. CASE ~(a >= b)
  <2>1. b \in Nat /\ b >= a /\ b >= b
    BY <1>2
  <2> QED BY <2>1, MaxIs
<1> QED BY <1>1, <1>2

(* Every regular event is merged by one merge event.                        *)
LEMMA MergedByOne ==
  ASSUME NEW e \in Event \ MergeEvent
  PROVE  \E m \in MergeEvent : e \in Regular(m) /\ \A x \in MergeEvent : e \in Parent[x] => x = m
<1> DEFINE merging == {m \in MergeEvent : e \in Parent[m]}
<1>1. merging \in SUBSET Event /\ IsFiniteSet(Event) /\ Cardinality(merging) = 1
  BY GossipAssumption
<1>2. \A m \in MergeEvent : m \in merging <=> e \in Parent[m]
  OBVIOUS
<1>3. merging \subseteq MergeEvent
  OBVIOUS
<1> HIDE DEF merging
<1>4. IsFiniteSet(merging)
  BY <1>1, FS_Subset
<1>5. PICK m : merging = {m}
  BY <1>1, <1>4, FS_Singleton
<1>6. m \in MergeEvent /\ e \in Parent[m] /\ \A x \in MergeEvent : e \in Parent[x] => x = m
  BY <1>2, <1>3, <1>5
<1> QED BY <1>6 DEF Regular

(* Who knows an event of a peer, and all parents of what it knows, knows    *)
(* the peer's events of lower generations.                                  *)
LEMMA GenerationsKnown ==
  ASSUME NEW K, \A e \in K : Parent[e] \subseteq K,
         NEW h \in K \cap MergeEvent, NEW m \in MergeEvent,
         Creator[m] = Creator[h], Generation[m] <= Generation[h]
  PROVE  m \in K
<1> DEFINE back == {n \in Nat : n < Generation[h] =>
                      \E x \in K \cap MergeEvent :
                        Creator[x] = Creator[h] /\ Generation[x] = Generation[h] - n}
<1>1. \A x \in MergeEvent : Generation[x] \in Nat /\ Generation[x] >= 1
  BY GossipAssumption
<1>2. 0 \in back
  BY <1>1
<1>3. ASSUME NEW n \in back PROVE n + 1 \in back
  <2>1. SUFFICES ASSUME n + 1 < Generation[h]
                 PROVE  \E x \in K \cap MergeEvent :
                          Creator[x] = Creator[h] /\ Generation[x] = Generation[h] - (n + 1)
    OBVIOUS
  <2>2. PICK x \in K \cap MergeEvent : Creator[x] = Creator[h] /\ Generation[x] = Generation[h] - n
    BY <1>1, <2>1
  <2>3. Generation[x] # 1
    BY <1>1, <2>1, <2>2
  <2>4. PICK p \in Parent[x] \cap MergeEvent :
                Creator[p] = Creator[x] /\ Generation[p] = Generation[x] - 1
    BY <2>3, Lineage
  <2>5. p \in K
    BY <2>2, <2>4
  <2>6. Generation[p] = Generation[h] - (n + 1)
    BY <1>1, <2>2, <2>4
  <2> QED BY <2>2, <2>4, <2>5, <2>6
<1>4. back \subseteq Nat
  OBVIOUS
<1>5. \A n \in back : n < Generation[h] =>
        \E x \in K \cap MergeEvent :
          Creator[x] = Creator[h] /\ Generation[x] = Generation[h] - n
  OBVIOUS
<1> HIDE DEF back
<1>6. back = Nat
  BY <1>2, <1>3, <1>4, AllNaturals
<1>7. Generation[h] - Generation[m] \in Nat /\ Generation[h] - Generation[m] < Generation[h]
  BY <1>1
<1>8. PICK x \in K \cap MergeEvent :
             Creator[x] = Creator[h] /\ Generation[x] = Generation[h] - (Generation[h] - Generation[m])
  BY <1>5, <1>6, <1>7
<1>9. Generation[x] = Generation[m]
  BY <1>1, <1>8
<1>10. x = m
  BY <1>8, <1>9, Lineage
<1> QED BY <1>8, <1>10
-----------------------------------------------------------------------------
(* What is stored, and what of it an answer is made from.                   *)

LEMMA StoredNumbered ==
  ASSUME TypeOK
  PROVE  /\ Stored \subseteq Event /\ IsFiniteSet(Stored)
         /\ \A e \in Event : e \in Stored <=> number[e] # -1
         /\ \A e \in Stored : number[e] \in Nat
<1>1. Stored \in SUBSET Event /\ IsFiniteSet(Event)
  BY GossipAssumption DEF Stored
<1>2. IsFiniteSet(Stored)
  BY <1>1, FS_Subset
<1>3. \A e \in Event : number[e] \in Nat \cup {-1}
  BY DEF TypeOK
<1>4. \A e \in Event : e \in Stored <=> number[e] # -1
  BY DEF Stored
<1> QED BY <1>1, <1>2, <1>3, <1>4

(* Events that the client may lack.                                         *)
Open ==
  {e \in Stored : /\ heightAt[e] = -1 \/ heightAt[e] >= request.basis + 1
                  /\ number[e] >= request.from}

LEMMA Slices ==
  ASSUME TypeOK
  PROVE  /\ Partition \subseteq Records /\ Records \subseteq Open /\ Open \subseteq Stored
         /\ Open # {} => Records # {}
         /\ \A e \in Records : \A x \in Open : number[x] <= number[e] => x \in Records
         /\ \A e \in Partition : \A x \in Open : number[x] <= number[e] => x \in Partition
<1>1. Open \in SUBSET Stored
  BY DEF Open
<1>2. IsFiniteSet(Open) /\ \A e \in Open : number[e] \in Nat
  BY <1>1, StoredNumbered, FS_Subset
<1>3. MaxEvents + 1 \in Nat \ {0} /\ MaxEvents \in Nat \ {0}
  BY GossipAssumption
<1>4. Records = Low(number, MaxEvents + 1, Open)
  BY DEF Records, Open, FirstOf, Low
<1>5. /\ Records \subseteq Open
      /\ Open # {} => Records # {}
      /\ \A e \in Records : \A x \in Open : number[x] <= number[e] => x \in Records
  BY <1>2, <1>3, <1>4, LowIs
<1>6. Partition = Low(number, MaxEvents, Records)
  BY DEF Partition, FirstOf, Low
<1>7. IsFiniteSet(Records) /\ \A e \in Records : number[e] \in Nat
  BY <1>2, <1>5, FS_Subset
<1>8. /\ Partition \subseteq Records
      /\ \A e \in Partition : \A x \in Records : number[x] <= number[e] => x \in Partition
  BY <1>3, <1>6, <1>7, LowIs
<1> QED BY <1>1, <1>5, <1>8

(* What an answer leaves out because of its height or the cursor is known   *)
(* to the client.                                                           *)
LEMMA NotOpen ==
  ASSUME IInv, Steady, request.pc # "idle", NEW e \in Stored, e \notin Open
  PROVE  e \in known
<1>1. /\ e \in Event /\ number[e] \in Nat /\ heightAt[e] \in Nat \cup {-1}
      /\ request.basis = clientHeight /\ clientHeight \in Nat
      /\ request.from = cursor.localEventNumber /\ request.from \in Nat
  BY StoredNumbered DEF IInv, TypeOK, RequestFits
<1>2. CASE number[e] < request.from
  BY <1>1, <1>2 DEF Steady, Passed
<1>3. CASE heightAt[e] # -1 /\ ~(heightAt[e] >= request.basis + 1)
  <2>1. heightAt[e] = BlockOf[e] /\ heightAt[e] <= clientHeight
    BY <1>1, <1>3 DEF IInv, HeightsGiven
  <2> QED BY <1>1, <2>1 DEF IInv, ClientKnows
<1> QED BY <1>1, <1>2, <1>3 DEF Open
(* A merge event that an answer leaves out is known to the client: it is    *)
(* its own, or below a head, or an ancestor of one that is known.           *)
LEMMA SkippedKnown ==
  ASSUME IInv, Steady, request.pc # "idle", NEW m \in Skipped
  PROVE  m \in known
<1>1. m \in Partition \cap MergeEvent
  BY DEF Skipped
<1>2. m \in Event
  BY <1>1, GossipAssumption
<1>3. CASE Creator[m] = Client
  BY <1>2, <1>3 DEF IInv, ClientKnows
<1>4. CASE Creator[m] # Client
  <2>1. PICK h \in request.heads : Creator[h] = Creator[m] /\ Generation[m] <= Generation[h]
    BY <1>4 DEF Skipped
  <2>2. h \in known \cap MergeEvent
    BY DEF IInv, TypeOK, RequestFits
  <2>3. \A e \in known : Parent[e] \subseteq known
    BY DEF Steady, ClosedUnderParents
  <2> QED BY <1>1, <2>1, <2>2, <2>3, GenerationsKnown
<1> QED BY <1>3, <1>4

LEMMA MergesTold ==
  ASSUME IInv, Steady, request.pc # "idle", NEW e \in Partition \cap MergeEvent, e \notin NewMergeEvents
  PROVE  e \in known
<1> DEFINE merges == Partition \cap MergeEvent
           childless == {m \in merges : \A x \in merges : m \notin Parent[x]}
           kept == merges \ Skipped
<1>0. TypeOK /\ NumbersGrow /\ \A x \in known : Parent[x] \subseteq known
  BY DEF IInv, Steady, ClosedUnderParents
<1>1. merges \in SUBSET Stored /\ IsFiniteSet(merges) /\ \A m \in merges : number[m] \in Nat
  <2>1. merges \in SUBSET Stored
    BY <1>0, Slices
  <2> QED BY <1>0, <2>1, StoredNumbered, FS_Subset
<1>2. kept \in SUBSET merges /\ IsFiniteSet(kept)
  BY <1>1, FS_Subset
<1>3. NewMergeEvents = AncestorsWithin(Parent, kept, childless)
  BY DEF NewMergeEvents
<1>4. \A m \in merges : m \notin childless => \E x \in merges : m \in Parent[x]
  OBVIOUS
<1>5. \A m \in merges : m \notin kept => m \in known
  BY <1>0, SkippedKnown
<1>6. e \in merges
  OBVIOUS
<1> HIDE DEF childless, kept, merges
<1>7. /\ childless \cap kept \subseteq NewMergeEvents
      /\ \A m \in NewMergeEvents : Parent[m] \cap kept \subseteq NewMergeEvents
  BY <1>2, <1>3, AncestorsClosed
<1> DEFINE lacking == {m \in merges : m \notin NewMergeEvents /\ m \notin known}
<1>8. SUFFICES ASSUME lacking # {} PROVE FALSE
  BY <1>6
<1>9. lacking \in SUBSET merges /\ \A m \in merges : m \in lacking <=> m \notin NewMergeEvents /\ m \notin known
  OBVIOUS
<1> HIDE DEF lacking
<1>10. IsFiniteSet(lacking) /\ \A m \in lacking : number[m] \in Nat
  BY <1>1, <1>9, FS_Subset
<1>11. PICK m \in lacking : \A x \in lacking : number[x] <= number[m]
  BY <1>8, <1>10, Greatest
<1>12. m \in kept /\ m \notin childless /\ m \notin NewMergeEvents /\ m \notin known
  BY <1>5, <1>7, <1>9
<1>13. PICK x \in merges : m \in Parent[x]
  BY <1>4, <1>9, <1>12
<1>14. number[m] < number[x] /\ number[m] \in Nat /\ number[x] \in Nat
  BY <1>0, <1>1, <1>9, <1>13 DEF NumbersGrow
<1>15. x \notin lacking
  BY <1>11, <1>14
<1>16. CASE x \in NewMergeEvents
  BY <1>7, <1>12, <1>13, <1>16
<1>17. CASE x \in known
  BY <1>0, <1>12, <1>13, <1>17
<1> QED BY <1>9, <1>15, <1>16, <1>17

(* So is any event that the filter leaves out: a regular event is left out  *)
(* with the merge event that comes next, which is the one that merges it    *)
(* unless the client has that one already.                                  *)
LEMMA LeftOut ==
  ASSUME IInv, Steady, request.pc # "idle", NEW e \in Partition, e \notin Filtered
  PROVE  e \in known
<1>0. TypeOK /\ NumbersGrow /\ MergedTogether /\ \A x \in known : Parent[x] \subseteq known
  BY DEF IInv, Steady, ClosedUnderParents
<1>1. CASE e \in MergeEvent
  BY <1>1, MergesTold DEF Filtered
<1>2. CASE e \notin MergeEvent
  <2> DEFINE later == {m \in Partition \cap MergeEvent : number[m] > number[e]}
  <2>1. e \in Stored /\ e \in Event /\ later \in SUBSET (Partition \cap MergeEvent)
    BY <1>0, Slices, StoredNumbered
  <2>2. \A m \in Partition \cap MergeEvent : m \in later <=> number[m] > number[e]
    OBVIOUS
  <2>3. ~(FirstOf(1, later) \subseteq NewMergeEvents)
    BY <1>2 DEF Filtered
  <2> HIDE DEF later
  <2>4. later \in SUBSET Stored /\ IsFiniteSet(later) /\ \A m \in later : number[m] \in Nat
    <3>1. later \in SUBSET Stored
      BY <1>0, <2>1, Slices
    <3> QED BY <1>0, <3>1, StoredNumbered, FS_Subset
  <2>5. FirstOf(1, later) = Low(number, 1, later)
    BY DEF FirstOf, Low
  <2>6. PICK x \in FirstOf(1, later) : x \notin NewMergeEvents
    BY <2>3
  <2>7. x \in later /\ \A m \in later : number[x] <= number[m]
    BY <2>4, <2>5, LowIs
  <2>8. x \in Partition \cap MergeEvent /\ number[x] > number[e] /\ x \in Stored
    BY <2>1, <2>2, <2>4, <2>7
  <2>9. x \in known
    BY <2>6, <2>8, MergesTold
  <2>10. PICK m \in MergeEvent : e \in Regular(m)
    BY <1>2, <2>1, MergedByOne
  <2>11. m \in Stored /\ number[m] <= number[x]
    BY <1>0, <2>1, <2>8, <2>10 DEF MergedTogether, Regular
  <2>12. number[e] < number[m] /\ e \in Parent[m]
    BY <1>0, <2>10, <2>11 DEF NumbersGrow, Regular
  <2>13. CASE m \notin Open
    BY <1>0, <2>11, <2>12, <2>13, NotOpen
  <2>14. CASE m \in Open
    <3>1. m \in Partition
      BY <1>0, <2>8, <2>11, <2>14, Slices
    <3>2. m \in later
      BY <2>2, <2>12, <3>1, <1>0, <2>1, <2>11, StoredNumbered
    <3>3. number[m] = number[x]
      BY <2>4, <2>7, <2>11, <3>2
    <3>4. m = x
      BY <1>0, <2>8, <2>11, <3>3 DEF NumbersGrow
    <3> QED BY <1>0, <2>9, <2>12, <3>4
  <2> QED BY <2>13, <2>14
<1> QED BY <1>1, <1>2
LEMMA FilteredFrom == Filtered \subseteq Partition
<1>1. NewMergeEvents \subseteq Partition
  BY DEF NewMergeEvents, AncestorsWithin
<1> QED BY <1>1 DEF Filtered

(* What is sent is a beginning of what the filter leaves, acceptable, and   *)
(* ends in a merge event.                                                   *)
LEMMA SendableIs ==
  ASSUME TypeOK
  PROVE  /\ Sendable \subseteq Filtered /\ Filtered \subseteq Partition /\ Filtered \subseteq Stored
         /\ \A e \in Sendable :
              /\ Acceptable(e)
              /\ \A x \in Filtered : number[x] < number[e] => x \in Sendable /\ x \notin LocalNonWitness
              /\ \E m \in Sendable \cap MergeEvent : number[e] <= number[m]
<1> DEFINE prefix == {e \in Filtered : \A x \in Filtered :
                        /\ number[x] <= number[e] => Acceptable(x)
                        /\ number[x] < number[e] => x \notin LocalNonWitness}
<1>1. Sendable = {e \in prefix : \E m \in prefix \cap MergeEvent : number[e] <= number[m]}
  BY DEF Sendable
<1>2. Filtered \subseteq Partition /\ Filtered \subseteq Stored
  BY FilteredFrom, Slices
<1>3. \A e \in Filtered : number[e] \in Nat
  BY <1>2, StoredNumbered
<1>4. \A e \in prefix :
        /\ e \in Filtered /\ Acceptable(e)
        /\ \A x \in Filtered : number[x] < number[e] => x \in prefix /\ x \notin LocalNonWitness
  <2> SUFFICES ASSUME NEW e \in prefix
               PROVE  /\ e \in Filtered /\ Acceptable(e)
                      /\ \A x \in Filtered : number[x] < number[e] => x \in prefix /\ x \notin LocalNonWitness
    OBVIOUS
  <2>1. e \in Filtered /\ Acceptable(e)
    BY <1>3
  <2>2. ASSUME NEW x \in Filtered, number[x] < number[e]
        PROVE  x \in prefix /\ x \notin LocalNonWitness
    <3>1. \A y \in Filtered : (number[y] <= number[x] => number[y] <= number[e])
                              /\ (number[y] < number[x] => number[y] < number[e])
      BY <1>3, <2>1, <2>2
    <3> QED BY <2>2, <3>1
  <2> QED BY <2>1, <2>2
<1> HIDE DEF prefix
<1>5. \A m \in prefix \cap MergeEvent : m \in Sendable
  BY <1>1, <1>3, <1>4
<1>6. ASSUME NEW e \in Sendable
      PROVE  /\ e \in Filtered /\ Acceptable(e)
             /\ \A x \in Filtered : number[x] < number[e] => x \in Sendable /\ x \notin LocalNonWitness
             /\ \E m \in Sendable \cap MergeEvent : number[e] <= number[m]
  <2>1. PICK m \in prefix \cap MergeEvent : number[e] <= number[m]
    BY <1>1
  <2>2. e \in prefix
    BY <1>1
  <2>3. \A x \in Filtered : number[x] < number[e] => number[x] <= number[m]
    BY <1>3, <1>4, <2>1, <2>2
  <2> QED BY <1>1, <1>4, <1>5, <2>1, <2>2, <2>3
<1> QED BY <1>2, <1>6

(* The next cursor passes no event that fits and was not sent.              *)
LEMMA CursorIs ==
  ASSUME TypeOK
  PROVE  /\ NextCursor \in Cursors
         /\ Records = {} => NextCursor.localEventNumber = request.from
         /\ Records # {} => \E r \in Records : NextCursor.localEventNumber <= number[r] + 1
         /\ \A u \in (Filtered \cup (Records \ Partition)) \ Sendable :
              NextCursor.localEventNumber <= number[u]
<1> DEFINE unsent == (Filtered \cup (Records \ Partition)) \ Sendable
<1>1. /\ Records \in SUBSET Stored /\ unsent \in SUBSET Records
      /\ Filtered \in SUBSET Records
  BY SendableIs, Slices
<1>2. NextCursor = IF Records = {} THEN SameCursor
                   ELSE IF unsent # {} THEN CursorAt(CHOOSE e \in FirstOf(1, unsent) : TRUE)
                   ELSE IF Filtered # {} THEN CursorAfter(LastOf(Filtered))
                   ELSE CursorAfter(LastOf(Records))
  BY DEF NextCursor
<1> HIDE DEF unsent
<1>3. /\ IsFiniteSet(Records) /\ IsFiniteSet(unsent) /\ IsFiniteSet(Filtered)
      /\ \A e \in Records : number[e] \in Nat /\ e \in Event
  BY <1>1, StoredNumbered, FS_Subset
<1>4. /\ request.basis \in Nat /\ request.from \in Nat
      /\ SameCursor \in Cursors /\ SameCursor.localEventNumber = request.from
  BY DEF SameCursor, Cursors, TypeOK
<1>5. \A e \in Records :
        /\ CursorAt(e) \in Cursors /\ CursorAt(e).localEventNumber = number[e]
        /\ CursorAfter(e) \in Cursors /\ CursorAfter(e).localEventNumber = number[e] + 1
  <2>1. \A e \in Records : Max({Basis[e], Required[e]}) \in Nat
    BY <1>3, HeightMax, GossipAssumption
  <2> QED BY <1>3, <1>4, <2>1 DEF CursorAt, CursorAfter, Cursors
<1>6. ASSUME NEW es \in SUBSET Records, es # {} PROVE LastOf(es) \in es
  <2>1. IsFiniteSet(es)
    BY <1>3, FS_Subset
  <2>2. \E e \in es : \A x \in es : number[x] <= number[e]
    BY <1>3, <1>6, <2>1, Greatest
  <2> QED BY <2>2 DEF LastOf
<1>7. CASE Records = {}
  <2>1. NextCursor = SameCursor /\ unsent = {}
    BY <1>1, <1>2, <1>7
  <2> QED BY <1>4, <1>7, <2>1 DEF unsent
<1>8. CASE Records # {} /\ unsent # {}
  <2> DEFINE u == CHOOSE e \in FirstOf(1, unsent) : TRUE
  <2>1. FirstOf(1, unsent) = Low(number, 1, unsent)
    BY DEF FirstOf, Low
  <2>2. /\ FirstOf(1, unsent) # {} /\ FirstOf(1, unsent) \subseteq unsent
        /\ \A e \in FirstOf(1, unsent) : \A x \in unsent : number[e] <= number[x]
    BY <1>1, <1>3, <1>8, <2>1, LowIs
  <2>3. u \in FirstOf(1, unsent)
    BY <2>2
  <2>4. NextCursor = CursorAt(u)
    BY <1>2, <1>8
  <2> HIDE DEF u
  <2>5. u \in Records /\ \A x \in unsent : number[u] <= number[x]
    BY <1>1, <2>2, <2>3
  <2>6. NextCursor \in Cursors /\ NextCursor.localEventNumber = number[u] /\ number[u] \in Nat
    BY <1>3, <1>5, <2>4, <2>5
  <2>7. NextCursor.localEventNumber <= number[u] + 1
    BY <2>6
  <2>8. \A x \in unsent : NextCursor.localEventNumber <= number[x]
    BY <2>5, <2>6
  <2> QED BY <1>8, <2>5, <2>6, <2>7, <2>8 DEF unsent
<1>9. CASE Records # {} /\ unsent = {}
  <2>1. PICK r \in Records : NextCursor = CursorAfter(r)
    <3>1. CASE Filtered # {}
      BY <1>1, <1>2, <1>6, <1>9, <3>1
    <3>2. CASE Filtered = {}
      BY <1>2, <1>6, <1>9, <3>2
    <3> QED BY <3>1, <3>2
  <2>2. NextCursor \in Cursors /\ NextCursor.localEventNumber <= number[r] + 1
    BY <1>3, <1>5, <2>1
  <2> QED BY <1>9, <2>2 DEF unsent
<1> QED BY <1>7, <1>8, <1>9

(* The parents of what is sent are sent or known.                           *)
LEMMA ParentsSent ==
  ASSUME IInv, Steady, request.pc # "idle", NEW e \in Sendable, NEW p \in Parent[e]
  PROVE  p \in known \cup Sendable
<1>0. TypeOK /\ NumbersGrow
  BY DEF IInv, Steady
<1>1. e \in Stored /\ e \in Partition
  BY <1>0, SendableIs
<1>2. p \in Stored /\ number[p] < number[e] /\ number[p] \in Nat /\ number[e] \in Nat
  BY <1>0, <1>1, StoredNumbered DEF NumbersGrow
<1>3. CASE p \notin Open
  BY <1>2, <1>3, NotOpen
<1>4. CASE p \in Open
  <2>1. p \in Partition
    BY <1>0, <1>1, <1>2, <1>4, Slices
  <2>2. CASE p \notin Filtered
    BY <2>1, <2>2, LeftOut
  <2>3. CASE p \in Filtered
    BY <1>0, <1>2, <2>3, SendableIs
  <2> QED BY <2>2, <2>3
<1> QED BY <1>3, <1>4

(* A regular event that is sent is followed by one of its creator's.        *)
LEMMA FollowedByOwn ==
  ASSUME IInv, Steady, request.pc # "idle", NEW e \in Sendable, e \notin MergeEvent
  PROVE  LET later == {x \in Sendable : number[x] > number[e]}
         IN  /\ later # {}
             /\ \A x \in later : (\A y \in later : number[x] <= number[y]) => Creator[x] = Creator[e]
<1>0. TypeOK /\ NumbersGrow /\ MergedTogether /\ HeightsGiven
  BY DEF IInv, Steady
<1>1. /\ Sendable \subseteq Filtered /\ Filtered \subseteq Partition /\ Partition \subseteq Open
      /\ Open \subseteq Stored
  BY <1>0, SendableIs, Slices
<1>2. \A x \in Stored : x \in Event /\ number[x] \in Nat
  BY <1>0, StoredNumbered
<1>3. e \in Open /\ e \in Stored /\ e \in Event
  BY <1>1, <1>2
<1>4. PICK m \in MergeEvent : e \in Regular(m)
  BY <1>3, MergedByOne
<1>5. PICK x \in Sendable \cap MergeEvent : number[e] <= number[x]
  BY <1>0, SendableIs
<1>6. x \in Stored /\ x # e /\ number[x] > number[e]
  BY <1>0, <1>1, <1>2, <1>3, <1>5 DEF NumbersGrow
<1>7. m \in Stored /\ number[m] <= number[x] /\ number[e] < number[m]
  <2>1. x \notin Regular(m)
    BY <1>5 DEF Regular
  <2>2. m \in Stored /\ number[m] <= number[x]
    BY <1>0, <1>3, <1>4, <1>6, <2>1 DEF MergedTogether
  <2> QED BY <1>0, <1>4, <2>2 DEF NumbersGrow, Regular
(* The merge event that merges it is below the client's next block too.     *)
<1>8. m \in Open
  <2>1. /\ heightAt[m] \in Nat \cup {-1} /\ heightAt[e] \in Nat \cup {-1} /\ m \in Event
        /\ request.basis \in Nat /\ request.from \in Nat
    BY <1>0, <1>2, <1>3, <1>7 DEF TypeOK
  <2>2. e \in Parent[m] /\ BlockOf[e] \in Nat /\ BlockOf[m] \in Nat /\ BlockOf[e] <= BlockOf[m]
    BY <1>3, <1>4, <2>1, Lineage, GossipAssumption DEF Regular
  <2>3. heightAt[e] = -1 \/ heightAt[e] >= request.basis + 1
    BY <1>3 DEF Open
  <2>4. heightAt[m] # -1 => heightAt[m] = BlockOf[m] /\ heightAt[e] # -1
    BY <1>0, <2>1, <2>2 DEF HeightsGiven
  <2>5. heightAt[e] # -1 => heightAt[e] = BlockOf[e]
    BY <1>0, <1>3 DEF HeightsGiven
  <2>6. heightAt[m] = -1 \/ heightAt[m] >= request.basis + 1
    BY <2>1, <2>2, <2>3, <2>4, <2>5
  <2>7. number[e] >= request.from
    BY <1>3 DEF Open
  <2>8. number[m] >= request.from
    BY <1>2, <1>3, <1>7, <2>1, <2>7
  <2> QED BY <1>7, <2>6, <2>8 DEF Open
<1>9. m \in Partition
  BY <1>0, <1>1, <1>5, <1>7, <1>8, Slices
<1>10. m \in NewMergeEvents
  <2> DEFINE later == {y \in Partition \cap MergeEvent : number[y] > number[e]}
  <2>1. m \in later
    BY <1>2, <1>3, <1>7, <1>9
  <2>2. later = {} \/ FirstOf(1, later) \subseteq NewMergeEvents
    BY <1>1, GossipAssumption DEF Filtered, NewMergeEvents, AncestorsWithin
  <2>3. \A y \in later : y \in MergeEvent /\ y \in Stored /\ number[y] > number[e]
    BY <1>1
  <2> HIDE DEF later
  <2>4. \A y \in later : number[m] <= number[y]
    BY <1>0, <1>3, <1>4, <2>3 DEF MergedTogether, Regular
  <2>5. later \in SUBSET Stored
    BY <2>3
  <2>6. IsFiniteSet(later) /\ \A y \in later : number[y] \in Nat
    BY <1>0, <1>2, <2>5, StoredNumbered, FS_Subset
  <2>7. {y \in later : number[y] < number[m]} = {}
    BY <1>2, <1>7, <2>4, <2>6
  <2>8. m \in FirstOf(1, later)
    BY <2>1, <2>7, FS_EmptySet DEF FirstOf
  <2> QED BY <2>1, <2>2, <2>8
<1>11. m \in Sendable
  <2>1. m \in Filtered
    BY <1>10 DEF Filtered
  <2>2. m = x \/ number[m] < number[x]
    BY <1>0, <1>2, <1>6, <1>7 DEF NumbersGrow
  <2> QED BY <1>0, <1>5, <2>1, <2>2, SendableIs
<1> DEFINE later == {y \in Sendable : number[y] > number[e]}
<1>12. m \in later
  BY <1>2, <1>3, <1>7, <1>11
<1>13. ASSUME NEW y \in later, \A z \in later : number[y] <= number[z]
       PROVE  Creator[y] = Creator[e]
  <2>1. y \in Stored /\ number[y] > number[e] /\ number[y] <= number[m]
    BY <1>1, <1>12, <1>13
  <2>2. y \in Regular(m) \/ number[m] <= number[y]
    BY <1>0, <1>3, <1>4, <2>1 DEF MergedTogether
  <2>3. CASE y \in Regular(m)
    BY <1>4, <2>3, Lineage DEF Regular
  <2>4. CASE number[m] <= number[y]
    <3>1. y = m
      BY <1>0, <1>2, <1>7, <2>1, <2>4 DEF NumbersGrow
    <3> QED BY <1>4, <3>1, Lineage DEF Regular
  <2> QED BY <2>2, <2>3, <2>4
<1> QED BY <1>12, <1>13
LEMMA AnswerIsGood ==
  ASSUME IInv, Steady, request.pc # "idle"
  PROVE  /\ GoodBatch(Sendable, request.basis)
         /\ Reached(NextCursor.localEventNumber)
         /\ \A e \in Stored : number[e] < NextCursor.localEventNumber => e \in known \cup Sendable
<1>0. TypeOK
  BY DEF IInv
<1>1. /\ Sendable \subseteq Filtered /\ Filtered \subseteq Partition
      /\ Partition \subseteq Records /\ Records \subseteq Open /\ Open \subseteq Stored
  BY <1>0, SendableIs, Slices
<1>2. \A e \in Stored : number[e] \in Nat /\ e \in Event
  BY <1>0, StoredNumbered
<1>3. GoodBatch(Sendable, request.basis)
  <2> SUFFICES ASSUME NEW e \in Sendable
               PROVE  LET later == {x \in Sendable : number[x] > number[e]} IN
                      /\ Parent[e] \subseteq known \cup Sendable
                      /\ Basis[e] <= request.basis /\ Required[e] <= request.basis
                      /\ e \in LocalNonWitness => later = {}
                      /\ e \notin MergeEvent =>
                           /\ later # {}
                           /\ \A x \in later :
                                (\A y \in later : number[x] <= number[y]) => Creator[x] = Creator[e]
    BY DEF GoodBatch
  <2>1. Parent[e] \subseteq known \cup Sendable
    BY ParentsSent
  <2>2. Basis[e] <= request.basis /\ Required[e] <= request.basis
    BY <1>0, SendableIs DEF Acceptable
  <2>3. e \in LocalNonWitness => {x \in Sendable : number[x] > number[e]} = {}
    <3>1. \A x \in Sendable : number[x] > number[e] => e \notin LocalNonWitness
      BY <1>0, <1>1, <1>2, SendableIs
    <3> QED BY <3>1
  <2> QED BY <2>1, <2>2, <2>3, FollowedByOwn
<1>4. NextCursor.localEventNumber \in Nat
  BY <1>0, CursorIs DEF Cursors
<1>5. /\ request.from = cursor.localEventNumber
      /\ Reached(cursor.localEventNumber) /\ Passed \subseteq known
  BY DEF IInv, RequestFits, Steady, CursorsReached
<1>6. Reached(NextCursor.localEventNumber)
  <2>1. CASE Records = {}
    BY <1>0, <1>5, <2>1, CursorIs
  <2>2. CASE Records # {}
    BY <1>0, <1>1, <2>2, CursorIs DEF Reached
  <2> QED BY <2>1, <2>2
<1>7. ASSUME NEW e \in Stored, number[e] < NextCursor.localEventNumber,
             e \notin known, e \notin Sendable
      PROVE  FALSE
  <2>1. e \in Open
    BY <1>7, NotOpen
  <2>2. PICK r \in Records : NextCursor.localEventNumber <= number[r] + 1
    BY <1>0, <2>1, CursorIs, Slices
  <2>3. number[e] <= number[r]
    BY <1>1, <1>2, <1>4, <1>7, <2>2
  <2>4. e \in Records
    BY <1>0, <2>1, <2>2, <2>3, Slices
  <2>5. e \notin (Filtered \cup (Records \ Partition)) \ Sendable
    BY <1>0, <1>2, <1>4, <1>7, CursorIs
  <2>6. e \in Partition /\ e \notin Filtered
    BY <1>7, <2>4, <2>5
  <2> QED BY <1>7, <2>6, LeftOut
<1> QED BY <1>3, <1>6, <1>7
-----------------------------------------------------------------------------
(* The invariant is inductive.                                              *)

LEMMA InitIInv == Init => IInv
<1> SUFFICES ASSUME Init PROVE IInv
  OBVIOUS
<1> USE GossipAssumption
<1>1. Stored = {}
  BY DEF Init, Stored
<1>2. TypeOK
  BY DEF Init, TypeOK, Cursors, NoCursor, Idle
<1>3. HeightsGiven /\ ClientKnows
  <2>1. \A e \in Event : BlockOf[e] \in Nat \ {0}
    OBVIOUS
  <2>2. \A e \in Event : ~(BlockOf[e] <= 0)
    BY <2>1
  <2> QED BY <2>2 DEF Init, HeightsGiven, ClientKnows
<1>4. WithheldOfServer /\ RequestFits
  BY DEF Init, WithheldOfServer, RequestFits, Idle
<1>5. Steady
  <2>1. ClosedUnderParents
    BY Lineage DEF Init, ClosedUnderParents
  <2>2. Passed = {} /\ NumbersGrow /\ MergedTogether
    BY <1>1 DEF Passed, NumbersGrow, MergedTogether
  <2>3. CursorsReached /\ AnswerCovers /\ GoodBatch(request.events, request.basis)
    BY DEF Init, CursorsReached, Reached, AnswerCovers, GoodBatch, NoCursor, Idle
  <2> QED BY <2>1, <2>2, <2>3 DEF Steady
<1> QED BY <1>2, <1>3, <1>4, <1>5 DEF IInv

LEMMA FirstFreeIsNumber ==
  ASSUME TypeOK
  PROVE  FirstFreeNumber \in Nat
<1> DEFINE open == {x \in Stored : heightAt[x] = -1}
           numbers == {1} \cup {number[e] : e \in open}
<1>1. open \in SUBSET Stored
  OBVIOUS
<1>2. FirstFreeNumber = Max(numbers) + 1
  BY DEF FirstFreeNumber
<1>3. \A y \in numbers : y = 1 \/ \E e \in open : y = number[e]
  OBVIOUS
<1>4. 1 \in numbers /\ \A e \in open : number[e] \in numbers
  OBVIOUS
<1> HIDE DEF open, numbers
<1>5. IsFiniteSet(open) /\ \A e \in open : number[e] \in Nat
  BY <1>1, StoredNumbered, FS_Subset
<1>6. \E x \in numbers : x \in Nat /\ \A y \in numbers : x >= y
  <2>1. CASE open = {}
    BY <1>3, <1>4, <2>1
  <2>2. CASE open # {}
    <3>1. PICK e \in open : \A x \in open : number[x] <= number[e]
      BY <1>5, <2>2, Greatest
    <3>2. CASE number[e] >= 1
      BY <1>3, <1>4, <1>5, <3>1, <3>2
    <3>3. CASE ~(number[e] >= 1)
      <4>1. \A y \in numbers : 1 >= y
        BY <1>3, <1>5, <3>1, <3>3
      <4> QED BY <1>4, <4>1
    <3> QED BY <3>2, <3>3
  <2> QED BY <2>1, <2>2
<1>7. Max(numbers) \in Nat
  <2>1. \A y \in numbers : y \in Nat
    BY <1>3, <1>5
  <2> QED BY <1>6, <2>1, MaxIs
<1> QED BY <1>2, <1>7

LEMMA StoreEventIInv ==
  ASSUME IInv, NEW e \in Event, StoreEvent(e)
  PROVE  IInv'
<1>0. TypeOK /\ TypeOK'
  <2>1. TypeOK
    BY DEF IInv
  <2>2. TypeOK'
    BY <2>1 DEF StoreEvent, TypeOK, clientVars
  <2> QED BY <2>1, <2>2
<1>1. /\ Stored' = Stored \cup {e} /\ e \notin Stored
      /\ number'[e] = nextNumber /\ nextNumber' = nextNumber + 1 /\ nextNumber \in Nat
      /\ \A x \in Event : x # e => number'[x] = number[x]
      /\ \A x \in Stored : number'[x] = number[x] /\ number[x] \in Nat /\ x \in Event
  <2>1. /\ number' = [number EXCEPT ![e] = nextNumber] /\ nextNumber' = nextNumber + 1
        /\ e \notin Stored /\ number \in [Event -> Nat \cup {-1}] /\ nextNumber \in Nat
    BY <1>0 DEF StoreEvent, TypeOK
  <2>2. /\ number'[e] = nextNumber /\ nextNumber # -1
        /\ \A x \in Event : x # e => number'[x] = number[x]
    BY <2>1
  <2>3. Stored' = Stored \cup {e}
    BY <2>2 DEF Stored
  <2> QED BY <1>0, <2>1, <2>2, <2>3, StoredNumbered
<1>2. UNCHANGED <<heightAt, serverHeight, rewound, clientVars, request>>
  BY DEF StoreEvent
<1>3. HeightsGiven' /\ ClientKnows' /\ WithheldOfServer'
  BY <1>2 DEF IInv, HeightsGiven, ClientKnows, WithheldOfServer, clientVars
<1>4. RequestFits'
  BY <1>1, <1>2 DEF IInv, RequestFits, clientVars
<1>5. ASSUME ~rewound' PROVE Steady'
  <2>0. Steady
    BY <1>2, <1>5 DEF IInv
  <2>1. NumbersGrow'
    <3>1. \A x \in Stored : /\ number[x] < nextNumber
                            /\ \A y \in Stored : number[y] = number[x] => y = x
                            /\ \A p \in Parent[x] : p \in Stored /\ number[p] < number[x]
      BY <2>0 DEF Steady, NumbersGrow
    <3>2. Parent[e] \subseteq Stored
      BY DEF StoreEvent
    <3> QED BY <1>1, <3>1, <3>2 DEF NumbersGrow
  <2>2. MergedTogether'
    <3> SUFFICES ASSUME NEW m \in MergeEvent, NEW r \in Stored' \cap Regular(m), NEW x \in Stored',
                        number'[x] > number'[r]
                 PROVE  x \in Regular(m) \/ (m \in Stored' /\ number'[m] <= number'[x])
      BY DEF MergedTogether, Regular
    <3>1. \A y \in Stored : number[y] < nextNumber
      BY <2>0 DEF Steady, NumbersGrow
    <3>2. r \in Stored
      BY <1>1, <3>1
    <3>3. CASE x \in Stored
      BY <1>1, <2>0, <3>2, <3>3 DEF Steady, MergedTogether
    <3>4. CASE x = e /\ m \in Stored
      BY <1>1, <3>1, <3>4
    <3>5. CASE x = e /\ m \notin Stored
      <4>1. r \in Dangling \cap Parent[m]
        BY <3>2, <3>5 DEF Dangling, Regular
      <4>2. e \in {m} \cup Regular(m)
        BY <4>1 DEF StoreEvent
      <4> QED BY <1>1, <3>5, <4>2
    <3> QED BY <1>1, <3>3, <3>4, <3>5
  <2>3. ClosedUnderParents'
    BY <1>2, <2>0 DEF Steady, ClosedUnderParents, clientVars
  <2>4. \A n \in Nat : Reached(n) => Reached(n)' /\ n <= nextNumber
    <3>1. \A x \in Stored : number[x] < nextNumber
      BY <2>0 DEF Steady, NumbersGrow
    <3> QED BY <1>1, <3>1 DEF Reached
  <2>5. /\ cursor.localEventNumber \in Nat /\ cursor' = cursor
        /\ request.cursor.localEventNumber \in Nat /\ request' = request
        /\ known' = known
    BY <1>0, <1>2 DEF TypeOK, Cursors, clientVars
  <2>6. CursorsReached'
    BY <2>0, <2>4, <2>5 DEF Steady, CursorsReached
  <2>7. AnswerCovers'
    <3>1. request.pc = "answer" => request.cursor.localEventNumber <= nextNumber
      BY <2>0, <2>4, <2>5 DEF Steady, CursorsReached
    <3>2. request.pc = "answer" =>
            \A x \in Stored : number[x] < request.cursor.localEventNumber => x \in known \cup request.events
      BY <2>0 DEF Steady, AnswerCovers
    <3> QED BY <1>1, <2>5, <3>1, <3>2 DEF AnswerCovers
  <2>8. GoodBatch(request.events, request.basis)'
    <3>1. GoodBatch(request.events, request.basis)
      BY <2>0 DEF Steady
    <3>2. \A x \in request.events : number'[x] = number[x]
      BY <1>1 DEF IInv, RequestFits
    <3>3. \A x \in request.events :
            {y \in request.events : number'[y] > number'[x]} = {y \in request.events : number[y] > number[x]}
      BY <3>2
    <3> QED BY <2>5, <3>1, <3>2, <3>3 DEF GoodBatch
  <2>9. (Passed \subseteq known)'
    <3>1. cursor.localEventNumber <= nextNumber
      BY <2>0, <2>4, <2>5 DEF Steady, CursorsReached
    <3>2. \A x \in Stored : number[x] < cursor.localEventNumber => x \in known
      BY <2>0 DEF Steady, Passed
    <3> QED BY <1>1, <2>5, <3>1, <3>2 DEF Passed
  <2> QED BY <2>1, <2>2, <2>3, <2>6, <2>7, <2>8, <2>9 DEF Steady
<1> QED BY <1>0, <1>3, <1>4, <1>5 DEF IInv
(* What storage, the numbers, the client and the request amount to together.*)
LEMMA SteadyKept ==
  ASSUME Steady, UNCHANGED <<number, nextNumber, known, withheld, cursor, request>>
  PROVE  Steady'
BY DEF Steady, NumbersGrow, MergedTogether, ClosedUnderParents, CursorsReached, Reached,
       AnswerCovers, GoodBatch, Passed, Stored, Regular, LocalNonWitness

LEMMA ServerIInv ==
  ASSUME IInv, ServerStep
  PROVE  IInv'
<1>1. CASE StartSession
  <2>1. TypeOK'
    <3>1. FirstFreeNumber \in Nat
      BY FirstFreeIsNumber DEF IInv
    <3> QED BY <1>1, <3>1 DEF IInv, TypeOK, StartSession, clientVars
  <2>2. HeightsGiven' /\ ClientKnows' /\ WithheldOfServer' /\ RequestFits'
    BY <1>1 DEF IInv, StartSession, clientVars, HeightsGiven, ClientKnows, WithheldOfServer,
                RequestFits, Stored
  <2>3. ASSUME ~rewound' PROVE Steady'
    <3>1. ~rewound /\ ~\E e \in Stored : number[e] >= nextNumber'
      BY <1>1, <2>3 DEF StartSession
    <3>2. Steady
      BY <3>1 DEF IInv
    <3>3. \A e \in Stored : number[e] < nextNumber'
      <4>1. \A e \in Stored : number[e] \in Nat
        BY StoredNumbered DEF IInv
      <4>2. nextNumber' \in Nat
        BY <2>1 DEF TypeOK
      <4> QED BY <3>1, <4>1, <4>2
    <3>4. number' = number /\ Stored' = Stored /\ UNCHANGED <<known, withheld, cursor, request>>
      BY <1>1 DEF StartSession, clientVars, Stored
    <3>5. NumbersGrow'
      BY <3>2, <3>3, <3>4 DEF Steady, NumbersGrow
    <3> QED BY <3>2, <3>4, <3>5
            DEF Steady, MergedTogether, ClosedUnderParents, CursorsReached, Reached,
                AnswerCovers, GoodBatch, Passed, Regular, LocalNonWitness
  <2> QED BY <2>1, <2>2, <2>3 DEF IInv
<1>2. ASSUME NEW e \in Event, StoreEvent(e) PROVE IInv'
  BY <1>2, StoreEventIInv
<1>3. CASE FindConsensus \/ EndSession
  <2>1. /\ UNCHANGED <<number, heightAt, serverHeight, nextNumber, sessions, rewound, clientVars, request>>
        /\ session' \in {"update", "off"}
    BY <1>3 DEF FindConsensus, EndSession
  <2>2. TypeOK'
    BY <2>1 DEF IInv, TypeOK, clientVars
  <2>3. HeightsGiven' /\ ClientKnows' /\ WithheldOfServer' /\ RequestFits'
    BY <2>1 DEF IInv, clientVars, HeightsGiven, ClientKnows, WithheldOfServer, RequestFits, Stored
  <2>4. ~rewound' => Steady'
    BY <2>1, SteadyKept DEF IInv, clientVars
  <2> QED BY <2>2, <2>3, <2>4 DEF IInv
<1>4. ASSUME NEW e \in Event, UpdateEvent(e) PROVE IInv'
  <2>1. /\ heightAt' = [heightAt EXCEPT ![e] = serverHeight + 1]
        /\ BlockOf[e] = serverHeight + 1 /\ heightAt \in [Event -> Nat \cup {-1}] /\ serverHeight \in Nat
        /\ UNCHANGED <<number, serverHeight, session, nextNumber, sessions, rewound, clientVars, request>>
    BY <1>4 DEF UpdateEvent, IInv, TypeOK, BlockAt
  <2>2. TypeOK'
    BY <2>1 DEF IInv, TypeOK, clientVars
  <2>3. ClientKnows' /\ WithheldOfServer' /\ RequestFits'
    BY <2>1 DEF IInv, clientVars, ClientKnows, WithheldOfServer, RequestFits, Stored
  <2>4. HeightsGiven'
    <3>1. /\ heightAt'[e] = BlockOf[e] /\ heightAt'[e] # -1
          /\ \A x \in Event : x # e => heightAt'[x] = heightAt[x]
      BY <2>1
    <3>2. \A p \in Parent[e] : heightAt[p] # -1
      <4> SUFFICES ASSUME NEW p \in Parent[e] PROVE heightAt[p] # -1
        OBVIOUS
      <4>1. p \in Event /\ BlockOf[p] \in Nat /\ BlockOf[p] <= BlockOf[e]
        BY Lineage, GossipAssumption
      <4>2. CASE BlockOf[p] = serverHeight + 1
        BY <1>4, <4>1, <4>2 DEF UpdateEvent, BlockAt
      <4>3. CASE BlockOf[p] <= serverHeight
        BY <4>1, <4>3 DEF IInv, HeightsGiven
      <4> QED BY <2>1, <4>1, <4>2, <4>3
    <3>3. \A x \in Event : Parent[x] \subseteq Event
      BY GossipAssumption
    <3>4. /\ \A x \in Event : heightAt[x] # -1 => heightAt[x] = BlockOf[x] /\ \A p \in Parent[x] : heightAt[p] # -1
          /\ \A x \in Event : BlockOf[x] <= serverHeight => heightAt[x] # -1
      BY DEF IInv, HeightsGiven
    <3>5. \A x \in Event : heightAt[x] # -1 => heightAt'[x] # -1
      BY <3>1
    <3>6. serverHeight' = serverHeight
      BY <2>1
    <3>7. \A x \in Event : heightAt'[x] # -1 => heightAt'[x] = BlockOf[x] /\ \A p \in Parent[x] : heightAt'[p] # -1
      BY <3>1, <3>2, <3>3, <3>4, <3>5
    <3> QED BY <3>4, <3>5, <3>6, <3>7 DEF HeightsGiven
  <2>5. ~rewound' => Steady'
    BY <2>1, SteadyKept DEF IInv, clientVars
  <2> QED BY <2>2, <2>3, <2>4, <2>5 DEF IInv
<1>5. CASE AddBlock
  <2>1. /\ serverHeight' = serverHeight + 1 /\ serverHeight \in Nat /\ session' = "on"
        /\ \A e \in Event : BlockOf[e] = serverHeight + 1 => heightAt[e] # -1
        /\ UNCHANGED <<number, heightAt, nextNumber, sessions, rewound, clientVars, request>>
    BY <1>5 DEF AddBlock, IInv, TypeOK, BlockAt
  <2>2. TypeOK'
    BY <2>1 DEF IInv, TypeOK, clientVars
  <2>3. ClientKnows' /\ WithheldOfServer' /\ RequestFits'
    BY <2>1 DEF IInv, clientVars, ClientKnows, WithheldOfServer, RequestFits, Stored
  <2>4. HeightsGiven'
    <3>1. \A e \in Event : BlockOf[e] \in Nat
      BY GossipAssumption
    <3>2. \A e \in Event : BlockOf[e] <= serverHeight + 1 =>
            BlockOf[e] <= serverHeight \/ BlockOf[e] = serverHeight + 1
      BY <2>1, <3>1
    <3> QED BY <2>1, <3>2 DEF IInv, HeightsGiven
  <2>5. ~rewound' => Steady'
    BY <2>1, SteadyKept DEF IInv, clientVars
  <2> QED BY <2>2, <2>3, <2>4, <2>5 DEF IInv
<1> QED BY <1>1, <1>2, <1>3, <1>4, <1>5 DEF ServerStep

(* The client's requests.                                                   *)
LEMMA RequestIInv ==
  ASSUME IInv, SendRequest \/ LookUpHeads \/ Answer \/ Lose
  PROVE  IInv'
<1>1. UNCHANGED <<serverVars, clientVars>>
  BY DEF SendRequest, LookUpHeads, Answer, Lose
<1>2. HeightsGiven' /\ ClientKnows' /\ WithheldOfServer'
  BY <1>1 DEF IInv, serverVars, clientVars, HeightsGiven, ClientKnows, WithheldOfServer
<1>3. Stored' = Stored /\ TypeOK /\ number' = number /\ rewound' = rewound /\ known' = known
      /\ cursor' = cursor /\ nextNumber' = nextNumber /\ withheld' = withheld
  BY <1>1 DEF IInv, serverVars, clientVars, Stored
(* A request without an answer promises nothing.                            *)
<1>4. ASSUME request'.pc # "answer", request'.events = {} PROVE ~rewound' => Steady'
  <2>1. SUFFICES ASSUME ~rewound' PROVE Steady'
    OBVIOUS
  <2>2. Steady
    BY <1>3, <2>1 DEF IInv
  <2>3. CursorsReached' /\ AnswerCovers' /\ GoodBatch(request.events, request.basis)'
    BY <1>3, <1>4, <2>2 DEF Steady, CursorsReached, Reached, AnswerCovers, GoodBatch
  <2> QED BY <1>3, <2>2, <2>3
          DEF Steady, NumbersGrow, MergedTogether, ClosedUnderParents, Passed, Regular
<1>5. CASE SendRequest
  <2>1. PICK heads \in PeerHeads :
          request' = [pc |-> "heads", basis |-> clientHeight, heads |-> heads,
                      from |-> cursor.localEventNumber, events |-> {}, cursor |-> NoCursor]
    BY <1>5 DEF SendRequest, Idle
  <2>2. heads \subseteq known \cap MergeEvent
    BY DEF PeerHeads, NonConsensus
  <2>3. TypeOK'
    BY <1>1, <1>3, <2>1, <2>2 DEF TypeOK, serverVars, clientVars, Cursors, NoCursor
  <2>4. RequestFits'
    <3>1. withheld = {}
      BY <1>5 DEF SendRequest
    <3> QED BY <1>1, <1>3, <2>1, <2>2, <3>1 DEF RequestFits, clientVars
  <2> QED BY <1>2, <1>4, <2>1, <2>3, <2>4 DEF IInv
<1>6. CASE LookUpHeads
  <2>1. /\ request' = [request EXCEPT !.pc = "events", !.heads = @ \cap Stored]
        /\ request.pc = "heads"
    BY <1>6 DEF LookUpHeads
  <2>2. TypeOK'
    BY <1>1, <1>3, <2>1 DEF TypeOK, serverVars, clientVars
  <2>3. request'.pc = "events" /\ request'.heads = request.heads \cap Stored
        /\ request'.basis = request.basis /\ request'.from = request.from
        /\ request'.events = request.events
    BY <1>3, <2>1 DEF TypeOK
  <2>4. RequestFits' /\ request'.events = {}
    BY <1>1, <1>3, <2>1, <2>3 DEF IInv, RequestFits, clientVars
  <2> QED BY <1>2, <1>4, <2>2, <2>3, <2>4 DEF IInv
<1>7. CASE Answer
  <2>1. /\ request' = [request EXCEPT !.pc = "answer", !.events = Sendable, !.cursor = NextCursor]
        /\ request.pc = "events"
    BY <1>7 DEF Answer
  <2>2. NextCursor \in Cursors /\ Sendable \subseteq Stored /\ Sendable \subseteq Event
    BY <1>3, CursorIs, SendableIs, StoredNumbered
  <2>3. TypeOK'
    BY <1>1, <1>3, <2>1, <2>2 DEF TypeOK, serverVars, clientVars
  <2>4. /\ request'.pc = "answer" /\ request'.heads = request.heads
        /\ request'.basis = request.basis /\ request'.from = request.from
        /\ request'.events = Sendable /\ request'.cursor = NextCursor
    BY <1>3, <2>1 DEF TypeOK
  <2>5. RequestFits'
    BY <1>1, <1>3, <2>1, <2>2, <2>4 DEF IInv, RequestFits, clientVars
  <2>6. ASSUME ~rewound' PROVE Steady'
    <3>1. Steady
      BY <1>3, <2>6 DEF IInv
    <3>2. /\ GoodBatch(Sendable, request.basis)
          /\ Reached(NextCursor.localEventNumber)
          /\ \A e \in Stored : number[e] < NextCursor.localEventNumber => e \in known \cup Sendable
      BY <2>1, <3>1, AnswerIsGood
    <3>3. CursorsReached' /\ AnswerCovers'
      BY <1>3, <2>4, <3>1, <3>2 DEF Steady, CursorsReached, Reached, AnswerCovers
    <3>4. GoodBatch(request.events, request.basis)'
      BY <1>3, <2>4, <3>2 DEF GoodBatch
    <3> QED BY <1>3, <3>1, <3>3, <3>4
            DEF Steady, NumbersGrow, MergedTogether, ClosedUnderParents, Passed, Regular
  <2> QED BY <1>2, <2>3, <2>5, <2>6 DEF IInv
<1>8. CASE Lose
  <2>1. request' = Idle
    BY <1>8 DEF Lose
  <2>2. TypeOK'
    BY <1>1, <1>3, <2>1 DEF TypeOK, serverVars, clientVars, Cursors, NoCursor, Idle
  <2>3. RequestFits' /\ request'.pc # "answer" /\ request'.events = {}
    BY <2>1 DEF RequestFits, Idle
  <2> QED BY <1>2, <1>4, <2>2, <2>3 DEF IInv
<1> QED BY <1>5, <1>6, <1>7, <1>8
-----------------------------------------------------------------------------
(* What the client learns.                                                  *)

(* An event is parent of one merge event if it is regular.                  *)
LEMMA RegularOfOne ==
  ASSUME NEW m \in MergeEvent, NEW r \in Regular(m)
  PROVE  /\ r \in Event \ MergeEvent
         /\ \A x \in MergeEvent : r \in Parent[x] => x = m
         /\ \A e \in Event : r \in Parent[e] => e = m
<1>1. r \in Event \ MergeEvent /\ r \in Parent[m]
  BY GossipAssumption DEF Regular
<1>2. \A x \in MergeEvent : r \in Parent[x] => x = m
  BY <1>1, MergedByOne
<1>3. ASSUME NEW e \in Event, r \in Parent[e], e \notin MergeEvent PROVE FALSE
  <2>1. PICK x \in MergeEvent : e \in Regular(x)
    BY <1>3, MergedByOne
  <2>2. Parent[e] \subseteq MergeEvent
    BY <2>1, Lineage DEF Regular
  <2> QED BY <1>1, <1>3, <2>2
<1> QED BY <1>1, <1>2, <1>3

LEMMA ReceiveIInv ==
  ASSUME IInv, Receive
  PROVE  IInv'
<1>1. /\ request.pc = "answer" /\ known' = known \cup request.events
      /\ cursor' = request.cursor /\ request' = Idle
      /\ UNCHANGED <<serverVars, clientHeight, withheld>>
  BY DEF Receive, Needed
<1>2. /\ TypeOK /\ Stored' = Stored /\ withheld = {} /\ request.cursor \in Cursors
      /\ request.events \subseteq Event
  BY <1>1 DEF IInv, TypeOK, RequestFits, serverVars, Stored
<1>3. TypeOK'
  BY <1>1, <1>2 DEF TypeOK, serverVars, Idle, NoCursor, Cursors
<1>4. HeightsGiven' /\ ClientKnows' /\ WithheldOfServer' /\ RequestFits'
  BY <1>1, <1>2 DEF IInv, serverVars, HeightsGiven, ClientKnows, WithheldOfServer, RequestFits, Idle
<1>5. ASSUME ~rewound' PROVE Steady'
  <2>1. Steady /\ number' = number /\ nextNumber' = nextNumber
    BY <1>1, <1>5 DEF IInv, serverVars
  <2>2. NumbersGrow' /\ MergedTogether'
    BY <1>2, <2>1 DEF Steady, NumbersGrow, MergedTogether, Regular
  <2>3. ClosedUnderParents'
    <3>1. \A e \in request.events : Parent[e] \subseteq known \cup request.events
      BY <2>1 DEF Steady, GoodBatch
    <3> QED BY <1>1, <1>2, <2>1, <3>1 DEF Steady, ClosedUnderParents
  <2>4. CursorsReached' /\ AnswerCovers' /\ GoodBatch(request.events, request.basis)'
    BY <1>1, <1>2, <2>1 DEF Steady, CursorsReached, Reached, AnswerCovers, GoodBatch, Idle
  <2>5. (Passed \subseteq known)'
    BY <1>1, <1>2, <2>1 DEF Steady, AnswerCovers, Passed
  <2> QED BY <2>2, <2>3, <2>4, <2>5 DEF Steady
<1> QED BY <1>3, <1>4, <1>5 DEF IInv

LEMMA WithholdIInv ==
  ASSUME IInv, Withhold
  PROVE  IInv'
<1>1. PICK m \in Needed \cap LocalNonWitness :
           /\ \A e \in Needed : number[e] <= number[m]
           /\ known' = known \cup StoredOf({m} \cup Regular(m))
           /\ withheld' = ({m} \cup Regular(m)) \ known
  BY DEF Withhold
<1> DEFINE kept == {m} \cup Regular(m)
<1>2. /\ request.pc = "answer" /\ cursor' = cursor /\ request' = Idle
      /\ known' = known \cup ((request.events \ known) \ kept)
      /\ withheld' = kept \ known
      /\ UNCHANGED <<serverVars, clientHeight>>
  BY <1>1 DEF Withhold, WithholdCursor, StoredOf, Needed
<1>3. /\ TypeOK /\ Stored' = Stored /\ request.events \subseteq Event /\ request.events \subseteq Stored
      /\ kept \subseteq Event /\ m \in MergeEvent /\ m \in request.events
  BY <1>1, <1>2, GossipAssumption
     DEF IInv, TypeOK, RequestFits, serverVars, Stored, Regular, LocalNonWitness, Needed
<1>4. TypeOK'
  <2>1. known' \subseteq Event /\ withheld' \subseteq Event \ known'
    BY <1>2, <1>3 DEF TypeOK
  <2> QED BY <1>2, <1>3, <2>1 DEF TypeOK, serverVars, Idle, NoCursor, Cursors
<1>5. HeightsGiven' /\ ClientKnows' /\ RequestFits'
  BY <1>2, <1>3 DEF IInv, serverVars, HeightsGiven, ClientKnows, RequestFits, Idle
<1>6. WithheldOfServer'
  BY <1>1, <1>2, <1>3 DEF WithheldOfServer, LocalNonWitness, Regular
<1>7. ASSUME ~rewound' PROVE Steady'
  <2>1. Steady /\ number' = number /\ nextNumber' = nextNumber
    BY <1>2, <1>7 DEF IInv, serverVars
  <2>2. NumbersGrow' /\ MergedTogether'
    BY <1>3, <2>1 DEF Steady, NumbersGrow, MergedTogether, Regular
  <2>3. /\ \A e \in request.events : Parent[e] \subseteq known \cup request.events
        /\ \A e \in known : Parent[e] \subseteq known
        /\ \A e \in Stored : \A p \in Parent[e] : p \in Stored /\ number[p] < number[e]
    BY <2>1 DEF Steady, GoodBatch, ClosedUnderParents, NumbersGrow
  <2>4. ASSUME NEW e \in (request.events \ known) \ kept, NEW p \in Parent[e]
        PROVE  p \in known'
    <3>1. p \in known \cup request.events
      BY <2>3, <2>4
    <3>2. p # m
      <4>1. number[e] <= number[m]
        BY <1>1, <2>4 DEF Needed
      <4>2. number[p] < number[e] /\ e \in Stored /\ p \in Stored
        BY <1>3, <2>3, <2>4
      <4>3. number[e] \in Nat /\ number[p] \in Nat
        BY <1>3, <4>2, StoredNumbered
      <4> QED BY <4>1, <4>2, <4>3
    <3>3. p \notin Regular(m)
      BY <1>3, <2>4, RegularOfOne
    <3> QED BY <1>2, <3>1, <3>2, <3>3
  <2>5. ASSUME NEW e \in kept, NEW p \in Parent[e]
        PROVE  p \in known' \cup withheld'
    <3>1. p \in Parent[m]
      BY <1>3, <2>5, Lineage DEF Regular
    <3>2. p \in known \cup request.events
      BY <1>3, <2>3, <3>1
    <3> QED BY <1>2, <3>2
  <2>6. ClosedUnderParents'
    BY <1>2, <2>3, <2>4, <2>5 DEF ClosedUnderParents
  <2>7. CursorsReached' /\ AnswerCovers' /\ GoodBatch(request.events, request.basis)'
    BY <1>2, <1>3, <2>1 DEF Steady, CursorsReached, Reached, AnswerCovers, GoodBatch, Idle
  <2>8. (Passed \subseteq known)'
    BY <1>2, <1>3, <2>1 DEF Steady, Passed
  <2> QED BY <2>2, <2>6, <2>7, <2>8 DEF Steady
<1> QED BY <1>4, <1>5, <1>6, <1>7 DEF IInv

(* When the client learns something while no request is under way, all that *)
(* matters is that it knows the parents.                                    *)
LEMMA LearnIInv ==
  ASSUME IInv, request.pc = "idle", known \subseteq known', TypeOK', ClientKnows', WithheldOfServer',
         ~rewound => ClosedUnderParents', UNCHANGED <<serverVars, cursor, request>>
  PROVE  IInv'
<1>1. Stored' = Stored /\ HeightsGiven' /\ RequestFits'
  BY DEF IInv, serverVars, HeightsGiven, RequestFits, Stored
<1>2. ASSUME ~rewound' PROVE Steady'
  <2>1. Steady /\ ClosedUnderParents' /\ number' = number /\ nextNumber' = nextNumber
    BY <1>2 DEF IInv, serverVars
  <2>2. NumbersGrow' /\ MergedTogether' /\ CursorsReached' /\ AnswerCovers'
    BY <1>1, <2>1 DEF Steady, NumbersGrow, MergedTogether, Regular, CursorsReached, Reached, AnswerCovers
  <2>3. GoodBatch(request.events, request.basis)'
    BY DEF IInv, RequestFits, GoodBatch
  <2>4. (Passed \subseteq known)'
    BY <1>1, <2>1 DEF Steady, Passed
  <2> QED BY <2>1, <2>2, <2>3, <2>4 DEF Steady
<1> QED BY <1>1, <1>2 DEF IInv

LEMMA ClientIInv ==
  ASSUME IInv, WriteWithheld \/ DropWithheld \/ ClientBlock
  PROVE  IInv'
<1>1. /\ request.pc = "idle" /\ UNCHANGED <<serverVars, cursor, request>>
      /\ known \subseteq known' /\ known' \subseteq known \cup withheld
  BY DEF WriteWithheld, DropWithheld, ClientBlock
<1>2. TypeOK'
  BY <1>1 DEF IInv, TypeOK, serverVars, WriteWithheld, DropWithheld, ClientBlock
<1>3. WithheldOfServer'
  BY DEF IInv, WithheldOfServer, WriteWithheld, DropWithheld, ClientBlock
<1>4. ClientKnows'
  <2>1. CASE WriteWithheld \/ DropWithheld
    BY <1>1, <2>1 DEF IInv, ClientKnows, WriteWithheld, DropWithheld
  <2>2. CASE ClientBlock
    <3>1. /\ clientHeight' = clientHeight + 1 /\ known' = known /\ clientHeight \in Nat
          /\ \A e \in Event : BlockOf[e] = clientHeight + 1 => e \in known
      BY <2>2 DEF ClientBlock, BlockAt, IInv, TypeOK
    <3>2. \A e \in Event : BlockOf[e] \in Nat
      BY GossipAssumption
    <3>3. \A e \in Event : BlockOf[e] <= clientHeight + 1 =>
            BlockOf[e] <= clientHeight \/ BlockOf[e] = clientHeight + 1
      BY <3>1, <3>2
    <3> QED BY <3>1, <3>3 DEF IInv, ClientKnows
  <2> QED BY <2>1, <2>2
<1>5. ~rewound => ClosedUnderParents'
  BY DEF IInv, Steady, ClosedUnderParents, WriteWithheld, DropWithheld, ClientBlock
<1> QED BY <1>1, <1>2, <1>3, <1>4, <1>5, LearnIInv

LEMMA ReceiveElsewhereIInv ==
  ASSUME IInv, NEW m \in Elsewhere, ReceiveElsewhere(m)
  PROVE  IInv'
<1>1. /\ request.pc = "idle" /\ UNCHANGED <<serverVars, cursor, request, withheld, clientHeight>>
      /\ known' = known \cup {m} \cup Regular(m) /\ Parent[m] \cap MergeEvent \subseteq known
      /\ m \in MergeEvent /\ m \in Event
  BY GossipAssumption DEF ReceiveElsewhere
<1>2. \A e \in withheld : e # m /\ e \notin Regular(m)
  <2> SUFFICES ASSUME NEW e \in withheld PROVE e # m /\ e \notin Regular(m)
    OBVIOUS
  <2>1. PICK x \in LocalNonWitness : e \in {x} \cup Regular(x)
    BY DEF IInv, WithheldOfServer
  <2>2. x \in MergeEvent /\ Creator[x] = Server /\ Required[x] = -1
    BY <2>1 DEF LocalNonWitness
  <2>3. x # m
    BY <2>2, Lineage
  <2>4. CASE e = x
    BY <2>2, <2>3, <2>4 DEF Regular
  <2>5. CASE e \in Regular(x)
    BY <1>1, <2>2, <2>3, <2>5, RegularOfOne DEF Regular
  <2> QED BY <2>1, <2>4, <2>5
<1>3. TypeOK'
  <2>1. Regular(m) \subseteq Event
    BY <1>1, GossipAssumption DEF Regular
  <2> QED BY <1>1, <1>2, <2>1 DEF IInv, TypeOK, serverVars
<1>4. ClientKnows' /\ WithheldOfServer'
  BY <1>1 DEF IInv, ClientKnows, WithheldOfServer
<1>5. ASSUME ~rewound PROVE ClosedUnderParents'
  <2>1. ClosedUnderParents
    BY <1>5 DEF IInv, Steady
  <2>2. Parent[m] \subseteq known'
    BY <1>1 DEF Regular
  <2>3. \A e \in Regular(m) : Parent[e] \subseteq known
    BY <1>1, Lineage DEF Regular
  <2> QED BY <1>1, <2>1, <2>2, <2>3 DEF ClosedUnderParents
<1> QED BY <1>1, <1>3, <1>4, <1>5, LearnIInv
-----------------------------------------------------------------------------
LEMMA NextIInv == IInv /\ [Next]_vars => IInv'
<1> SUFFICES ASSUME IInv, [Next]_vars PROVE IInv'
  OBVIOUS
<1>1. CASE ServerStep
  BY <1>1, ServerIInv
<1>2. CASE Ask \/ AskAgain \/ LookUpHeads \/ Answer \/ Lose
  BY <1>2, RequestIInv DEF Ask, AskAgain
<1>3. CASE Receive
  BY <1>3, ReceiveIInv
<1>4. CASE Withhold
  BY <1>4, WithholdIInv
<1>5. CASE WriteWithheld \/ DropWithheld \/ ClientBlock
  BY <1>5, ClientIInv
<1>6. ASSUME NEW m \in Elsewhere, ReceiveElsewhere(m) PROVE IInv'
  BY <1>6, ReceiveElsewhereIInv
<1>7. CASE UNCHANGED vars
  <2>1. UNCHANGED <<serverVars, clientVars, request>>
    BY <1>7 DEF vars
  <2>2. TypeOK' /\ HeightsGiven' /\ ClientKnows' /\ WithheldOfServer' /\ RequestFits'
    BY <2>1 DEF IInv, serverVars, clientVars, TypeOK, HeightsGiven, ClientKnows, WithheldOfServer,
                RequestFits, Stored
  <2>3. ~rewound' => Steady'
    BY <2>1, SteadyKept DEF IInv, serverVars, clientVars
  <2> QED BY <2>2, <2>3 DEF IInv
<1> QED BY <1>1, <1>2, <1>3, <1>4, <1>5, <1>6, <1>7 DEF Next

LEMMA Inductive == Spec => []IInv
BY InitIInv, NextIInv, PTL DEF Spec

(* Every variable has its type, and the client has not what it withholds.   *)
THEOREM TypeCorrect == Spec => []TypeOK
<1>1. IInv => TypeOK
  BY DEF IInv
<1> QED BY <1>1, Inductive, PTL

(* As long as the server gives no number twice, the client's cursor passes  *)
(* no event that it lacks, whatever the server stores and writes into       *)
(* blocks between the steps of a request, whatever the client gets from     *)
(* others or withholds, and whichever answers are lost.                     *)
THEOREM NoneSkipped == Spec => []NothingSkipped
<1>1. IInv => NothingSkipped
  <2>1. SUFFICES ASSUME IInv, ~rewound PROVE Passed \subseteq known
    BY DEF NothingSkipped
  <2> QED BY <2>1 DEF IInv, Steady
<1> QED BY <1>1, Inductive, PTL

(* As long as the server gives no number twice, what it sends can be taken: *)
(* no peer is dropped for an answer that the protocol refuses.              *)
THEOREM BatchesAcceptable == Spec => []BatchAcceptable
<1>1. IInv => BatchAcceptable
  <2>1. SUFFICES ASSUME IInv, ~rewound
                 PROVE  \A e \in request.events :
                          LET later == {x \in request.events : number[x] > number[e]} IN
                          /\ Parent[e] \subseteq known \cup request.events
                          /\ Basis[e] <= request.basis /\ Required[e] <= request.basis
                          /\ e \in LocalNonWitness => later = {}
                          /\ e \notin MergeEvent =>
                               later # {} /\ \A x \in FirstOf(1, later) : Creator[x] = Creator[e]
    BY DEF BatchAcceptable
  <2>2. GoodBatch(request.events, request.basis) /\ TypeOK
    BY <2>1 DEF IInv, Steady
  <2>3. request.events \subseteq Stored /\ IsFiniteSet(Stored) /\ \A x \in Stored : number[x] \in Nat
    BY <2>1, <2>2, StoredNumbered DEF IInv, RequestFits
  <2>4. ASSUME NEW S \in SUBSET request.events
        PROVE  \A x \in FirstOf(1, S) : x \in S /\ \A y \in S : number[x] <= number[y]
    <3>1. IsFiniteSet(S) /\ \A x \in S : number[x] \in Nat
      BY <2>3, <2>4, FS_Subset
    <3>2. FirstOf(1, S) = Low(number, 1, S)
      BY DEF FirstOf, Low
    <3> QED BY <3>1, <3>2, LowIs
  <2> QED BY <2>2, <2>4 DEF GoodBatch
<1> QED BY <1>1, Inductive, PTL
=============================================================================
