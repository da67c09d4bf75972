--------------------------- MODULE AgreementProofs ---------------------------
(***************************************************************************)
(* When the continuity algorithm keeps to its decisions.  It does not in   *)
(* every instance: witnesses that merge without knowing what the decision  *)
(* was made from may be led to another set.  That they do not, and that no *)
(* witness forked, is enough.                                              *)
(***************************************************************************)
EXTENDS ContinuityProofs, WellFoundedInduction

(* Of the branches of one witness no two have begun.                        *)
NobodyForked ==
  \A x, y \in Branch : Creator[x] = Creator[y] /\ Height(x) > 0 /\ Height(y) > 0 => x = y

(* Whatever the event d does not know was made with the knowledge of all    *)
(* that d knows; another decision, which nobody merges, need not be.        *)
KeptUpWith(d) ==
  \A b \in Branch : \A g \in Merged(b) :
    g > d.clock[b] /\ ~Event(b, g).decision
      => \A x \in Branch : d.clock[x] <= Event(b, g).clock[x]

KeptUp == \A d \in Decisions : KeptUpWith(d)

(* The invariants that follow hold whoever forks and however views lag.     *)

(* An event is higher than all that it knows (mergeHeight).                 *)
HeightsRise ==
  \A b \in Branch : \A g \in Merged(b) :
    LET e == Event(b, g)
    IN \A x \in Branch : e.clock[x] > 0 => Vote(e.clock, x).mergeHeight < e.mergeHeight

(* A decision ends its branch and is an ancestor of no event.               *)
DecisionEnds == \A b \in Branch : \A g \in Merged(b) : Event(b, g).decision => g = Height(b)
DecisionUnmerged ==
  \A b \in Branch : \A g \in Merged(b) : \A x \in Branch :
    LET c == Event(b, g).clock
    IN c[x] > 0 => ~Vote(c, x).decision

(* An event supports what its cut makes it choose, and decides for a set    *)
(* that f+1 of its voters support.                                          *)
ChoiceFollowsCut ==
  \A b \in Branch : \A g \in Merged(b) :
    LET e == Event(b, g)
    IN /\ ~e.revoked /\ FPlusOneSupport(e) # {} => e.support = UNION FPlusOneSupport(e)
       /\ e.decision => /\ e.support \in FPlusOneSupport(e)
                        /\ e.support = UNION FPlusOneSupport(e)

(* As long as nobody has forked, whatever is in the ancestry of an event is *)
(* in its index of most recent witness ancestors.                           *)
AllVote ==
  NobodyForked =>
    \A b \in Branch : \A g \in Merged(b) : Event(b, g).voters = Seen(Event(b, g).clock)

LockInv == HeightsRise /\ DecisionEnds /\ DecisionUnmerged /\ ChoiceFollowsCut /\ AllVote
-----------------------------------------------------------------------------
LEMMA BackersTallied ==
  ASSUME NEW e, NEW set, Cardinality(Backers(e, set)) >= F + 1
  PROVE  set \in FPlusOneSupport(e)
<1>1. CASE Backers(e, set) = {}
  <2>1. Cardinality(Backers(e, set)) = 0
    BY <1>1, FS_EmptySet
  <2> QED BY <2>1, Numbers
<1>2. CASE Backers(e, set) # {}
  BY <1>2 DEF Backers, FPlusOneSupport, Tallied, FPlusOne
<1> QED BY <1>1, <1>2

(* What is counted for an old event stays as it is.                         *)
LEMMA ChoicesKept ==
  ASSUME TypeOK, NEW b \in Branch, NEW e, ClosedCut(e.clock), Sound(b, e),
         \A x \in Branch : \A g \in Merged(x) : Event(x, g)' = Event(x, g)
  PROVE  /\ FPlusOneSupport(e)' = FPlusOneSupport(e)
         /\ \A x \in Branch : e.clock[x] > 0 => /\ Vote(e.clock, x)' = Vote(e.clock, x)
                                                /\ e.clock[x] \in Merged(x)
<1>1. \A x \in Branch : e.clock[x] > 0 => /\ e.clock[x] \in Merged(x)
                                          /\ Event(x, e.clock[x])' = Event(x, e.clock[x])
  BY EventType DEF ClosedCut, Merged
<1>2. \A x \in Branch : e.clock[x] > 0 => Vote(e.clock, x)' = Vote(e.clock, x)
  BY <1>1 DEF Vote
<1>3. \A x \in e.voters : x \in Branch /\ e.clock[x] > 0
  BY DEF Sound, Seen
<1>4. Tallied(e)' = Tallied(e)
  BY <1>2, <1>3 DEF Tallied
<1>5. \A set : Backers(e, set)' = Backers(e, set)
  BY TalliesKept
<1> QED BY <1>1, <1>2, <1>4, <1>5 DEF FPlusOneSupport

(* As long as nobody forks, all that a new event knows is in its index.     *)
LEMMA DraftSeesAll ==
  ASSUME IInv, AllVote, NobodyForked, NEW b \in Branch, NEW d, IsDraft(b, d),
         \A x \in Branch : Creator[x] = Creator[b] /\ Height(x) > 0 => x = b
  PROVE  d.voters = Seen(d.clock)
<1>0. PICK c \in Views(b) : \E parents \in Parents(b, c), h \in Nat :
        d = NewEvent(c, MostRecent(b, c, parents), h)
  BY DEF IsDraft
<1>1. PICK parents \in Parents(b, c), h \in Nat : d = NewEvent(c, MostRecent(b, c, parents), h)
  BY <1>0
<1>2. TypeOK /\ d.clock = c /\ d.voters = MostRecent(b, c, parents) /\ parents \subseteq Seen(c)
  BY <1>1 DEF NewEvent, IInv, Parents
<1>3. c \in [Branch -> Nat] /\ \A x \in Branch : c[x] <= Height(x)
  BY <1>2, ViewFacts
<1>4. ASSUME NEW x \in Seen(c) PROVE x \in Branch /\ Height(x) > 0 /\ c[x] \in Merged(x)
  BY <1>2, <1>3, VoteType, EventType DEF Seen, Merged
<1>5. ASSUME NEW x \in Seen(c), NEW y \in Seen(c) PROVE Agrees(Vote(c, y), x)
  <2>1. /\ y \in Branch /\ c[y] \in Merged(y) /\ x \in Branch /\ Height(x) > 0
        /\ Vote(c, y) = Event(y, c[y])
    BY <1>4 DEF Vote
  <2> DEFINE k == Vote(c, y).clock
  <2>2. /\ k \in [Branch -> Nat] /\ \A z \in Branch : k[z] <= Height(z)
        /\ Vote(c, y).voters = Seen(k)
    BY <1>2, <2>1, OldCutClosed DEF ClosedCut, AllVote, IInv
  <2>3. ASSUME NEW z \in Own(x), k[z] # 0 PROVE x = z
    <3>1. z \in Branch /\ Creator[z] = Creator[x]
      BY <2>1, OwnBranches
    <3>2. Height(z) > 0
      BY <1>2, <2>2, <2>3, <3>1, EventType
    <3> QED BY <2>1, <3>1, <3>2 DEF NobodyForked
  <2>4. CASE \A z \in Own(x) : k[z] = 0
    BY <2>4 DEF Agrees
  <2>5. CASE \E z \in Own(x) : k[z] # 0
    <3>1. k[x] > 0
      BY <2>1, <2>2, <2>3, <2>5
    <3> QED BY <2>1, <2>2, <3>1 DEF Agrees, Seen
  <2> QED BY <2>4, <2>5
<1>6. ASSUME NEW x \in Seen(c) PROVE x \in MostRecent(b, c, parents)
  <2>1. x \in Own(b) => x = b
    BY <1>4, OwnBranches
  <2>2. \A y \in parents : Creator[y] = Creator[x] => y = x
    BY <1>2, <1>4 DEF NobodyForked
  <2>3. \A y \in parents \cup (Seen(c) \cap {b}) : Agrees(Vote(c, y), x)
    BY <1>2, <1>5
  <2> QED BY <2>1, <2>2, <2>3 DEF MostRecent
<1> QED BY <1>2, <1>6 DEF MostRecent

LEMMA InitLockInv == Init => LockInv
BY DEF Init, Merged, Height, LockInv, HeightsRise, DecisionEnds, DecisionUnmerged,
       ChoiceFollowsCut, AllVote

LEMMA StepLockInv ==
  ASSUME IInv, LockInv, [Next]_vars
  PROVE  LockInv'
<1>1. CASE UNCHANGED vars
  <2>1. dag' = dag
    BY <1>1 DEF vars
  <2>2. (HeightsRise /\ DecisionEnds /\ DecisionUnmerged)'
    BY <2>1 DEF LockInv, HeightsRise, DecisionEnds, DecisionUnmerged, Merged, Height, Event, Vote
  <2>3. \A x, g : Event(x, g)' = Event(x, g) /\ Merged(x)' = Merged(x)
    BY <2>1 DEF Event, Merged, Height
  <2>4. \A x, g : FPlusOneSupport(Event(x, g))' = FPlusOneSupport(Event(x, g))
    BY <2>1 DEF FPlusOneSupport, Tallied, Backers, Vote, Event
  <2>5. ChoiceFollowsCut'
    BY <2>3, <2>4 DEF LockInv, ChoiceFollowsCut
  <2>6. AllVote'
    BY <2>1 DEF LockInv, AllVote, NobodyForked, Merged, Height, Event, Seen
  <2> QED BY <2>2, <2>5, <2>6 DEF LockInv
<1>2. CASE Next
  <2>0. TypeOK
    BY DEF IInv
  <2>1. PICK b \in Branch : \E top \in Nat : \E d :
           LET e == Experiment(b, d)
           IN /\ ~Ended(b) /\ IsDraft(b, d)
              /\ \A x \in Branch : HeadHeight(d.clock, x) < d.mergeHeight
              /\ top = Height(b) + 1
              /\ ClosedCut(d.clock)
              /\ \A x \in Branch : Height(x)' = IF x = b THEN top ELSE Height(x)
              /\ \A x \in Branch : \A g \in Merged(x) :
                   g \in Merged(x)' /\ Event(x, g)' = Event(x, g)
              /\ top \in Merged(b)' /\ Event(b, top)' = e
              /\ \A x \in Branch : \A g \in Merged(x)' : g \in Merged(x) \/ (x = b /\ g = top)
    BY <1>2, <2>0, MergeFacts
  <2>2. PICK top, d :
           LET e == Experiment(b, d)
           IN /\ top \in Nat
              /\ ~Ended(b) /\ IsDraft(b, d)
              /\ \A x \in Branch : HeadHeight(d.clock, x) < d.mergeHeight
              /\ top = Height(b) + 1
              /\ ClosedCut(d.clock)
              /\ \A x \in Branch : Height(x)' = IF x = b THEN top ELSE Height(x)
              /\ \A x \in Branch : \A g \in Merged(x) :
                   g \in Merged(x)' /\ Event(x, g)' = Event(x, g)
              /\ top \in Merged(b)' /\ Event(b, top)' = e
              /\ \A x \in Branch : \A g \in Merged(x)' : g \in Merged(x) \/ (x = b /\ g = top)
    BY <2>1
  <2> top \in Nat
    BY <2>2
  <2>e. PICK e : e = Experiment(b, d)
    OBVIOUS
  <2>x. PICK choice : choice = ChooseSupport(b, d)
    OBVIOUS
  <2>3. /\ e.mergeHeight = d.mergeHeight /\ e.clock = d.clock /\ e.voters = d.voters
        /\ d.clock \in Views(b) /\ d.voters \in SUBSET Branch /\ Sound(b, d)
        /\ \A x \in Branch : Height(x) \in Nat
    BY <2>0, <2>2, <2>e, ExperimentFacts, DraftType, DraftIndex, MergeEventFields, EventType
  <2>4. /\ ~e.revoked /\ ~Throws(d) => e.support = choice
        /\ e.decision => /\ e.support = choice /\ ~Throws(d)
                         /\ \E V \in SUBSET Backers(d, choice) : Cardinality(V) >= F + 1
    BY <2>2, <2>e, <2>x, ExperimentTallies
  <2>5. /\ Sound(b, e) /\ ClosedCut(e.clock)
        /\ \A x \in Branch : \A g \in Merged(x) : g \in Merged(x)' /\ Event(x, g)' = Event(x, g)
        /\ top \in Merged(b)' /\ Event(b, top)' = e
        /\ \A x \in Branch : \A g \in Merged(x)' : g \in Merged(x) \/ (x = b /\ g = top)
        /\ top = Height(b) + 1 /\ \A x \in Branch : Height(x)' = IF x = b THEN top ELSE Height(x)
    <3>1. e.revoked => e.voters \cap Own(b) = {} /\ Seen(e.clock) \cap Own(b) # {} /\ e.support = {}
      BY <2>0, <2>2, <2>e, ExperimentFacts
    <3> QED BY <2>2, <2>3, <2>e, <3>1 DEF Sound
  <2>6. ASSUME NEW x \in Branch, NEW g \in Merged(x)'
        PROVE  \E k : /\ ClosedCut(k.clock) /\ Sound(x, k) /\ k = Event(x, g)'
                      /\ \/ /\ g \in Merged(x) /\ Event(x, g) = k
                         \/ /\ x = b /\ g = top /\ k = e
    <3>1. CASE g \in Merged(x)
      BY <2>0, <2>5, <3>1, OldCutClosed DEF IInv, IndexSound
    <3>2. CASE x = b /\ g = top
      BY <2>5, <3>2
    <3> QED BY <2>5, <3>1, <3>2
  <2>7. ASSUME NEW x \in Branch, NEW k, ClosedCut(k.clock), Sound(x, k)
        PROVE  /\ FPlusOneSupport(k)' = FPlusOneSupport(k)
               /\ \A y \in Branch : k.clock[y] > 0 => /\ Vote(k.clock, y)' = Vote(k.clock, y)
                                                      /\ k.clock[y] \in Merged(y)
    BY <2>0, <2>5, <2>7, ChoicesKept
  <2>8. HeightsRise'
    <3> SUFFICES ASSUME NEW x \in Branch, NEW g \in Merged(x)', NEW y \in Branch, NEW k,
                        k = Event(x, g)', k.clock[y] > 0
                 PROVE  Vote(k.clock, y)'.mergeHeight < k.mergeHeight
      BY DEF HeightsRise, Vote
    <3>1. Vote(k.clock, y)' = Vote(k.clock, y)
      BY <2>6, <2>7
    <3>2. CASE g \in Merged(x) /\ Event(x, g) = k
      BY <3>1, <3>2 DEF LockInv, HeightsRise
    <3>3. CASE k = e
      <4>1. HeadHeight(d.clock, y) < d.mergeHeight /\ HeadHeight(d.clock, y) = Vote(d.clock, y).mergeHeight
        BY <2>2, <2>3, <3>3 DEF HeadHeight
      <4> QED BY <2>3, <3>1, <3>3, <4>1
    <3> QED BY <2>6, <3>2, <3>3
  <2>10. DecisionEnds'
    <3> SUFFICES ASSUME NEW x \in Branch, NEW g \in Merged(x)', Event(x, g)'.decision
                 PROVE  g = Height(x)'
      BY DEF DecisionEnds
    <3>1. CASE g \in Merged(x)
      <4>1. g = Height(x) /\ Event(x, g).decision
        BY <2>5, <3>1 DEF LockInv, DecisionEnds
      <4>2. x # b
        BY <2>2, <2>3, <3>1, <4>1 DEF Ended, Decided, Merged
      <4> QED BY <2>5, <4>1, <4>2
    <3>2. CASE x = b /\ g = top
      BY <2>5, <3>2
    <3> QED BY <2>5, <3>1, <3>2
  <2>11. DecisionUnmerged'
    <3> SUFFICES ASSUME NEW x \in Branch, NEW g \in Merged(x)', NEW y \in Branch, NEW k,
                        k = Event(x, g)', k.clock[y] > 0
                 PROVE  ~Vote(k.clock, y)'.decision
      BY DEF DecisionUnmerged, Vote
    <3>1. Vote(k.clock, y)' = Vote(k.clock, y) /\ k.clock[y] \in Merged(y)
      BY <2>6, <2>7
    <3>2. CASE g \in Merged(x) /\ Event(x, g) = k
      BY <3>1, <3>2 DEF LockInv, DecisionUnmerged
    <3>3. CASE k = e
      <4>1. ~Vote(d.clock, y).decision
        <5>1. /\ d.clock[y] \in Merged(y) /\ Height(y) \in Nat /\ d.clock[y] <= Height(y)
              /\ y # b /\ Ended(y) => d.clock[y] < Height(y)
          BY <2>0, <2>3, <3>1, <3>3, ViewFacts
        <5>2. Vote(d.clock, y).decision => d.clock[y] = Height(y) /\ Ended(y)
          BY <5>1 DEF LockInv, DecisionEnds, Vote, Ended, Decided, Merged
        <5> QED BY <2>2, <5>1, <5>2 DEF Merged
      <4> QED BY <2>3, <3>1, <3>3, <4>1
    <3> QED BY <2>6, <3>2, <3>3
  <2>12. ChoiceFollowsCut'
    <3> SUFFICES ASSUME NEW x \in Branch, NEW g \in Merged(x)', NEW k, k = Event(x, g)'
                 PROVE  /\ ~k.revoked /\ FPlusOneSupport(k)' # {} => k.support = UNION FPlusOneSupport(k)'
                        /\ k.decision => /\ k.support \in FPlusOneSupport(k)'
                                         /\ k.support = UNION FPlusOneSupport(k)'
      BY DEF ChoiceFollowsCut, FPlusOneSupport, Tallied, Backers
    <3>1. FPlusOneSupport(k)' = FPlusOneSupport(k)
      BY <2>6, <2>7
    <3>2. CASE g \in Merged(x) /\ Event(x, g) = k
      BY <3>1, <3>2 DEF LockInv, ChoiceFollowsCut
    <3>3. CASE k = e
      <4>1. \A set : Backers(e, set) = Backers(d, set)
        BY <2>3 DEF Backers
      <4>2. FPlusOneSupport(e) = FPlusOneSupport(d)
        BY <2>3, <4>1 DEF FPlusOneSupport, Tallied
      <4>3. ~e.revoked /\ FPlusOneSupport(d) # {} => e.support = UNION FPlusOneSupport(d)
        BY <2>4, <2>x DEF ChooseSupport, Throws
      <4>4. ASSUME e.decision
            PROVE  e.support \in FPlusOneSupport(d) /\ e.support = UNION FPlusOneSupport(d)
        <5>1. PICK V \in SUBSET Backers(d, choice) : Cardinality(V) >= F + 1
          BY <2>4, <4>4
        <5>2. Backers(d, choice) \in SUBSET Branch
          BY <2>3 DEF Backers
        <5>3. Cardinality(Backers(d, choice)) >= F + 1
          <6>1. IsFiniteSet(Backers(d, choice)) /\ Cardinality(Backers(d, choice)) \in Nat
            BY <5>2, Numbers
          <6>2. Cardinality(V) <= Cardinality(Backers(d, choice)) /\ Cardinality(V) \in Nat
            BY <6>1, FS_Subset, FS_CardinalityType
          <6> QED BY <5>1, <6>1, <6>2, Numbers
        <5>4. choice \in FPlusOneSupport(d)
          BY <5>3, BackersTallied
        <5> QED BY <2>4, <2>x, <4>4, <5>4 DEF ChooseSupport
      <4> QED BY <3>1, <3>3, <4>2, <4>3, <4>4
    <3> QED BY <2>6, <3>2, <3>3
  <2>13. AllVote'
    <3> SUFFICES ASSUME NobodyForked', NEW x \in Branch, NEW g \in Merged(x)', NEW k,
                        k = Event(x, g)'
                 PROVE  k.voters = Seen(k.clock)
      BY DEF AllVote, Seen
    <3>1. \A y \in Branch : Height(y) > 0 => Height(y)' > 0
      BY <2>3, <2>5
    <3>2. NobodyForked
      BY <3>1 DEF NobodyForked
    <3>3. CASE g \in Merged(x) /\ Event(x, g) = k
      BY <3>2, <3>3 DEF LockInv, AllVote
    <3>4. CASE k = e
      <4>1. Height(b)' > 0
        BY <2>3, <2>5
      <4>2. \A y \in Branch : Creator[y] = Creator[b] /\ Height(y) > 0 => y = b
        BY <3>1, <4>1 DEF NobodyForked
      <4> QED BY <2>2, <2>3, <3>2, <3>4, <4>2, DraftSeesAll DEF LockInv
    <3> QED BY <2>6, <3>3, <3>4
  <2> QED BY <2>8, <2>10, <2>11, <2>12, <2>13 DEF LockInv
<1> QED BY <1>1, <1>2 DEF vars
-----------------------------------------------------------------------------
LEMMA NoneRevoked ==
  ASSUME IInv, AllVote, NobodyForked, NEW b \in Branch, NEW g \in Merged(b)
  PROVE  ~Event(b, g).revoked
BY DEF IInv, IndexSound, Sound, AllVote

LEMMA MoreBackers ==
  ASSUME NEW c, NEW k, NEW s, NEW t, k.voters \in SUBSET Branch,
         Backers(c, s) \subseteq Backers(k, t), Cardinality(Backers(c, s)) >= F + 1
  PROVE  Cardinality(Backers(k, t)) >= F + 1
<1>1. Backers(k, t) \in SUBSET Branch
  BY DEF Backers
<1>2. Backers(c, s) \in SUBSET Backers(k, t) /\ Backers(c, s) \in SUBSET Branch
  BY <1>1
<1>3. Cardinality(Backers(c, s)) <= Cardinality(Backers(k, t))
  BY <1>1, <1>2, Numbers, FS_Subset
<1>4. Cardinality(Backers(c, s)) \in Nat /\ Cardinality(Backers(k, t)) \in Nat
  BY <1>1, <1>2, Numbers
<1> QED BY <1>3, <1>4, Numbers

(* Events that know at least as much as a decision support its set: those   *)
(* of whom they know that were not known to the decision do so too, being   *)
(* lower, and the others support what they did.                             *)
LEMMA DecisionHeld ==
  ASSUME IInv, LockInv, NobodyForked, NEW d \in Decisions, KeptUpWith(d),
         NEW b \in Branch, NEW g \in Merged(b),
         \A x \in Branch : d.clock[x] <= Event(b, g).clock[x],
         \A y \in Branch : \A k \in Merged(y) :
           (/\ Event(y, k).mergeHeight < Event(b, g).mergeHeight
            /\ \A x \in Branch : d.clock[x] <= Event(y, k).clock[x])
             => Event(y, k).support = d.support
  PROVE  Event(b, g).support = d.support
<1>e. PICK e : e = Event(b, g)
  OBVIOUS
<1> DEFINE c == d.clock
           k == e.clock
<1>0. TypeOK /\ CausallyClosed /\ AllVote
  BY DEF IInv, LockInv
<1>1. PICK w \in Branch : Decided(w) /\ d = Event(w, Height(w)) /\ Height(w) \in Merged(w)
  BY <1>0, EventType DEF Decisions, Decided, Merged
<1>2. ClosedCut(c) /\ ClosedCut(k)
  BY <1>0, <1>1, <1>e, OldCutClosed
<1>3. d.support \in FPlusOneSupport(d) /\ d.support = UNION FPlusOneSupport(d)
  BY <1>1 DEF LockInv, ChoiceFollowsCut, Decided
<1>4. ASSUME NEW x \in Branch, k[x] > 0
      PROVE  \/ c[x] > 0 /\ Vote(k, x) = Vote(c, x)
             \/ Vote(k, x).support = d.support
  <2>1. c[x] \in Nat /\ k[x] \in Nat /\ c[x] <= k[x]
    BY <1>2, <1>e DEF ClosedCut
  <2>2. CASE c[x] = k[x]
    BY <1>4, <2>2 DEF Vote
  <2>3. CASE c[x] # k[x]
    <3>1. k[x] \in Merged(x) /\ Vote(k, x) = Event(x, k[x])
      BY <1>0, <1>2, <1>4, EventType DEF ClosedCut, Merged, Vote
    <3>2. ~Event(x, k[x]).decision
      BY <1>4, <1>e, <3>1 DEF LockInv, DecisionUnmerged
    <3>3. \A y \in Branch : c[y] <= Event(x, k[x]).clock[y]
      BY <2>1, <2>3, <3>1, <3>2 DEF KeptUpWith
    <3>4. Event(x, k[x]).mergeHeight < e.mergeHeight
      BY <1>4, <1>e, <3>1 DEF LockInv, HeightsRise
    <3> QED BY <1>e, <3>1, <3>3, <3>4
  <2> QED BY <2>2, <2>3
<1>5. /\ d.voters = Seen(c) /\ e.voters = Seen(k)
      /\ Seen(c) \subseteq Seen(k)
  <2>1. \A x \in Branch : c[x] \in Nat /\ k[x] \in Nat /\ c[x] <= k[x]
    BY <1>2, <1>e DEF ClosedCut
  <2>2. Seen(c) \subseteq Seen(k)
    BY <2>1 DEF Seen
  <2> QED BY <1>0, <1>1, <1>e, <2>2 DEF AllVote
<1>v. d.voters \in SUBSET Branch /\ e.voters \in SUBSET Branch
  BY <1>5 DEF Seen
<1> HIDE DEF c, k
<1>6. Backers(d, d.support) \subseteq Backers(e, d.support)
  <2> SUFFICES ASSUME NEW x \in Seen(c), Vote(c, x).support = d.support
               PROVE  Vote(k, x).support = d.support
    BY <1>5 DEF Backers, c, k
  <2> QED BY <1>4, <1>5 DEF Seen
<1>7. ASSUME NEW set, set # d.support PROVE Backers(e, set) \subseteq Backers(d, set)
  <2> SUFFICES ASSUME NEW x \in Seen(k), Vote(k, x).support = set
               PROVE  x \in Seen(c) /\ Vote(c, x).support = set
    BY <1>5 DEF Backers, c, k
  <2> QED BY <1>4, <1>7 DEF Seen
<1>8. d.support \in FPlusOneSupport(e)
  <2>1. Cardinality(Backers(d, d.support)) >= F + 1
    BY <1>3 DEF FPlusOneSupport, FPlusOne
  <2>2. Cardinality(Backers(e, d.support)) >= F + 1
    BY <1>6, <1>v, <2>1, MoreBackers
  <2> QED BY <2>2, BackersTallied
<1>9. FPlusOneSupport(e) \subseteq FPlusOneSupport(d)
  <2> SUFFICES ASSUME NEW set \in FPlusOneSupport(e), set # d.support
               PROVE  set \in FPlusOneSupport(d)
    BY <1>3
  <2>1. Cardinality(Backers(e, set)) >= F + 1
    BY DEF FPlusOneSupport, FPlusOne
  <2>2. Cardinality(Backers(d, set)) >= F + 1
    BY <1>7, <1>v, <2>1, MoreBackers
  <2> QED BY <2>2, BackersTallied
<1>10. UNION FPlusOneSupport(e) = d.support
  BY <1>3, <1>8, <1>9
<1>11. e.support = UNION FPlusOneSupport(e)
  BY <1>0, <1>8, <1>e, NoneRevoked DEF LockInv, ChoiceFollowsCut
<1> QED BY <1>10, <1>11, <1>e

(* By induction over the heights of events.                                 *)
LEMMA DecisionLocked ==
  ASSUME IInv, LockInv, NobodyForked, NEW d \in Decisions, KeptUpWith(d)
  PROVE  \A b \in Branch : \A g \in Merged(b) :
           (\A x \in Branch : d.clock[x] <= Event(b, g).clock[x])
             => Event(b, g).support = d.support
<1> DEFINE Knows(b, g) == \A x \in Branch : d.clock[x] <= Event(b, g).clock[x]
           Strays(b, g) == Knows(b, g) /\ Event(b, g).support # d.support
           strays == {n \in Nat : \E b \in Branch : \E g \in Merged(b) :
                                  Strays(b, g) /\ n = Event(b, g).mergeHeight}
<1>1. SUFFICES ASSUME strays # {} PROVE FALSE
  <2>1. ASSUME NEW b \in Branch, NEW g \in Merged(b), Strays(b, g)
        PROVE  Event(b, g).mergeHeight \in strays
    BY <2>1, EventType, MergeEventFields DEF IInv
  <2> QED BY <2>1
<1>2. PICK n \in strays : \A m \in strays : ~(m < n)
  <2>1. strays \subseteq Nat
    OBVIOUS
  <2> HIDE DEF strays
  <2>2. PICK n \in strays : \A m \in strays : <<m, n>> \notin OpToRel(<, Nat)
    BY <1>1, <2>1, NatLessThanWellFounded, WFMin
  <2>3. \A m \in strays : m \in Nat /\ n \in Nat /\ ~(m < n)
    BY <2>1, <2>2 DEF OpToRel
  <2> QED BY <2>3
<1>3. PICK b \in Branch : \E g \in Merged(b) : Strays(b, g) /\ n = Event(b, g).mergeHeight
  OBVIOUS
<1>4. PICK g \in Merged(b) : Strays(b, g) /\ n = Event(b, g).mergeHeight
  BY <1>3
<1>5. ASSUME NEW y \in Branch, NEW k \in Merged(y), Event(y, k).mergeHeight < n, Knows(y, k)
      PROVE  Event(y, k).support = d.support
  <2>1. Event(y, k).mergeHeight \in Nat
    BY EventType, MergeEventFields DEF IInv
  <2> QED BY <1>2, <1>5, <2>1
<1>6. Event(b, g).support = d.support
  BY <1>4, <1>5, DecisionHeld
<1> QED BY <1>4, <1>6

LEMMA LocksSound == Spec => [](IInv /\ LockInv)
BY InitIInv, StepIInv, InitLockInv, StepLockInv, PTL DEF Spec

(* Of two decisions one knows all that the other does: an event that only   *)
(* the one knows was made with the knowledge of the other.                  *)
LEMMA DecisionsCompare ==
  ASSUME IInv, LockInv, NEW d \in Decisions, KeptUpWith(d), NEW e \in Decisions
  PROVE  \/ \A x \in Branch : d.clock[x] <= e.clock[x]
         \/ \A x \in Branch : e.clock[x] <= d.clock[x]
<1>1. PICK v \in Branch : Height(v) \in Merged(v) /\ d = Event(v, Height(v))
  BY EventType DEF IInv, Decisions, Decided, Merged
<1>2. PICK w \in Branch : Height(w) \in Merged(w) /\ e = Event(w, Height(w))
  BY EventType DEF IInv, Decisions, Decided, Merged
<1> DEFINE c == d.clock
           k == e.clock
<1>3. ClosedCut(c) /\ ClosedCut(k)
  BY <1>1, <1>2, OldCutClosed DEF IInv
<1>4. \A x \in Branch : c[x] \in Nat /\ k[x] \in Nat
  BY <1>3 DEF ClosedCut
<1>5. ASSUME NEW y \in Branch, c[y] < k[y] PROVE \A x \in Branch : c[x] <= k[x]
  <2>1. k[y] > 0
    BY <1>4, <1>5
  <2>2. k[y] \in Merged(y) /\ Vote(k, y) = Event(y, k[y])
    BY <1>3, <2>1, EventType DEF ClosedCut, IInv, Merged, Vote
  <2>3. ~Event(y, k[y]).decision
    BY <1>2, <2>1, <2>2 DEF LockInv, DecisionUnmerged
  <2>4. \A x \in Branch : c[x] <= Event(y, k[y]).clock[x]
    BY <1>5, <2>2, <2>3 DEF KeptUpWith
  <2>5. \A x \in Branch : Event(y, k[y]).clock[x] <= k[x]
    BY <1>3, <2>1, <2>2 DEF ClosedCut, Seen
  <2>6. \A x \in Branch : Event(y, k[y]).clock[x] \in Nat
    BY <2>2, OldCutClosed DEF ClosedCut, IInv
  <2> QED BY <1>4, <2>4, <2>5, <2>6
<1>6. CASE \E y \in Branch : c[y] < k[y]
  BY <1>5, <1>6
<1>7. CASE \A y \in Branch : ~(c[y] < k[y])
  <2>1. \A y \in Branch : k[y] <= c[y]
    BY <1>4, <1>7
  <2> QED BY <2>1
<1> QED BY <1>6, <1>7
-----------------------------------------------------------------------------
(* Whenever nobody has forked and every event that a decision does not know *)
(* was made with the knowledge that the decision was made with, all that    *)
(* know as much as the decision support its set, and no other: whatever     *)
(* else their views lack, and whoever merges without waiting for others.    *)
THEOREM DecisionsLock ==
  Spec => [](NobodyForked /\ KeptUp => DecisionLocks)
<1>1. IInv /\ LockInv => (NobodyForked /\ KeptUp => DecisionLocks)
  BY DecisionLocked DEF DecisionLocks, KeptUp
<1> QED BY <1>1, LocksSound, PTL

(* Under the same conditions any two events at which consensus is reached   *)
(* report the same consensus set, and every node builds the same block.     *)
THEOREM KeepingUpAgrees ==
  Spec => [](NobodyForked /\ KeptUp => Agreement)
<1>1. ASSUME IInv, LockInv, NobodyForked, KeptUp PROVE Agreement
  <2> SUFFICES ASSUME NEW d \in Decisions, NEW e \in Decisions PROVE d.support = e.support
    BY DEF Agreement
  <2>1. PICK v \in Branch : Height(v) \in Merged(v) /\ d = Event(v, Height(v))
    BY <1>1, EventType DEF IInv, Decisions, Decided, Merged
  <2>2. PICK w \in Branch : Height(w) \in Merged(w) /\ e = Event(w, Height(w))
    BY <1>1, EventType DEF IInv, Decisions, Decided, Merged
  <2>3. KeptUpWith(d) /\ KeptUpWith(e)
    BY <1>1 DEF KeptUp
  <2>4. CASE \A x \in Branch : d.clock[x] <= e.clock[x]
    BY <1>1, <2>2, <2>3, <2>4, DecisionLocked
  <2>5. CASE \A x \in Branch : e.clock[x] <= d.clock[x]
    BY <1>1, <2>1, <2>3, <2>5, DecisionLocked
  <2> QED BY <1>1, <2>3, <2>4, <2>5, DecisionsCompare
<1> QED BY <1>1, LocksSound, PTL

(* The detailed algorithm then implements the choice of one consensus set.  *)
THEOREM KeepingUpChoosesOnce ==
  Spec /\ [](NobodyForked /\ KeptUp) => ChoosesOnce
BY KeepingUpAgrees, AgreementChooses, PTL
=============================================================================
