-------------------------- MODULE ContinuityProofs --------------------------
(***************************************************************************)
(* Theorems about the continuity algorithm, for any number of witnesses,   *)
(* any number of forks, any height and any lag.                            *)
(***************************************************************************)
EXTENDS Continuity, FiniteSetTheorems, TLAPS

(* What an event knows is closed under ancestry.                            *)
CausallyClosed ==
  \A b \in Branch : \A g \in Merged(b) : \A x \in Branch :
    LET c == Event(b, g).clock
    IN /\ c[x] <= Height(x)
       /\ c[x] > 0 => \A y \in Branch : Vote(c, x).clock[y] <= c[y]

(* The index of the event e of branch b has one branch of a witness at most,*)
(* no event that could not be evaluated and, of those whose support is      *)
(* `false', only the tree parent.  The support of e is `false' only when    *)
(* the index has, for its own witness, that it forked.                      *)
Sound(b, e) ==
  /\ e.voters \subseteq Seen(e.clock)
  /\ \A x, y \in e.voters : Creator[x] = Creator[y] => x = y
  /\ \A x \in e.voters : ~Vote(e.clock, x).failed
  /\ \A x \in e.voters : Vote(e.clock, x).revoked => x = b
  /\ e.revoked => /\ e.voters \cap Own(b) = {}
                  /\ Seen(e.clock) \cap Own(b) # {}
                  /\ e.support = {}

IndexSound == \A b \in Branch : \A g \in Merged(b) : Sound(b, Event(b, g))

(* An event that could not be evaluated is the last of its branch.          *)
FailureEnds ==
  \A b \in Branch : \A g \in Merged(b) : Event(b, g).failed => g = Height(b)

IInv == /\ TypeOK
        /\ CausallyClosed
        /\ IndexSound
        /\ FailureEnds
        /\ SupportInAncestry
        /\ ProposalHeld
-----------------------------------------------------------------------------
(* The events of a typed history are typed.                                 *)
LEMMA EventType ==
  ASSUME TypeOK, NEW b \in Branch
  PROVE  /\ Height(b) \in Nat
         /\ \A g \in Merged(b) : Event(b, g) \in MergeEvent
BY DEF TypeOK, Height, Merged, Event

LEMMA MergeEventFields ==
  ASSUME NEW e \in MergeEvent
  PROVE  /\ e.clock \in [Branch -> Nat]
         /\ e.mergeHeight \in Nat
         /\ e.voters \subseteq Branch
         /\ e.revoked \in BOOLEAN
         /\ e.failed \in BOOLEAN
         /\ e.support \subseteq Branch
         /\ e.proposal \in Nat
         /\ e.endorsers \subseteq Witness
         /\ e.endorsed \in BOOLEAN
         /\ e.decision \in BOOLEAN
BY DEF MergeEvent

(* The branches of a witness.                                               *)
LEMMA OwnBranches ==
  ASSUME NEW b \in Branch
  PROVE  Own(b) = {x \in Branch : Creator[x] = Creator[b]}
BY ContinuityAssumption DEF Own, BranchesOf

(* A view is a cut of the history closed under ancestry, which holds no     *)
(* event that ends its branch.                                              *)
LEMMA ViewFacts ==
  ASSUME TypeOK, NEW b \in Branch, NEW c \in Views(b)
  PROVE  /\ c \in [Branch -> Nat]
         /\ c[b] = Height(b)
         /\ \A x \in Branch : c[x] <= Height(x)
         /\ \A x \in Branch \ {b} : Ended(x) => c[x] < Height(x)
         /\ \A x \in Seen(c), y \in Branch : Vote(c, x).clock[y] <= c[y]
<1>1. PICK missed \in [Branch \ {b} -> 0 .. Lag] : c = View(b, missed)
  BY DEF Views
<1>2. /\ \A x \in Branch : Known(b)[x] <= c[x]
      /\ \A x \in Seen(c), y \in Branch : Vote(c, x).clock[y] <= c[y]
  BY DEF Views
<1>3. Known(b) \in [Branch -> Nat]
  <2>1. CASE Height(b) = 0
    BY <2>1 DEF Known
  <2>2. CASE Height(b) # 0
    <3>1. Height(b) \in Merged(b)
      BY <2>2, EventType DEF Merged
    <3> QED BY <2>2, <3>1, EventType, MergeEventFields DEF Known
  <2> QED BY <2>1, <2>2
<1>4. \A x \in Branch : /\ Height(x) \in Nat /\ Mergeable(x) \in Int
                        /\ Mergeable(x) <= Height(x)
                        /\ Ended(x) => Mergeable(x) < Height(x)
  BY DEF TypeOK, Height, Mergeable
<1>5. \A x \in Branch : /\ c[x] \in Int /\ c[x] <= Height(x)
                        /\ x # b /\ Ended(x) => c[x] < Height(x)
  BY <1>1, <1>4, ContinuityAssumption DEF View
<1>6. c = [x \in Branch |-> c[x]]
  BY <1>1 DEF View
<1>7. \A x \in Branch : c[x] \in Nat
  BY <1>2, <1>3, <1>5
<1>8. c[b] = Height(b)
  BY <1>1 DEF View
<1> QED BY <1>2, <1>5, <1>6, <1>7, <1>8

(* What a view shows of a branch is an event of the history.                *)
LEMMA VoteType ==
  ASSUME TypeOK, NEW c \in [Branch -> Nat], \A x \in Branch : c[x] <= Height(x),
         NEW x \in Seen(c)
  PROVE  x \in Branch /\ c[x] \in Merged(x) /\ Vote(c, x) \in MergeEvent
BY DEF TypeOK, Seen, Merged, Vote, Event, Height
-----------------------------------------------------------------------------
(* A merge event before the experiment.                                     *)
IsDraft(b, d) ==
  \E c \in Views(b) : \E parents \in Parents(b, c), h \in Nat :
    d = NewEvent(c, MostRecent(b, c, parents), h)

LEMMA DraftType ==
  ASSUME TypeOK, NEW b \in Branch, NEW d, IsDraft(b, d)
  PROVE  /\ d \in MergeEvent /\ d.clock \in Views(b) /\ d.voters \subseteq Seen(d.clock)
         /\ ~d.revoked /\ ~d.failed /\ d.support = {} /\ d.proposal = 0 /\ ~d.endorsed
         /\ ~d.decision /\ d.endorsers = {}
         /\ Height(b) > 0 => d.voters \cap Own(b) \subseteq {b}
<1>0. PICK c \in Views(b) : \E parents \in Parents(b, c), h \in Nat :
        d = NewEvent(c, MostRecent(b, c, parents), h)
  BY DEF IsDraft
<1>1. PICK parents \in Parents(b, c), h \in Nat : d = NewEvent(c, MostRecent(b, c, parents), h)
  BY <1>0
<1>2. c \in [Branch -> Nat]
  BY ViewFacts
<1>3. MostRecent(b, c, parents) \subseteq Seen(c) /\ Seen(c) \subseteq Branch
  BY DEF MostRecent, Seen
<1>4. Height(b) > 0 => MostRecent(b, c, parents) \cap Own(b) \subseteq {b}
  BY DEF MostRecent
<1> QED BY <1>1, <1>2, <1>3, <1>4 DEF NewEvent, MergeEvent

(* Whatever of another branch is in the index was merged as a parent, or is *)
(* what the index of a parent that knows just as much of the branch has.    *)
LEMMA IndexSource ==
  ASSUME TypeOK, NEW b \in Branch, NEW c \in Views(b), NEW parents \in Parents(b, c),
         NEW x \in MostRecent(b, c, parents), x # b
  PROVE  \/ x \in parents
         \/ \E y \in parents \cup (Seen(c) \cap {b}) :
              /\ Vote(c, y).clock[x] = c[x] /\ c[x] > 0
              /\ x \in Vote(c, y).voters
<1>1. /\ x \in Branch /\ c[x] > 0 /\ x \in Own(x)
      /\ \A y \in parents \cup (Seen(c) \cap {b}) : Agrees(Vote(c, y), x)
  BY OwnBranches DEF MostRecent, Seen
<1>2. \/ c[x] = Known(b)[x]
      \/ x \in parents
      \/ \E y \in parents : Vote(c, y).clock[x] = c[x]
  BY <1>1 DEF Parents
<1>3. CASE c[x] = Known(b)[x]
  <2>1. Height(b) # 0
    BY <1>1, <1>3 DEF Known
  <2>2. b \in Seen(c) /\ Known(b) = Vote(c, b).clock
    BY <2>1, ViewFacts, EventType DEF Known, Vote, Seen
  <2>3. Agrees(Vote(c, b), x) /\ Vote(c, b).clock[x] = c[x]
    BY <1>1, <1>3, <2>2
  <2> QED BY <1>1, <2>2, <2>3 DEF Agrees
<1>4. CASE \E y \in parents : Vote(c, y).clock[x] = c[x]
  BY <1>1, <1>4 DEF Agrees
<1> QED BY <1>2, <1>3, <1>4

(* Every branch that votes for the new event is the only one of its witness *)
(* there, its vote was evaluated, and only the tree parent's may be         *)
(* `false'.                                                                 *)
LEMMA DraftIndex ==
  ASSUME IInv, NEW b \in Branch, ~Ended(b), NEW d, IsDraft(b, d)
  PROVE  Sound(b, d)
<1>0. PICK c \in Views(b) : \E parents \in Parents(b, c), h \in Nat :
        d = NewEvent(c, MostRecent(b, c, parents), h)
  BY DEF IsDraft
<1>1. PICK parents \in Parents(b, c), h \in Nat : d = NewEvent(c, MostRecent(b, c, parents), h)
  BY <1>0
<1>2. d.clock = c /\ d.voters = MostRecent(b, c, parents) /\ TypeOK
  BY <1>1 DEF NewEvent, IInv
<1> DEFINE V == MostRecent(b, c, parents)
           S == parents \cup (Seen(c) \cap {b})
<1>3. ASSUME NEW x \in Seen(c)
      PROVE  /\ x \in Branch /\ c[x] \in Merged(x) /\ c[x] > 0 /\ c[x] \in Nat
             /\ Vote(c, x) = Event(x, c[x])
             /\ Vote(c, x) \in MergeEvent
  BY <1>2, ViewFacts, VoteType DEF Vote, Seen
<1>4. S \subseteq Seen(c) /\ V \subseteq Seen(c) /\ b \notin parents
  BY OwnBranches DEF Parents, MostRecent
<1>5. ASSUME NEW x \in V, NEW z \in V, Creator[x] = Creator[z], x # z
      PROVE  FALSE
  <2>1. x \in Own(z) /\ z \in Own(x) /\ x \in Branch /\ z \in Branch
    BY <1>3, <1>4, <1>5, OwnBranches
  <2>2. x # b /\ z # b
    <3>1. x = b \/ z = b => Height(b) > 0 /\ x \in Own(b) /\ z \in Own(b)
      BY <1>3, <1>4, <2>1, <1>2, ViewFacts, OwnBranches
    <3> QED BY <1>5, <3>1 DEF MostRecent
  <2>3. x \notin parents
    BY <1>5 DEF MostRecent
  <2>4. PICK y \in S : Vote(c, y).clock[x] = c[x] /\ c[x] > 0 /\ x \in Vote(c, y).voters
    BY <1>2, <2>2, <2>3, IndexSource
  <2>5. Agrees(Vote(c, y), z)
    BY <2>2 DEF MostRecent
  <2>6. z \in Vote(c, y).voters
    BY <2>1, <2>4, <2>5 DEF Agrees
  <2> QED BY <1>3, <1>4, <1>5, <2>4, <2>6 DEF IInv, IndexSound, Sound
<1>6. ASSUME NEW x \in V PROVE ~Vote(c, x).failed
  <2>1. Vote(c, x).failed => c[x] = Height(x)
    BY <1>3, <1>4 DEF IInv, FailureEnds
  <2>2. Vote(c, x).failed => Ended(x)
    BY <1>3, <1>4, <2>1 DEF Ended, Failed
  <2>3. CASE x = b
    BY <2>2, <2>3
  <2>4. CASE x # b
    BY <1>2, <1>3, <1>4, <2>1, <2>2, <2>4, ViewFacts
  <2> QED BY <2>3, <2>4
<1>7. ASSUME NEW x \in V, Vote(c, x).revoked, x # b PROVE FALSE
  <2>1. x \in Branch /\ x \in Seen(c) /\ x \in Own(x)
    BY <1>3, <1>4, OwnBranches
  <2>2. /\ Vote(c, x).voters \cap Own(x) = {}
        /\ Seen(Vote(c, x).clock) \cap Own(x) # {}
    BY <1>3, <1>7, <2>1 DEF IInv, IndexSound, Sound
  <2>3. x \notin S
    <3>1. x \in S => Agrees(Vote(c, x), x)
      BY <1>7 DEF MostRecent
    <3>2. \E y \in Own(x) : Vote(c, x).clock[y] > 0
      BY <2>2 DEF Seen
    <3>3. \A y \in Own(x) : Vote(c, x).clock[y] \in Nat
      BY <1>3, <2>1, MergeEventFields, OwnBranches
    <3> QED BY <2>1, <2>2, <3>1, <3>2, <3>3 DEF Agrees
  <2>4. PICK y \in S : Vote(c, y).clock[x] = c[x] /\ c[x] > 0 /\ x \in Vote(c, y).voters
    BY <1>2, <1>7, <2>3, IndexSource
  <2>5. Vote(Vote(c, y).clock, x).revoked
    BY <1>7, <2>4 DEF Vote
  <2>6. x = y
    BY <1>3, <1>4, <2>4, <2>5 DEF IInv, IndexSound, Sound, Vote
  <2> QED BY <2>3, <2>6
<1> HIDE DEF V
<1>8. V \subseteq Seen(c) /\ ~d.revoked
  BY <1>2, DraftType, <1>4
<1> QED BY <1>2, <1>5, <1>6, <1>7, <1>8 DEF V, Sound

(* A merge event supports only y events it knows, and its own.              *)
LEMMA ChoiceKnown ==
  ASSUME TypeOK, NEW b \in Branch, NEW d, IsDraft(b, d), SupportInAncestry
  PROVE  ChooseSupport(b, d) \subseteq Seen(d.clock) \cup {b}
<1> DEFINE c == d.clock
<1>0. c \in Views(b) /\ d.voters \subseteq Seen(c)
  BY DraftType
<1>1. \A set \in Tallied(d) : set \subseteq Seen(c)
  <2> SUFFICES ASSUME NEW x \in d.voters
               PROVE  Vote(c, x).support \subseteq Seen(c)
    BY DEF Tallied
  <2>1. x \in Seen(c)
    BY <1>0
  <2>2. x \in Branch /\ c[x] \in Merged(x) /\ Vote(c, x) \in MergeEvent
    BY <1>0, <2>1, ViewFacts, VoteType
  <2>3. Vote(c, x).support \subseteq Seen(Vote(c, x).clock) \cup {x}
    BY <2>2 DEF SupportInAncestry, Vote
  <2>4. Seen(Vote(c, x).clock) \subseteq Seen(c)
    <3> SUFFICES ASSUME NEW y \in Branch, Vote(c, x).clock[y] > 0
                 PROVE  c[y] > 0
      BY DEF Seen
    <3>1. Vote(c, x).clock[y] <= c[y]
      BY <1>0, <2>1, ViewFacts
    <3>2. c[y] \in Nat /\ Vote(c, x).clock[y] \in Nat
      BY <1>0, <2>2, ViewFacts, MergeEventFields
    <3> QED BY <3>1, <3>2
  <2> QED BY <2>1, <2>3, <2>4
<1>2. FPlusOneSupport(d) \subseteq Tallied(d)
  BY DEF FPlusOneSupport
<1> QED BY <1>1, <1>2 DEF ChooseSupport

LEMMA ChoiceType ==
  ASSUME TypeOK, NEW b \in Branch, NEW d, IsDraft(b, d)
  PROVE  ChooseSupport(b, d) \subseteq Branch
<1>1. \A set \in Tallied(d) : set \subseteq Branch
  <2> SUFFICES ASSUME NEW x \in d.voters
               PROVE  Vote(d.clock, x).support \subseteq Branch
    BY DEF Tallied
  <2>1. x \in Seen(d.clock) /\ d.clock \in Views(b)
    BY DraftType
  <2> QED BY <2>1, ViewFacts, VoteType, MergeEventFields
<1>2. FPlusOneSupport(d) \subseteq Tallied(d)
  BY DEF FPlusOneSupport
<1> QED BY <1>1, <1>2 DEF ChooseSupport

(* What _experiment makes of a merge event.                                 *)
LEMMA ExperimentFacts ==
  ASSUME TypeOK, NEW b \in Branch, NEW d, IsDraft(b, d)
  PROVE  LET e == Experiment(b, d)
         IN /\ e \in MergeEvent
            /\ e.clock = d.clock
            /\ e.voters = d.voters
            /\ e.mergeHeight = d.mergeHeight
            /\ e.revoked => /\ d.voters \cap Own(b) = {}
                            /\ Seen(d.clock) \cap Own(b) # {}
                            /\ e.support = {}
            /\ e.support \subseteq ChooseSupport(b, d)
            /\ \/ e.proposal = 0
               \/ e.proposal = Height(b) + 1
               \/ /\ Height(b) > 0
                  /\ e.proposal = Event(b, Height(b)).proposal
                  /\ e.proposal > 0
                  /\ Event(b, e.proposal).support = e.support
<1> DEFINE gen == Height(b) + 1
           previous == Event(b, gen - 1)
           choice == ChooseSupport(b, d)
           event == [d EXCEPT !.support = choice]
<1>1. /\ Height(b) \in Nat
      /\ gen > 1 => previous \in MergeEvent
  BY EventType DEF Merged
<1>2. choice \in SUBSET Branch
  BY ChoiceType
<1>3. /\ d \in MergeEvent /\ ~d.revoked /\ d.support = {} /\ d.proposal = 0
  BY DraftType
<1> HIDE DEF choice
<1>4. /\ event \in MergeEvent /\ event.clock = d.clock /\ event.voters = d.voters
      /\ event.mergeHeight = d.mergeHeight
      /\ event.support = choice /\ event.proposal = 0 /\ ~event.revoked
  BY <1>2, <1>3 DEF MergeEvent
<1> USE DEF choice
<1> DEFINE own == d.voters \cap Own(b)
           forked == own = {} /\ Seen(d.clock) \cap Own(b) # {}
           kept == Keeps(b, choice)
           endorsers == IF previous.endorsed THEN previous.endorsers
                        ELSE previous.endorsers \cup Endorsers(b, previous.proposal, d)
           endorses == /\ kept
                       /\ ~previous.endorsed
                       /\ Cardinality(endorsers) >= Supermajority
           result == Experiment(b, d)
           revoked == [d EXCEPT !.revoked = TRUE]
           fails == [d EXCEPT !.failed = TRUE]
           decides == [event EXCEPT !.decision = TRUE]
           keeps == [event EXCEPT !.proposal = previous.proposal,
                                  !.endorsers = endorsers,
                                  !.endorsed = previous.endorsed \/ endorses]
           proposes == [event EXCEPT !.proposal = gen, !.endorsers = {Creator[b]}]
<1>5. \/ result = revoked /\ forked
      \/ result = fails
      \/ result = decides
      \/ result = keeps /\ kept
      \/ result = proposes
      \/ result = event
  BY Zenon DEF Experiment
<1>6. CASE result = revoked /\ forked
  <2>1. /\ revoked \in MergeEvent /\ revoked.clock = d.clock /\ revoked.voters = d.voters
        /\ revoked.mergeHeight = d.mergeHeight /\ revoked.support = {}
        /\ revoked.proposal = 0
    BY <1>3 DEF MergeEvent
  <2> QED BY <1>6, <2>1
<1>7. CASE result = fails
  <2>1. /\ fails \in MergeEvent /\ fails.clock = d.clock /\ fails.voters = d.voters
        /\ fails.mergeHeight = d.mergeHeight /\ fails.support = {} /\ fails.proposal = 0
        /\ ~fails.revoked
    BY <1>3 DEF MergeEvent
  <2> QED BY <1>7, <2>1
<1> HIDE DEF event
<1>8. CASE result = decides
  <2>1. /\ decides \in MergeEvent /\ decides.clock = d.clock /\ decides.voters = d.voters
        /\ decides.mergeHeight = d.mergeHeight /\ decides.support = choice
        /\ decides.proposal = 0 /\ ~decides.revoked
    BY <1>4 DEF MergeEvent
  <2> QED BY <1>8, <2>1
<1>9. CASE result = keeps /\ kept
  <2>1. /\ Height(b) > 0 /\ previous \in MergeEvent
        /\ previous.proposal > 0
        /\ Event(b, previous.proposal).support = choice
    <3>1. gen - 1 = Height(b)
      BY <1>1
    <3> QED BY <1>1, <1>9, <3>1 DEF Keeps
  <2>2. /\ previous.proposal \in Nat
        /\ previous.endorsers \subseteq Witness
        /\ previous.endorsed \in BOOLEAN
    BY <2>1, MergeEventFields
  <2>3. Endorsers(b, previous.proposal, d) \subseteq Witness
    <3>1. d.voters \subseteq Branch
      BY <1>3, MergeEventFields
    <3> QED BY <3>1, ContinuityAssumption DEF Endorsers
  <2>4. endorsers \subseteq Witness
    BY <2>2, <2>3
  <2>5. (previous.endorsed \/ endorses) \in BOOLEAN
    OBVIOUS
  <2> HIDE DEF endorsers, endorses, previous
  <2>6. keeps \in MergeEvent
    BY <1>4, <2>2, <2>4, <2>5 DEF MergeEvent
  <2>7. /\ keeps.clock = d.clock
        /\ keeps.voters = d.voters
        /\ keeps.mergeHeight = d.mergeHeight
        /\ keeps.support = choice
        /\ keeps.proposal = previous.proposal
        /\ ~keeps.revoked
    BY <1>4 DEF MergeEvent
  <2> USE DEF previous
  <2>8. gen - 1 = Height(b)
    BY <1>1
  <2> QED BY <1>9, <2>1, <2>6, <2>7, <2>8
<1>10. CASE result = proposes
  <2>1. gen \in Nat /\ Creator[b] \in Witness
    BY <1>1, ContinuityAssumption
  <2> HIDE DEF gen
  <2>2. proposes \in MergeEvent
    BY <1>4, <2>1 DEF MergeEvent
  <2>3. /\ proposes.clock = d.clock
        /\ proposes.voters = d.voters
        /\ proposes.mergeHeight = d.mergeHeight
        /\ proposes.support = choice
        /\ proposes.proposal = gen
        /\ ~proposes.revoked
    BY <1>4 DEF MergeEvent
  <2> QED BY <1>10, <2>2, <2>3 DEF gen
<1>11. CASE result = event
  BY <1>4, <1>11
<1> QED BY <1>5, <1>6, <1>7, <1>8, <1>9, <1>10, <1>11
-----------------------------------------------------------------------------
(* The effect of a merge: one branch gains one event, nothing else changes. *)
Gains(b, e) == dag' = [dag EXCEPT ![b] = Append(@, e)]

LEMMA StepGains ==
  ASSUME TypeOK, Next
  PROVE  \E b \in Branch :
           /\ ~Ended(b)
           /\ \E d : /\ IsDraft(b, d)
                     /\ Gains(b, Experiment(b, d))
                     /\ \A x \in Branch : HeadHeight(d.clock, x) < d.mergeHeight
<1>0. PICK b \in Branch : \E c \in Views(b) : MergeEmpty(b, c) \/ MergeLocal(b, c)
  BY DEF Next
<1>1. PICK c \in Views(b) : MergeEmpty(b, c) \/ MergeLocal(b, c)
  BY <1>0
<1>2. PICK choices \in SUBSET Parents(b, c) : Extend(b, c, choices)
  <2>1. EmptyParents(b, c) \in SUBSET Parents(b, c)
    BY DEF EmptyParents
  <2>2. Parents(b, c) \in SUBSET Parents(b, c)
    OBVIOUS
  <2>3. Extend(b, c, EmptyParents(b, c)) \/ Extend(b, c, Parents(b, c))
    BY <1>1 DEF MergeEmpty, MergeLocal
  <2> QED BY <2>1, <2>2, <2>3
<1>3. PICK parents \in choices, x \in Branch :
        /\ \A y \in Branch : HeadHeight(c, y) <= HeadHeight(c, x)
        /\ Gains(b, Experiment(b, NewEvent(c, MostRecent(b, c, parents), HeadHeight(c, x) + 1)))
  BY <1>2 DEF Extend, Gains
<1>4. ASSUME NEW y \in Branch PROVE HeadHeight(c, y) \in Nat
  <2>1. CASE c[y] = 0
    BY <2>1, ContinuityAssumption DEF HeadHeight
  <2>2. CASE c[y] # 0
    <3>1. y \in Seen(c)
      BY <2>2, ViewFacts DEF Seen
    <3>2. Vote(c, y) \in MergeEvent
      BY <3>1, ViewFacts, VoteType
    <3> QED BY <2>2, <3>2, MergeEventFields DEF HeadHeight
  <2> QED BY <2>1, <2>2
<1>5. ~Ended(b)
  BY <1>1 DEF MergeEmpty, MergeLocal, CanMerge
<1> DEFINE h == HeadHeight(c, x) + 1
           d == NewEvent(c, MostRecent(b, c, parents), h)
<1>6. h \in Nat /\ \A y \in Branch : HeadHeight(c, y) < h
  BY <1>3, <1>4
<1>7. Gains(b, Experiment(b, d))
  BY <1>3
<1> HIDE DEF h
<1>8. IsDraft(b, d)
  BY <1>2, <1>3, <1>6 DEF IsDraft
<1>9. d.clock = c /\ d.mergeHeight = h
  BY DEF NewEvent
<1>10. \A y \in Branch : HeadHeight(d.clock, y) < d.mergeHeight
  BY <1>6, <1>9
<1> HIDE DEF d
<1> QED BY <1>5, <1>7, <1>8, <1>10

LEMMA GainFacts ==
  ASSUME TypeOK, NEW b \in Branch, NEW e \in MergeEvent, Gains(b, e)
  PROVE  /\ dag' \in [Branch -> Seq(MergeEvent)]
         /\ \A x \in Branch : Height(x)' = IF x = b THEN Height(x) + 1 ELSE Height(x)
         /\ \A x \in Branch : \A g \in Merged(x) : Event(x, g)' = Event(x, g)
         /\ Event(b, Height(b))' = e
<1>1. dag[b] \in Seq(MergeEvent) /\ Append(dag[b], e) \in Seq(MergeEvent)
  BY DEF TypeOK
<1>2. /\ Len(Append(dag[b], e)) = Len(dag[b]) + 1
      /\ \A g \in 1 .. Len(dag[b]) : Append(dag[b], e)[g] = dag[b][g]
      /\ Append(dag[b], e)[Len(dag[b]) + 1] = e
  BY <1>1
<1>3. \A x \in Branch : dag'[x] = IF x = b THEN Append(dag[b], e) ELSE dag[x]
  BY DEF Gains, TypeOK
<1>4. dag' \in [Branch -> Seq(MergeEvent)]
  BY <1>1 DEF Gains, TypeOK
<1>5. \A x \in Branch : Height(x)' = IF x = b THEN Height(x) + 1 ELSE Height(x)
  BY <1>2, <1>3 DEF Height
<1>6. \A x \in Branch : \A g \in Merged(x) : Event(x, g)' = Event(x, g)
  <2> SUFFICES ASSUME NEW x \in Branch, NEW g \in 1 .. Len(dag[x])
               PROVE  dag'[x][g] = dag[x][g]
    BY DEF Merged, Event, Height
  <2>1. CASE x = b
    BY <1>2, <1>3, <2>1
  <2>2. CASE x # b
    BY <1>3, <2>2
  <2> QED BY <2>1, <2>2
<1>7. Event(b, Height(b))' = e
  <2>1. dag'[b][Len(dag[b]) + 1] = e
    BY <1>2, <1>3
  <2> QED BY <1>5, <2>1 DEF Height, Event
<1> QED BY <1>4, <1>5, <1>6, <1>7
-----------------------------------------------------------------------------
(* What an event with the cut c tells of its ancestors does not change.     *)
ClosedCut(c) ==
  /\ c \in [Branch -> Nat]
  /\ \A x \in Branch : c[x] <= Height(x)
  /\ \A x \in Seen(c), y \in Branch : Vote(c, x).clock[y] <= c[y]

LEMMA OldCutClosed ==
  ASSUME TypeOK, CausallyClosed, NEW b \in Branch, NEW g \in Merged(b)
  PROVE  ClosedCut(Event(b, g).clock)
BY EventType, MergeEventFields DEF CausallyClosed, ClosedCut, Seen

(* A merge leaves all events but the new one as they are.                   *)
LEMMA MergeFacts ==
  ASSUME TypeOK, Next
  PROVE  \E b \in Branch : \E top \in Nat : \E d :
           LET e == Experiment(b, d)
           IN /\ ~Ended(b) /\ IsDraft(b, d)
              /\ \A x \in Branch : HeadHeight(d.clock, x) < d.mergeHeight
              /\ top = Height(b) + 1
              /\ ClosedCut(d.clock) /\ \A x \in Branch : Known(b)[x] <= d.clock[x]
              /\ dag' \in [Branch -> Seq(MergeEvent)]
              /\ \A x \in Branch : Height(x)' = IF x = b THEN top ELSE Height(x)
              /\ \A x \in Branch : \A g \in Merged(x) :
                   g \in Merged(x)' /\ Event(x, g)' = Event(x, g)
              /\ top \in Merged(b)' /\ Event(b, top)' = e
              /\ \A x \in Branch : \A g \in Merged(x)' : g \in Merged(x) \/ (x = b /\ g = top)
<1>1. PICK b \in Branch :
        /\ ~Ended(b)
        /\ \E d : /\ IsDraft(b, d)
                  /\ Gains(b, Experiment(b, d))
                  /\ \A x \in Branch : HeadHeight(d.clock, x) < d.mergeHeight
  BY StepGains
<1>2. PICK d : /\ IsDraft(b, d)
               /\ Gains(b, Experiment(b, d))
               /\ \A x \in Branch : HeadHeight(d.clock, x) < d.mergeHeight
  BY <1>1
<1>3. PICK top : top = Height(b) + 1
  OBVIOUS
<1> DEFINE e == Experiment(b, d)
<1>4. e \in MergeEvent
  BY <1>2, ExperimentFacts
<1>5. /\ \A x \in Branch : Height(x)' = IF x = b THEN Height(x) + 1 ELSE Height(x)
      /\ \A x \in Branch : \A g \in Merged(x) : Event(x, g)' = Event(x, g)
      /\ Event(b, Height(b))' = e
      /\ dag' \in [Branch -> Seq(MergeEvent)]
  <2> HIDE DEF e
  <2> QED BY <1>2, <1>4, GainFacts DEF e
<1>6. \A x \in Branch : Height(x) \in Nat
  BY EventType
<1>7. ClosedCut(d.clock) /\ \A x \in Branch : Known(b)[x] <= d.clock[x]
  <2>1. d.clock \in Views(b)
    BY <1>2, DraftType
  <2>2. ClosedCut(d.clock)
    BY <2>1, ViewFacts DEF ClosedCut
  <2> QED BY <2>1, <2>2 DEF Views
<1>8. Event(b, top)' = e /\ top \in Merged(b)'
  <2>1. top = Height(b)'
    BY <1>3, <1>5
  <2>2. Event(b, top)' = Event(b, Height(b))'
    BY <2>1 DEF Event
  <2> QED BY <1>5, <1>6, <2>1, <2>2 DEF Merged
<1>9. \A x \in Branch : \A g \in Merged(x) : g \in Merged(x)'
  BY <1>5, <1>6 DEF Merged
<1>10. \A x \in Branch : \A g \in Merged(x)' : g \in Merged(x) \/ (x = b /\ g = top)
  BY <1>3, <1>5, <1>6 DEF Merged
<1>11. top \in Nat /\ \A x \in Branch : Height(x)' = IF x = b THEN top ELSE Height(x)
  BY <1>3, <1>5, <1>6
<1> HIDE DEF e
<1>12. /\ ClosedCut(d.clock) /\ \A x \in Branch : Known(b)[x] <= d.clock[x]
       /\ dag' \in [Branch -> Seq(MergeEvent)]
       /\ \A x \in Branch : Height(x)' = IF x = b THEN top ELSE Height(x)
       /\ \A x \in Branch : \A g \in Merged(x) :
            g \in Merged(x)' /\ Event(x, g)' = Event(x, g)
       /\ top \in Merged(b)' /\ Event(b, top)' = e
       /\ \A x \in Branch : \A g \in Merged(x)' : g \in Merged(x) \/ (x = b /\ g = top)
  BY <1>5, <1>7, <1>8, <1>9, <1>10, <1>11
<1> QED BY <1>1, <1>2, <1>3, <1>11, <1>12 DEF e

(* What the index of an event shows does not change.                        *)
LEMMA SoundKept ==
  ASSUME TypeOK, NEW x \in Branch, NEW k, ClosedCut(k.clock), Sound(x, k),
         \A y \in Branch : \A g \in Merged(y) : Event(y, g)' = Event(y, g)
  PROVE  Sound(x, k)'
<1>1. \A y \in Seen(k.clock) : dag'[y][k.clock[y]] = dag[y][k.clock[y]]
  BY EventType DEF ClosedCut, Merged, Event, Seen
<1> QED BY <1>1 DEF Sound, Vote, Event, Seen
-----------------------------------------------------------------------------
(* The history is well formed, and its ancestry closed, at every step.      *)
LEMMA InitIInv == Init => IInv
<1> SUFFICES ASSUME Init PROVE IInv
  OBVIOUS
<1>1. \A b \in Branch : dag[b] = << >> /\ Merged(b) = {}
  BY DEF Init, Merged, Height
<1>2. TypeOK
  BY DEF Init, TypeOK
<1> QED BY <1>1, <1>2
      DEF IInv, CausallyClosed, IndexSound, FailureEnds, SupportInAncestry, ProposalHeld

LEMMA StepIInv ==
  ASSUME IInv, [Next]_vars
  PROVE  IInv'
<1>1. CASE UNCHANGED vars
  <2>1. dag' = dag /\ contributed' = contributed
    BY <1>1 DEF vars
  <2>2. (TypeOK /\ CausallyClosed /\ FailureEnds /\ SupportInAncestry /\ ProposalHeld)'
    BY <2>1 DEF IInv, TypeOK, CausallyClosed, FailureEnds, SupportInAncestry, ProposalHeld,
                Merged, Height, Event, Vote, Seen
  <2>3. IndexSound'
    BY <2>1 DEF IInv, IndexSound, Sound, Merged, Height, Event, Vote, Seen
  <2> QED BY <2>2, <2>3 DEF IInv
<1>2. CASE Next
  <2>1. TypeOK
    BY DEF IInv
  <2>2. PICK b \in Branch : \E top \in Nat : \E d :
           LET e == Experiment(b, d)
           IN /\ ~Ended(b) /\ IsDraft(b, d)
              /\ top = Height(b) + 1
              /\ ClosedCut(d.clock)
              /\ dag' \in [Branch -> Seq(MergeEvent)]
              /\ \A x \in Branch : Height(x)' = IF x = b THEN top ELSE Height(x)
              /\ \A x \in Branch : \A g \in Merged(x) :
                   g \in Merged(x)' /\ Event(x, g)' = Event(x, g)
              /\ top \in Merged(b)' /\ Event(b, top)' = e
              /\ \A x \in Branch : \A g \in Merged(x)' : g \in Merged(x) \/ (x = b /\ g = top)
    BY <1>2, <2>1, MergeFacts
  <2>3. PICK top, d :
           LET e == Experiment(b, d)
           IN /\ top \in Nat
              /\ ~Ended(b) /\ IsDraft(b, d)
              /\ top = Height(b) + 1
              /\ ClosedCut(d.clock)
              /\ dag' \in [Branch -> Seq(MergeEvent)]
              /\ \A x \in Branch : Height(x)' = IF x = b THEN top ELSE Height(x)
              /\ \A x \in Branch : \A g \in Merged(x) :
                   g \in Merged(x)' /\ Event(x, g)' = Event(x, g)
              /\ top \in Merged(b)' /\ Event(b, top)' = e
              /\ \A x \in Branch : \A g \in Merged(x)' : g \in Merged(x) \/ (x = b /\ g = top)
    BY <2>2
  <2> top \in Nat
    BY <2>3
  <2>e. PICK e : e = Experiment(b, d)
    OBVIOUS
  <2>c. PICK c : c = d.clock
    OBVIOUS
  <2>4. /\ e \in MergeEvent
        /\ e.clock = c
        /\ e.voters = d.voters
        /\ e.revoked => /\ d.voters \cap Own(b) = {}
                        /\ Seen(c) \cap Own(b) # {}
                        /\ e.support = {}
        /\ e.support \subseteq Seen(c) \cup {b}
        /\ \/ e.proposal = 0
           \/ e.proposal = top
           \/ /\ Height(b) > 0
              /\ e.proposal = Event(b, Height(b)).proposal
              /\ e.proposal > 0
              /\ Event(b, e.proposal).support = e.support
    BY <2>1, <2>3, <2>e, <2>c, ExperimentFacts, ChoiceKnown DEF IInv
  <2>5. /\ dag' \in [Branch -> Seq(MergeEvent)]
        /\ \A x \in Branch : Height(x)' = IF x = b THEN top ELSE Height(x)
        /\ \A x \in Branch : \A g \in Merged(x) : Event(x, g)' = Event(x, g)
        /\ top = Height(b) + 1
        /\ ~Ended(b)
    BY <2>3
  <2>6. TypeOK'
    <3>1. contributed' \subseteq Contributor
      BY <1>2, <2>1 DEF Next, MergeEmpty, MergeLocal, CanContribute, TypeOK
    <3> QED BY <2>5, <3>1 DEF TypeOK
  <2>7. ASSUME NEW x \in Branch, NEW g \in Merged(x)'
        PROVE  \/ g \in Merged(x) /\ Event(x, g)' = Event(x, g)
               \/ x = b /\ g = top /\ Event(x, g)' = e
    BY <2>3, <2>e
  <2>8. /\ c \in [Branch -> Nat]
        /\ \A x \in Branch : c[x] <= Height(x)
        /\ \A x \in Seen(c), y \in Branch : Vote(c, x).clock[y] <= c[y]
    BY <2>3, <2>c DEF ClosedCut
  <2>9. CausallyClosed'
    <3>1. ASSUME NEW x \in Branch, NEW g \in Merged(x)'
          PROVE  \E k \in [Branch -> Nat] :
                   /\ Event(x, g)'.clock = k
                   /\ \A y \in Branch : k[y] <= Height(y)
                   /\ \A y \in Branch : k[y] > 0 => \A z \in Branch : Vote(k, y).clock[z] <= k[z]
      <4>1. CASE g \in Merged(x) /\ Event(x, g)' = Event(x, g)
        <5>1. Event(x, g).clock \in [Branch -> Nat]
          BY <2>1, <4>1, EventType, MergeEventFields
        <5> WITNESS Event(x, g).clock \in [Branch -> Nat]
        <5> QED BY <4>1 DEF IInv, CausallyClosed
      <4>2. CASE x = b /\ g = top /\ Event(x, g)' = e
        <5>1. c \in [Branch -> Nat]
          BY <2>8
        <5> WITNESS c \in [Branch -> Nat]
        <5> QED BY <2>4, <2>8, <4>2 DEF Seen
      <4> QED BY <2>7, <4>1, <4>2
    <3> SUFFICES ASSUME NEW x \in Branch, NEW g \in Merged(x)', NEW y \in Branch
                 PROVE  /\ dag'[x][g].clock[y] <= Height(y)'
                        /\ dag'[x][g].clock[y] > 0 =>
                             \A z \in Branch : dag'[y][dag'[x][g].clock[y]].clock[z]
                                                <= dag'[x][g].clock[z]
      BY DEF CausallyClosed, Vote, Event
    <3>3. PICK k \in [Branch -> Nat] :
            /\ dag'[x][g].clock = k
            /\ \A w \in Branch : k[w] <= Height(w)
            /\ \A w \in Branch : k[w] > 0 => \A z \in Branch : Vote(k, w).clock[z] <= k[z]
      BY <3>1 DEF Event
    <3>4. /\ k[y] \in Nat /\ Height(y) \in Nat /\ k[y] <= Height(y)
          /\ Height(y)' \in Nat /\ Height(y) <= Height(y)'
      BY <2>1, <2>5, <3>3, EventType
    <3>5. k[y] > 0 => dag'[y][k[y]] = Vote(k, y)
      <4>1. k[y] > 0 => k[y] \in Merged(y)
        BY <3>4 DEF Merged
      <4> QED BY <2>5, <4>1 DEF Vote, Event
    <3>6. k[y] <= Height(y)'
      BY <3>4
    <3>7. k[y] > 0 => \A z \in Branch : dag'[y][k[y]].clock[z] <= k[z]
      BY <3>3, <3>5
    <3> QED BY <3>3, <3>6, <3>7
  <2>10. IndexSound'
    <3> SUFFICES ASSUME NEW x \in Branch, NEW g \in Merged(x)'
                 PROVE  Sound(x, Event(x, g))'
      BY DEF IndexSound
    <3>1. PICK k : k = Event(x, g)'
      OBVIOUS
    <3>2. Sound(x, k) /\ ClosedCut(k.clock)
      <4>1. CASE g \in Merged(x) /\ Event(x, g)' = Event(x, g)
        BY <2>1, <3>1, <4>1, OldCutClosed DEF IInv, IndexSound
      <4>2. CASE x = b /\ g = top /\ Event(x, g)' = e
        <5>1. Sound(b, d) /\ e.clock = d.clock /\ ClosedCut(d.clock)
          BY <2>3, <2>4, <2>c, DraftIndex
        <5>2. Sound(b, e)
          BY <2>4, <5>1, <2>c DEF Sound
        <5> QED BY <3>1, <4>2, <5>1, <5>2
      <4> QED BY <2>7, <4>1, <4>2
    <3>3. Sound(x, k)'
      BY <2>1, <2>5, <3>2, SoundKept
    <3>4. k = dag'[x][g]
      BY <3>1 DEF Event
    <3> QED BY <3>3, <3>4 DEF Sound, Vote, Event, Seen
  <2>13. FailureEnds'
    <3> SUFFICES ASSUME NEW x \in Branch, NEW g \in Merged(x)', Event(x, g)'.failed
                 PROVE  g = Height(x)'
      BY DEF FailureEnds
    <3>1. CASE g \in Merged(x) /\ Event(x, g)' = Event(x, g)
      <4>1. g = Height(x) /\ Height(x) > 0
        BY <2>1, <3>1, EventType DEF IInv, FailureEnds, Merged
      <4>2. Ended(x)
        BY <3>1, <4>1 DEF Ended, Failed
      <4> QED BY <2>5, <4>1, <4>2
    <3>2. CASE x = b /\ g = top
      BY <2>5, <3>2
    <3> QED BY <2>7, <3>1, <3>2
  <2>11. SupportInAncestry'
    <3> SUFFICES ASSUME NEW x \in Branch, NEW g \in Merged(x)'
                 PROVE  Event(x, g)'.support \subseteq Seen(Event(x, g)'.clock) \cup {x}
      BY DEF SupportInAncestry, Seen
    <3>1. CASE g \in Merged(x) /\ Event(x, g)' = Event(x, g)
      BY <3>1 DEF IInv, SupportInAncestry
    <3>2. CASE x = b /\ g = top /\ Event(x, g)' = e
      BY <2>4, <3>2
    <3> QED BY <2>7, <3>1, <3>2
  <2>12. ProposalHeld'
    <3> SUFFICES ASSUME NEW x \in Branch, NEW g \in Merged(x)',
                        NEW p, p = Event(x, g)'.proposal, p > 0
                 PROVE  /\ p <= g
                        /\ \A i \in p .. g : /\ Event(x, i)'.proposal = p
                                             /\ Event(x, i)'.support = Event(x, p)'.support
      BY DEF ProposalHeld
    <3>1. ASSUME NEW n \in Merged(x), p = Event(x, n).proposal
          PROVE  /\ p \in Nat /\ n \in Nat /\ p <= n
                 /\ \A i \in p .. n : /\ i \in Merged(x)
                                      /\ Event(x, i)'.proposal = p
                                      /\ Event(x, i)'.support = Event(x, p)'.support
      <4>1. p \in Nat /\ n \in Nat /\ Height(x) \in Nat
        BY <2>1, <3>1, EventType, MergeEventFields DEF Merged
      <4>2. /\ p <= n
            /\ \A i \in p .. n : /\ Event(x, i).proposal = p
                                 /\ Event(x, i).support = Event(x, p).support
        BY <3>1 DEF IInv, ProposalHeld
      <4>3. \A i \in p .. n : i \in Merged(x)
        BY <4>1, <3>1 DEF Merged
      <4>4. p \in p .. n
        BY <4>1, <4>2
      <4>5. \A i \in p .. n : Event(x, i)' = Event(x, i)
        BY <2>5, <4>3
      <4> QED BY <4>1, <4>2, <4>3, <4>4, <4>5
    <3>2. CASE g \in Merged(x) /\ Event(x, g)' = Event(x, g)
      BY <3>1, <3>2
    <3>3. CASE x = b /\ g = top /\ Event(x, g)' = e
      <4>1. Height(b) \in Nat /\ g = Height(b) + 1
        BY <2>1, <2>5, <3>3, EventType
      <4>2. CASE p = top
        <5>1. p .. g = {g}
          BY <3>3, <4>1, <4>2
        <5> QED BY <3>3, <4>1, <4>2, <5>1
      <4>3. CASE /\ Height(b) > 0
                 /\ p = Event(b, Height(b)).proposal
                 /\ Event(b, p).support = e.support
        <5>1. Height(b) \in Merged(b)
          BY <4>1, <4>3 DEF Merged
        <5>2. /\ p \in Nat /\ p <= Height(b)
              /\ \A i \in p .. Height(b) : /\ i \in Merged(b)
                                           /\ Event(b, i)'.proposal = p
                                           /\ Event(b, i)'.support = Event(b, p)'.support
          BY <3>1, <3>3, <4>3, <5>1
        <5>3. p \in p .. Height(b)
          BY <4>1, <5>2
        <5>4. Event(b, p)' = Event(b, p)
          BY <2>5, <5>2, <5>3
        <5>5. \A i \in p .. g : i \in p .. Height(b) \/ i = g
          BY <4>1, <5>2
        <5> QED BY <3>3, <4>1, <4>3, <5>2, <5>4, <5>5
      <4> QED BY <2>4, <3>3, <4>2, <4>3
    <3> QED BY <2>7, <3>2, <3>3
  <2> QED BY <2>6, <2>9, <2>10, <2>11, <2>12, <2>13 DEF IInv
<1> QED BY <1>1, <1>2 DEF vars

(* For any number of witnesses, branches and merges, the history of merge   *)
(* events is well typed.                                                    *)
THEOREM TypeCorrect == Spec => []TypeOK
<1>1. Spec => []IInv
  BY InitIInv, StepIInv, PTL DEF Spec
<1> QED BY <1>1, PTL DEF IInv

(* Whoever knows an event knows every y event it supports.                  *)
THEOREM SupportKnown == Spec => []SupportInAncestry
<1>1. Spec => []IInv
  BY InitIInv, StepIInv, PTL DEF Spec
<1> QED BY <1>1, PTL DEF IInv

(* A proposal is held without a break and never changes the set it is for.  *)
THEOREM ProposalsHeld == Spec => []ProposalHeld
<1>1. Spec => []IInv
  BY InitIInv, StepIInv, PTL DEF Spec
<1> QED BY <1>1, PTL DEF IInv

(* However many witnesses fork and whatever the byzantine ones merge, the   *)
(* only event with the support `false' that an event tallies is its own     *)
(* tree parent: a peer whose event shows its own fork is `false' in every   *)
(* index that would hold it.                                                *)
THEOREM RevokedTalliedByOwn == Spec => []OnlyOwnRevoked
<1>1. IInv => OnlyOwnRevoked
  BY DEF IInv, IndexSound, Sound, OnlyOwnRevoked
<1>2. Spec => []IInv
  BY InitIInv, StepIInv, PTL DEF Spec
<1> QED BY <1>1, <1>2, PTL
-----------------------------------------------------------------------------
(* What tallies, proposals and endorsements rest on.                        *)

CreatorsOf(set) == {Creator[x] : x \in set}

(* What a branch knows only grows.                                          *)
BranchGrows ==
  \A b \in Branch : \A g, k \in Merged(b) :
    g <= k => \A x \in Branch : Event(b, g).clock[x] <= Event(b, k).clock[x]

(* Whoever supports y events of no more than f witnesses is one of them:    *)
(* only f+1 votes lead away from one's own, and f+1 have not the same       *)
(* support as long as each of them insists on its own.  A witness whose own *)
(* last support is `false' either follows f+1 votes or fails.               *)
FewSupportThemselves ==
  \A b \in Branch : \A g \in Merged(b) :
    LET e == Event(b, g)
    IN ~e.revoked /\ ~e.failed /\ Cardinality(CreatorsOf(e.support)) <= F
         => Creator[b] \in CreatorsOf(e.support)

DecisionsOfMany ==
  \A b \in Branch : \A g \in Merged(b) :
    Event(b, g).decision => Cardinality(CreatorsOf(Event(b, g).support)) >= F + 1

(* A witness has seen the proposal of generation p on branch b, as an event *)
(* with the cut c can tell.                                                 *)
HasSeen(w, b, p, c) ==
  \E x \in Branch : /\ Creator[x] = w
                    /\ x = b \/ (c[x] > 0 /\ Vote(c, x).clock[b] >= p)

(* A proposal was made with the support of 2f+1, whoever is noted as its    *)
(* endorser has seen it, and an endorsed one has 2f+1 endorsers.            *)
ProposalsBacked ==
  \A b \in Branch : \A g \in Merged(b) :
    LET e == Event(b, g)
        p == Event(b, e.proposal)
    IN e.proposal > 0 =>
         /\ Cardinality(Backers(p, p.support) \cup {b}) >= Supermajority
         /\ \A w \in e.endorsers : HasSeen(w, b, e.proposal, e.clock)
         /\ e.endorsed => Cardinality(e.endorsers) >= Supermajority

TallyInv == BranchGrows /\ FewSupportThemselves /\ DecisionsOfMany /\ ProposalsBacked
-----------------------------------------------------------------------------
LEMMA Numbers ==
  /\ F \in Nat /\ F > 0 /\ F + 1 \in Nat /\ Supermajority \in Nat
  /\ IsFiniteSet(Branch) /\ IsFiniteSet(Witness) /\ Creator \in [Branch -> Witness]
  /\ \A S \in SUBSET Branch : IsFiniteSet(S) /\ Cardinality(S) \in Nat
  /\ \A S \in SUBSET Witness : IsFiniteSet(S) /\ Cardinality(S) \in Nat
  /\ \A S \in SUBSET Branch : CreatorsOf(S) \subseteq Witness
BY ContinuityAssumption, FS_Subset, FS_CardinalityType DEF Supermajority, CreatorsOf

(* Branches of different creators are no more than their creators.          *)
LEMMA ApartNoMore ==
  ASSUME NEW V \in SUBSET Branch, NEW W \in SUBSET Witness,
         \A x, y \in V : Creator[x] = Creator[y] => x = y,
         \A x \in V : Creator[x] \in W
  PROVE  Cardinality(V) <= Cardinality(W)
<1>2. /\ IsFiniteSet(V) /\ Cardinality(V) \in Nat
      /\ IsFiniteSet(W) /\ Cardinality(W) \in Nat
  BY Numbers
<1> DEFINE f == [x \in V |-> Creator[x]]
<1>3. f \in [V -> W] /\ \A x \in V : f[x] = Creator[x]
  OBVIOUS
<1> HIDE DEF f
<1>5. \A x, y \in V : x # y => f[x] # f[y]
  BY <1>3
<1>6. CASE Cardinality(W) < Cardinality(V)
  <2>1. \E x, y \in V : x # y /\ f[x] = f[y]
    BY <1>2, <1>3, <1>6, FS_PigeonHole
  <2> QED BY <1>5, <2>1
<1> QED BY <1>2, <1>6

(* What e tallies are events of the history, each with its support.         *)
LEMMA VoterEvent ==
  ASSUME TypeOK, NEW b \in Branch, NEW e, ClosedCut(e.clock), Sound(b, e), NEW x \in e.voters
  PROVE  /\ x \in Branch /\ e.clock[x] > 0 /\ e.clock[x] \in Merged(x)
         /\ Vote(e.clock, x) = Event(x, e.clock[x])
         /\ Vote(e.clock, x) \in MergeEvent /\ ~Vote(e.clock, x).failed
<1>1. x \in Seen(e.clock) /\ ~Vote(e.clock, x).failed
  BY DEF Sound
<1>2. x \in Branch /\ e.clock[x] > 0 /\ e.clock[x] \in Merged(x) /\ Vote(e.clock, x) \in MergeEvent
  BY <1>1, VoteType DEF ClosedCut, Seen
<1> QED BY <1>1, <1>2 DEF Vote

(* If f+1 votes support a set, it is of more than f witnesses.              *)
LEMMA ManySupportMany ==
  ASSUME IInv, FewSupportThemselves, NEW b \in Branch, NEW e, ClosedCut(e.clock), Sound(b, e),
         NEW set \in SUBSET Branch, NEW V \in SUBSET Backers(e, set), Cardinality(V) >= F + 1
  PROVE  Cardinality(CreatorsOf(set)) >= F + 1
<1> SUFFICES ASSUME Cardinality(CreatorsOf(set)) <= F PROVE FALSE
  BY Numbers
<1>1. TypeOK
  BY DEF IInv
<1>2. ASSUME NEW x \in V
      PROVE  /\ x \in Branch /\ x \in e.voters
             /\ ~Vote(e.clock, x).revoked => Creator[x] \in CreatorsOf(set)
             /\ Vote(e.clock, x).revoked => set = {} /\ x = b
  <2>1. x \in e.voters /\ Vote(e.clock, x).support = set
    BY DEF Backers
  <2>2. /\ x \in Branch /\ e.clock[x] \in Merged(x) /\ Vote(e.clock, x) = Event(x, e.clock[x])
        /\ ~Vote(e.clock, x).failed
    BY <1>1, <2>1, VoterEvent
  <2>3. Vote(e.clock, x).revoked => set = {} /\ x = b
    BY <2>1, <2>2 DEF IInv, IndexSound, Sound
  <2> QED BY <2>1, <2>2, <2>3 DEF FewSupportThemselves
<1>3. V \in SUBSET Branch /\ \A x, y \in V : Creator[x] = Creator[y] => x = y
  BY <1>2 DEF Sound
<1>4. CASE \A x \in V : ~Vote(e.clock, x).revoked
  <2>1. Cardinality(V) <= Cardinality(CreatorsOf(set))
    BY <1>2, <1>3, <1>4, ApartNoMore, Numbers
  <2> QED BY <1>3, <2>1, Numbers
<1>5. CASE \E x \in V : Vote(e.clock, x).revoked
  <2>1. set = {} /\ CreatorsOf(set) = {}
    BY <1>2, <1>5 DEF CreatorsOf
  <2>2. \A x \in V : x = b
    BY <1>2, <2>1
  <2>3. V \in SUBSET {b}
    BY <2>2
  <2>4. IsFiniteSet({b}) /\ Cardinality({b}) = 1
    BY FS_Singleton
  <2>5. Cardinality(V) <= Cardinality({b})
    BY <2>3, <2>4, FS_Subset
  <2> QED BY <1>3, <2>4, <2>5, Numbers
<1> QED BY <1>4, <1>5

(* A witness that keeps its proposal backs the set it is for.               *)
LEMMA KeeperBacks ==
  ASSUME IInv, NEW b \in Branch, NEW d, d.clock[b] = Height(b), b \in d.voters, Height(b) > 0
  PROVE  /\ Vote(d.clock, b) = Event(b, Height(b))
         /\ \A choice : Keeps(b, choice) => b \in Backers(d, choice)
<1>1. TypeOK /\ Height(b) \in Nat /\ Height(b) \in Merged(b)
  BY EventType DEF IInv, Merged
<1>2. Vote(d.clock, b) = Event(b, Height(b))
  BY DEF Vote
<1>3. ASSUME NEW choice, Keeps(b, choice) PROVE Event(b, Height(b)).support = choice
  <2> DEFINE q == Event(b, Height(b)).proposal
  <2>1. q > 0 /\ Event(b, q).support = choice
    BY <1>3 DEF Keeps
  <2>2. /\ q <= Height(b)
        /\ \A g \in q .. Height(b) : Event(b, g).support = Event(b, q).support
    BY <1>1, <2>1 DEF IInv, ProposalHeld
  <2>3. q \in Nat /\ Height(b) \in q .. Height(b)
    BY <1>1, <2>2, EventType, MergeEventFields
  <2> QED BY <2>1, <2>2, <2>3
<1> QED BY <1>2, <1>3 DEF Backers

(* What _experiment rests a decision, a proposal and its endorsement on.    *)
LEMMA ExperimentTallies ==
  ASSUME IInv, NEW b \in Branch, NEW d, IsDraft(b, d)
  PROVE  LET e        == Experiment(b, d)
             choice   == ChooseSupport(b, d)
             previous == Event(b, Height(b))
         IN \/ (e.revoked \/ (e.failed /\ Throws(d))) /\ ~e.decision /\ e.proposal = 0
            \/ /\ e.support = choice
               /\ Height(b) > 0 => b \in d.voters
               /\ ~Throws(d)
               /\ \/ /\ e.decision /\ e.proposal = 0
                     /\ \E V \in SUBSET Backers(d, choice) : Cardinality(V) >= F + 1
                  \/ ~e.decision /\ e.proposal = 0
                  \/ /\ ~e.decision /\ e.proposal = Height(b) + 1
                     /\ e.endorsers = {Creator[b]} /\ ~e.endorsed
                     /\ Cardinality(Backers(d, choice) \cup {b}) >= Supermajority
                  \/ /\ ~e.decision /\ Height(b) > 0
                     /\ e.proposal = previous.proposal /\ e.proposal > 0
                     /\ e.endorsers \subseteq previous.endorsers
                                                \cup Endorsers(b, previous.proposal, d)
                     /\ e.endorsed => \/ previous.endorsed /\ e.endorsers = previous.endorsers
                                      \/ Cardinality(e.endorsers) >= Supermajority
<1> DEFINE gen == Height(b) + 1
           before == Event(b, gen - 1)
           previous == Event(b, Height(b))
           own == d.voters \cap Own(b)
           forked == own = {} /\ Seen(d.clock) \cap Own(b) # {}
           choice == ChooseSupport(b, d)
           switched == \A x \in own : Vote(d.clock, x).support # choice
           count == Cardinality(Backers(d, choice)) + (IF switched THEN 1 ELSE 0)
           kept == Keeps(b, choice)
           endorsers == IF before.endorsed THEN before.endorsers
                        ELSE before.endorsers \cup Endorsers(b, before.proposal, d)
           endorses == /\ kept
                       /\ ~before.endorsed
                       /\ Cardinality(endorsers) >= Supermajority
           endorsed == Cardinality(EndorsedBackers(d, choice)) + (IF endorses THEN 1 ELSE 0)
           event == [d EXCEPT !.support = choice]
           result == Experiment(b, d)
           revoked == [d EXCEPT !.revoked = TRUE]
           fails == [d EXCEPT !.failed = TRUE]
           decides == [event EXCEPT !.decision = TRUE]
           keeps == [event EXCEPT !.proposal = before.proposal,
                                  !.endorsers = endorsers,
                                  !.endorsed = before.endorsed \/ endorses]
           proposes == [event EXCEPT !.proposal = gen, !.endorsers = {Creator[b]}]
<1>0. TypeOK
  BY DEF IInv
<1>1. Height(b) \in Nat /\ gen - 1 = Height(b) /\ d.clock[b] = Height(b) /\ d.clock \in [Branch -> Nat]
  BY <1>0, EventType, ViewFacts, DraftType
<1>2. before = previous
  BY <1>1
<1>t. /\ d \in MergeEvent /\ ~d.revoked /\ ~d.failed /\ ~d.decision /\ d.proposal = 0
      /\ ~d.endorsed /\ d.voters \in SUBSET Branch
      /\ Height(b) > 0 => own \subseteq {b}
  BY <1>0, DraftType, MergeEventFields
<1>3. \/ result = revoked
      \/ Throws(d) /\ result = fails
      \/ ~forked /\ ~Throws(d) /\ result = decides /\ endorsed >= F + 1
      \/ ~forked /\ ~Throws(d) /\ result = keeps /\ kept
      \/ ~forked /\ ~Throws(d) /\ result = proposes /\ count >= Supermajority
      \/ ~forked /\ ~Throws(d) /\ result = event
  BY Zenon DEF Experiment, FPlusOne
<1>4. /\ revoked.revoked /\ ~revoked.decision /\ revoked.proposal = 0
      /\ fails.failed /\ ~fails.decision /\ fails.proposal = 0
      /\ decides.support = choice /\ decides.decision /\ decides.proposal = 0
      /\ event.support = choice /\ ~event.decision /\ event.proposal = 0
  <2> HIDE DEF choice
  <2> QED BY <1>t DEF MergeEvent
<1>5. /\ keeps.support = choice /\ ~keeps.decision
      /\ keeps.proposal = before.proposal /\ keeps.endorsers = endorsers
      /\ keeps.endorsed = (before.endorsed \/ endorses)
  <2> HIDE DEF before, endorsers, endorses, choice
  <2> QED BY <1>t DEF MergeEvent
<1>6. /\ proposes.support = choice /\ ~proposes.decision
      /\ proposes.proposal = gen /\ proposes.endorsers = {Creator[b]} /\ ~proposes.endorsed
  <2> HIDE DEF gen, choice
  <2> QED BY <1>t DEF MergeEvent
<1> DEFINE B == Backers(d, choice)
           E == EndorsedBackers(d, choice)
<1>7. /\ B \in SUBSET Branch /\ E \in SUBSET B /\ E \in SUBSET Branch /\ IsFiniteSet(E)
      /\ IsFiniteSet(B) /\ Cardinality(B) \in Nat /\ Cardinality(E) \in Nat
      /\ F \in Nat /\ Supermajority \in Nat
  BY <1>t, Numbers DEF EndorsedBackers, Backers
<1>8. ~forked /\ Height(b) > 0 => b \in d.voters
  <2>1. Height(b) > 0 => b \in Seen(d.clock) \cap Own(b)
    BY <1>1, OwnBranches DEF Seen
  <2> QED BY <1>t, <2>1
<1>9. kept => Height(b) > 0 /\ previous.proposal > 0
  BY DEF Keeps
<1>10. ~forked /\ kept => Vote(d.clock, b) = previous /\ b \in B
  <2> HIDE DEF forked, choice, previous
  <2> QED BY <1>1, <1>8, <1>9, KeeperBacks DEF previous
<1> HIDE DEF endorsed, count, switched, own, forked
<1>11. ASSUME ~forked, endorsed >= F + 1
       PROVE  \E V \in SUBSET B : Cardinality(V) >= F + 1
  <2>1. CASE endorses
    <3>1. b \in B /\ ~previous.endorsed /\ Vote(d.clock, b) = previous
      BY <1>2, <1>10, <1>11, <2>1
    <3>2. b \notin E
      BY <3>1 DEF EndorsedBackers, HasEndorsedProposal
    <3>3. Cardinality(E \cup {b}) = Cardinality(E) + 1
      BY <1>7, <3>2, FS_AddElement
    <3>4. endorsed = Cardinality(E) + 1
      BY <2>1 DEF endorsed
    <3>5. E \cup {b} \in SUBSET B
      BY <1>7, <3>1
    <3> QED BY <1>11, <3>3, <3>4, <3>5
  <2>2. CASE ~endorses
    <3>1. endorsed = Cardinality(E) + 0
      BY <2>2 DEF endorsed
    <3>2. Cardinality(E) >= F + 1
      BY <1>7, <1>11, <3>1
    <3> QED BY <1>7, <3>2
  <2> QED BY <2>1, <2>2
<1>12. ASSUME count >= Supermajority
       PROVE  Cardinality(B \cup {b}) >= Supermajority
  <2>1. Cardinality(B \cup {b}) = IF b \in B THEN Cardinality(B) ELSE Cardinality(B) + 1
    <3>1. IsFiniteSet(B)
      BY <1>7
    <3> HIDE DEF B
    <3> QED BY <3>1, FS_AddElement
  <2>2. CASE switched
    <3>1. b \notin B
      <4>1. b \in Own(b)
        BY OwnBranches
      <4>2. b \in d.voters => Vote(d.clock, b).support # choice
        <5> HIDE DEF choice
        <5> QED BY <2>2, <4>1 DEF switched, own
      <4> HIDE DEF choice
      <4> QED BY <4>2 DEF Backers
    <3>2. count = Cardinality(B) + 1
      BY <2>2 DEF count
    <3> QED BY <1>12, <2>1, <3>1, <3>2
  <2>3. CASE ~switched
    <3>1. count = Cardinality(B) + 0
      BY <2>3 DEF count
    <3> QED BY <1>7, <1>12, <2>1, <3>1
  <2> QED BY <2>2, <2>3
<1>13. CASE result = revoked \/ (Throws(d) /\ result = fails)
  BY <1>4, <1>13
<1>14. CASE ~forked /\ ~Throws(d) /\ result = decides /\ endorsed >= F + 1
  BY <1>4, <1>8, <1>11, <1>14
<1>15. CASE ~forked /\ ~Throws(d) /\ result = keeps /\ kept
  <2>1. endorses => Cardinality(endorsers) >= Supermajority
    OBVIOUS
  <2>2. /\ endorsers \subseteq previous.endorsers \cup Endorsers(b, previous.proposal, d)
        /\ previous.endorsed => endorsers = previous.endorsers
    BY <1>2
  <2> HIDE DEF result, keeps, kept, endorsers, endorses, previous, before, choice
  <2> QED BY <1>2, <1>5, <1>8, <1>9, <1>15, <2>1, <2>2 DEF result, previous, choice
<1>16. CASE ~forked /\ ~Throws(d) /\ result = proposes /\ count >= Supermajority
  <2> HIDE DEF result, proposes, choice
  <2> QED BY <1>6, <1>8, <1>12, <1>16 DEF result, choice
<1>17. CASE ~forked /\ ~Throws(d) /\ result = event
  BY <1>4, <1>8, <1>17
<1> QED BY <1>3, <1>13, <1>14, <1>15, <1>16, <1>17

LEMMA TalliesKept ==
  ASSUME TypeOK, NEW x \in Branch, NEW e, ClosedCut(e.clock), Sound(x, e),
         \A y \in Branch : \A g \in Merged(y) : Event(y, g)' = Event(y, g)
  PROVE  /\ \A set : Backers(e, set)' = Backers(e, set)
         /\ \A w, b, p : HasSeen(w, b, p, e.clock)' <=> HasSeen(w, b, p, e.clock)
<1> PICK c : c = e.clock
  OBVIOUS
<1>1. \A y \in Branch : c[y] > 0 => dag'[y][c[y]] = dag[y][c[y]]
  BY EventType DEF ClosedCut, Merged, Event
<1>2. \A y \in e.voters : y \in Branch /\ c[y] > 0
  BY DEF Sound, Seen
<1>3. \A set : Backers(e, set)' = Backers(e, set)
  BY <1>1, <1>2 DEF Backers, Vote, Event
<1>4. \A w, b, p : HasSeen(w, b, p, c)' <=> HasSeen(w, b, p, c)
  BY <1>1 DEF HasSeen, Vote, Event
<1> QED BY <1>3, <1>4

(* Whoever has seen a proposal has seen it for all who know more.           *)
LEMMA SeenStays ==
  ASSUME TypeOK, BranchGrows, NEW c, ClosedCut(c), NEW d, ClosedCut(d),
         \A x \in Branch : c[x] <= d[x],
         NEW w, NEW b \in Branch, NEW p \in Nat, HasSeen(w, b, p, c)
  PROVE  HasSeen(w, b, p, d)
<1>1. PICK x \in Branch : /\ Creator[x] = w
                          /\ x = b \/ (c[x] > 0 /\ Vote(c, x).clock[b] >= p)
  BY DEF HasSeen
<1>2. CASE x = b
  BY <1>1, <1>2 DEF HasSeen
<1>3. CASE c[x] > 0 /\ Vote(c, x).clock[b] >= p
  <2>1. /\ c[x] \in Merged(x) /\ d[x] \in Merged(x) /\ c[x] <= d[x] /\ d[x] > 0
    BY <1>3, EventType DEF ClosedCut, Merged
  <2>2. Event(x, c[x]).clock[b] <= Event(x, d[x]).clock[b]
    BY <2>1 DEF BranchGrows
  <2>3. /\ Event(x, c[x]).clock[b] \in Nat /\ Event(x, d[x]).clock[b] \in Nat
    BY <2>1, EventType, MergeEventFields
  <2>4. Vote(d, x).clock[b] >= p
    BY <1>3, <2>2, <2>3 DEF Vote
  <2> QED BY <1>1, <2>1, <2>4 DEF HasSeen
<1> QED BY <1>1, <1>2, <1>3

LEMMA InitTallyInv == Init => TallyInv
BY DEF Init, Merged, Height, TallyInv, BranchGrows, FewSupportThemselves, DecisionsOfMany,
       ProposalsBacked

(* A new event that supports y events of no more than f witnesses supports  *)
(* its own witness's.                                                       *)
LEMMA DraftSupportsItself ==
  ASSUME IInv, FewSupportThemselves, NEW b \in Branch, ~Ended(b), NEW d, IsDraft(b, d),
         Height(b) > 0 => b \in d.voters, ~Throws(d),
         Cardinality(CreatorsOf(ChooseSupport(b, d))) <= F
  PROVE  Creator[b] \in CreatorsOf(ChooseSupport(b, d))
<1> PICK choice : choice = ChooseSupport(b, d)
  OBVIOUS
<1>1. TypeOK /\ Height(b) \in Nat
  BY EventType DEF IInv
<1>2. Sound(b, d) /\ choice \in SUBSET Branch
  BY <1>1, DraftIndex, ChoiceType
<1>3. ClosedCut(d.clock) /\ d.clock[b] = Height(b)
  <2>1. d.clock \in Views(b)
    BY <1>1, DraftType
  <2> QED BY <1>1, <2>1, ViewFacts DEF ClosedCut
<1>4. ASSUME NEW set \in SUBSET choice
      PROVE  /\ set \in SUBSET Branch /\ CreatorsOf(set) \in SUBSET CreatorsOf(choice)
             /\ Cardinality(CreatorsOf(set)) <= F
  <2>1. set \in SUBSET Branch /\ CreatorsOf(set) \in SUBSET CreatorsOf(choice)
    BY <1>2 DEF CreatorsOf
  <2>2. Cardinality(CreatorsOf(set)) <= Cardinality(CreatorsOf(choice))
    BY <1>2, <2>1, Numbers, FS_Subset
  <2> QED BY <1>2, <2>1, <2>2, Numbers
<1>5. CASE FPlusOneSupport(d) # {}
  <2>1. PICK set \in FPlusOneSupport(d) : TRUE
    BY <1>5
  <2>2. set \in SUBSET choice /\ Cardinality(Backers(d, set)) >= F + 1
    BY <1>5 DEF ChooseSupport, FPlusOneSupport, FPlusOne
  <2>3. set \in SUBSET Branch /\ Cardinality(CreatorsOf(set)) <= F
    BY <1>4, <2>2
  <2>4. Cardinality(CreatorsOf(set)) >= F + 1
    BY <1>2, <1>3, <2>2, <2>3, ManySupportMany
  <2> QED BY <2>3, <2>4, Numbers
<1>6. CASE FPlusOneSupport(d) = {}
  <2>1. choice = (UNION Tallied(d)) \cup (IF Height(b) = 0 THEN {b} ELSE {})
    BY <1>6 DEF ChooseSupport
  <2>2. CASE Height(b) = 0
    BY <2>1, <2>2 DEF CreatorsOf
  <2>3. CASE Height(b) > 0
    <3>1. b \in d.voters /\ Vote(d.clock, b) = Event(b, Height(b)) /\ Height(b) \in Merged(b)
      BY <1>1, <1>3, <2>3 DEF Vote, Merged
    <3>2. ~Event(b, Height(b)).revoked
      BY <1>6, <3>1 DEF Throws
    <3>3. ~Event(b, Height(b)).failed
      BY <1>2, <3>1 DEF Sound
    <3> DEFINE own == Event(b, Height(b)).support
    <3>4. own \in SUBSET choice
      BY <2>1, <3>1 DEF Tallied
    <3>5. CreatorsOf(own) \in SUBSET CreatorsOf(choice) /\ Cardinality(CreatorsOf(own)) <= F
      BY <1>4, <3>4
    <3>6. Creator[b] \in CreatorsOf(own)
      BY <3>1, <3>2, <3>3, <3>5 DEF FewSupportThemselves
    <3> QED BY <3>5, <3>6
  <2> QED BY <1>1, <2>2, <2>3
<1> QED BY <1>5, <1>6

LEMMA StepTallyInv ==
  ASSUME IInv, TallyInv, [Next]_vars
  PROVE  TallyInv'
<1>1. CASE UNCHANGED vars
  <2>1. dag' = dag
    BY <1>1 DEF vars
  <2>2. (BranchGrows /\ FewSupportThemselves /\ DecisionsOfMany)'
    BY <2>1 DEF TallyInv, BranchGrows, FewSupportThemselves, DecisionsOfMany,
                Merged, Height, Event
  <2>3. ProposalsBacked'
    <3>1. \A x, g : Event(x, g)' = Event(x, g) /\ Merged(x)' = Merged(x)
      BY <2>1 DEF Event, Merged, Height
    <3>2. \A b, p : Backers(Event(b, p), Event(b, p).support)'
                     = Backers(Event(b, p), Event(b, p).support)
      BY <2>1 DEF Backers, Vote, Event
    <3>3. \A w, b, p, g :
            HasSeen(w, b, p, Event(b, g).clock)' <=> HasSeen(w, b, p, Event(b, g).clock)
      BY <2>1 DEF HasSeen, Vote, Event
    <3> SUFFICES ASSUME NEW x \in Branch, NEW g \in Merged(x), NEW p, p > 0,
                        p = Event(x, g).proposal
                 PROVE  /\ Cardinality(Backers(Event(x, p), Event(x, p).support) \cup {x})'
                             >= Supermajority
                        /\ \A w \in Event(x, g).endorsers : HasSeen(w, x, p, Event(x, g).clock)'
                        /\ Event(x, g).endorsed
                             => Cardinality(Event(x, g).endorsers) >= Supermajority
      BY <3>1 DEF ProposalsBacked
    <3> QED BY <3>2, <3>3 DEF TallyInv, ProposalsBacked
  <2> QED BY <2>2, <2>3 DEF TallyInv
<1>2. CASE Next
  <2>0. TypeOK
    BY DEF IInv
  <2>1. PICK b \in Branch : \E top \in Nat : \E d :
           LET e == Experiment(b, d)
           IN /\ ~Ended(b) /\ IsDraft(b, d)
              /\ top = Height(b) + 1
              /\ ClosedCut(d.clock) /\ \A x \in Branch : Known(b)[x] <= d.clock[x]
              /\ \A x \in Branch : \A g \in Merged(x) :
                   g \in Merged(x)' /\ Event(x, g)' = Event(x, g)
              /\ top \in Merged(b)' /\ Event(b, top)' = e
              /\ \A x \in Branch : \A g \in Merged(x)' : g \in Merged(x) \/ (x = b /\ g = top)
    BY <1>2, <2>0, MergeFacts
  <2>2. PICK top, d :
           LET e == Experiment(b, d)
           IN /\ top \in Nat
              /\ ~Ended(b) /\ IsDraft(b, d)
              /\ top = Height(b) + 1
              /\ ClosedCut(d.clock) /\ \A x \in Branch : Known(b)[x] <= d.clock[x]
              /\ \A x \in Branch : \A g \in Merged(x) :
                   g \in Merged(x)' /\ Event(x, g)' = Event(x, g)
              /\ top \in Merged(b)' /\ Event(b, top)' = e
              /\ \A x \in Branch : \A g \in Merged(x)' : g \in Merged(x) \/ (x = b /\ g = top)
    BY <2>1
  <2> top \in Nat
    BY <2>2
  <2>e. PICK e : e = Experiment(b, d)
    OBVIOUS
  <2>c. PICK c : c = d.clock
    OBVIOUS
  <2>x. PICK choice : choice = ChooseSupport(b, d)
    OBVIOUS
  <2>p. PICK previous : previous = Event(b, Height(b))
    OBVIOUS
  <2>3. /\ e.clock = c /\ e.voters = d.voters
        /\ ClosedCut(c) /\ \A x \in Branch : Known(b)[x] <= c[x]
        /\ \A x \in Branch : \A g \in Merged(x) : g \in Merged(x)' /\ Event(x, g)' = Event(x, g)
        /\ top \in Merged(b)' /\ Event(b, top)' = e
        /\ \A x \in Branch : \A g \in Merged(x)' : g \in Merged(x) \/ (x = b /\ g = top)
    BY <2>0, <2>2, <2>e, <2>c, ExperimentFacts
  <2>4. \/ (e.revoked \/ e.failed) /\ ~e.decision /\ e.proposal = 0
        \/ /\ e.support = choice
           /\ Height(b) > 0 => b \in d.voters
           /\ ~Throws(d)
           /\ \/ /\ e.decision /\ e.proposal = 0
                 /\ \E V \in SUBSET Backers(d, choice) : Cardinality(V) >= F + 1
              \/ ~e.decision /\ e.proposal = 0
              \/ /\ ~e.decision /\ e.proposal = top
                 /\ e.endorsers = {Creator[b]} /\ ~e.endorsed
                 /\ Cardinality(Backers(d, choice) \cup {b}) >= Supermajority
              \/ /\ ~e.decision /\ Height(b) > 0
                 /\ e.proposal = previous.proposal /\ e.proposal > 0
                 /\ e.endorsers \subseteq previous.endorsers
                                            \cup Endorsers(b, previous.proposal, d)
                 /\ e.endorsed => \/ previous.endorsed /\ e.endorsers = previous.endorsers
                                  \/ Cardinality(e.endorsers) >= Supermajority
    BY <2>2, <2>e, <2>x, <2>p, ExperimentTallies
  <2>5. /\ \A x \in Branch : Height(x) \in Nat
        /\ top = Height(b) + 1 /\ choice \in SUBSET Branch /\ c[b] = Height(b)
        /\ Sound(b, d) /\ ClosedCut(d.clock)
    BY <2>0, <2>2, <2>c, <2>x, EventType, ChoiceType, ViewFacts, DraftType, DraftIndex
  <2>6. BranchGrows'
    <3> SUFFICES ASSUME NEW x \in Branch, NEW g \in Merged(x)', NEW k \in Merged(x)', g <= k,
                        NEW y \in Branch
                 PROVE  Event(x, g)'.clock[y] <= Event(x, k)'.clock[y]
      BY DEF BranchGrows
    <3>1. CASE g \in Merged(x) /\ k \in Merged(x)
      BY <2>3, <3>1 DEF TallyInv, BranchGrows
    <3>2. CASE x = b /\ k = top /\ g \in Merged(b)
      <4>1. /\ Height(b) \in Merged(b) /\ Height(b) > 0 /\ g <= Height(b)
        BY <2>5, <3>2 DEF Merged
      <4>2. Event(b, g).clock[y] <= Event(b, Height(b)).clock[y]
        BY <3>2, <4>1 DEF TallyInv, BranchGrows
      <4>3. Event(b, Height(b)).clock[y] <= c[y]
        BY <2>3, <4>1 DEF Known
      <4>4. /\ Event(b, g).clock[y] \in Nat /\ Event(b, Height(b)).clock[y] \in Nat /\ c[y] \in Nat
        BY <2>3, <3>2, <4>1, EventType, MergeEventFields DEF IInv, ClosedCut
      <4>5. Event(b, g).clock[y] <= c[y]
        BY <4>2, <4>3, <4>4
      <4> QED BY <2>3, <3>2, <4>5
    <3>3. CASE x = b /\ k = top /\ g = top
      <4>1. c[y] <= c[y]
        BY <2>3 DEF ClosedCut
      <4> QED BY <2>3, <3>3, <4>1
    <3>4. x = b /\ g = top => k \notin Merged(b)
      BY <2>5 DEF Merged
    <3> QED BY <2>3, <3>1, <3>2, <3>3, <3>4
  <2>8. FewSupportThemselves'
    <3> SUFFICES ASSUME NEW x \in Branch, NEW g \in Merged(x)',
                        ~Event(x, g)'.revoked, ~Event(x, g)'.failed,
                        Cardinality(CreatorsOf(Event(x, g)'.support)) <= F
                 PROVE  Creator[x] \in CreatorsOf(Event(x, g)'.support)
      BY DEF FewSupportThemselves, CreatorsOf
    <3>1. CASE g \in Merged(x)
      BY <2>3, <3>1 DEF TallyInv, FewSupportThemselves
    <3>2. CASE x = b /\ g = top
      BY <2>2, <2>3, <2>4, <2>x, <3>2, DraftSupportsItself DEF TallyInv
    <3> QED BY <2>3, <3>1, <3>2
  <2>9. DecisionsOfMany'
    <3> SUFFICES ASSUME NEW x \in Branch, NEW g \in Merged(x)', Event(x, g)'.decision
                 PROVE  Cardinality(CreatorsOf(Event(x, g)'.support)) >= F + 1
      BY DEF DecisionsOfMany, CreatorsOf
    <3>1. CASE g \in Merged(x)
      BY <2>3, <3>1 DEF TallyInv, DecisionsOfMany
    <3>2. CASE x = b /\ g = top
      <4>1. PICK V \in SUBSET Backers(d, choice) : Cardinality(V) >= F + 1
        BY <2>3, <2>4, <3>2
      <4>2. e.support = choice
        BY <2>3, <2>4, <3>2
      <4> QED BY <2>3, <2>5, <3>2, <4>1, <4>2, ManySupportMany DEF TallyInv
    <3> QED BY <2>3, <3>1, <3>2
  <2>10. ProposalsBacked'
    <3> SUFFICES ASSUME NEW x \in Branch, NEW g \in Merged(x)', NEW p, p > 0,
                        p = Event(x, g)'.proposal
                 PROVE  /\ Cardinality(Backers(Event(x, p), Event(x, p).support) \cup {x})'
                             >= Supermajority
                        /\ \A w \in Event(x, g)'.endorsers : HasSeen(w, x, p, Event(x, g).clock)'
                        /\ Event(x, g)'.endorsed
                             => Cardinality(Event(x, g)'.endorsers) >= Supermajority
      BY DEF ProposalsBacked
    <3>1. ASSUME NEW k \in Merged(x), p = Event(x, k).proposal
          PROVE  /\ p \in Nat
                 /\ Cardinality(Backers(Event(x, p), Event(x, p).support) \cup {x})'
                             >= Supermajority
                 /\ \A w \in Event(x, k).endorsers : HasSeen(w, x, p, Event(x, k).clock)
                 /\ Event(x, k).endorsed => Cardinality(Event(x, k).endorsers) >= Supermajority
      <4>1. p \in Merged(x) /\ p \in Nat
        BY <2>0, <2>5, <3>1, EventType, MergeEventFields DEF IInv, ProposalHeld, Merged
      <4>2. PICK q : q = Event(x, p)
        OBVIOUS
      <4>3. q = Event(x, p)' /\ ClosedCut(q.clock) /\ Sound(x, q)
        BY <2>0, <2>3, <4>1, <4>2, OldCutClosed DEF IInv, IndexSound
      <4>4. Backers(q, q.support)' = Backers(q, q.support)
        BY <2>0, <2>3, <4>3, TalliesKept
      <4>5. Cardinality(Backers(q, q.support) \cup {x}) >= Supermajority
        BY <3>1, <4>2 DEF TallyInv, ProposalsBacked
      <4>6. Backers(Event(x, p), Event(x, p).support)' = Backers(q, q.support)
        BY <4>3, <4>4 DEF Backers
      <4> QED BY <3>1, <4>1, <4>5, <4>6 DEF TallyInv, ProposalsBacked
    <3>2. CASE g \in Merged(x)
      <4>1. Event(x, g)' = Event(x, g)
        BY <2>3, <3>2
      <4>2. PICK q : q = Event(x, g)
        OBVIOUS
      <4>3. ClosedCut(q.clock) /\ Sound(x, q)
        BY <2>0, <3>2, <4>2, OldCutClosed DEF IInv, IndexSound
      <4>4. \A w : HasSeen(w, x, p, q.clock)' <=> HasSeen(w, x, p, q.clock)
        BY <2>0, <2>3, <4>3, TalliesKept
      <4>5. \A w : HasSeen(w, x, p, Event(x, g).clock)' <=> HasSeen(w, x, p, q.clock)'
        BY <4>1, <4>2 DEF HasSeen
      <4> QED BY <3>1, <3>2, <4>1, <4>2, <4>4, <4>5
    <3>3. CASE x = b /\ g = top
      <4>1. Event(x, g)' = e /\ p = e.proposal
        BY <2>3, <3>3
      <4>2. \A w : HasSeen(w, b, p, Event(b, g).clock)' <=> HasSeen(w, b, p, c)'
        BY <2>3, <3>3, <4>1 DEF HasSeen
      <4>3. \A w : HasSeen(w, b, p, c)' <=> HasSeen(w, b, p, c)
        BY <2>0, <2>3, <2>5, <2>c, TalliesKept
      <4>4. CASE /\ p = top /\ e.support = choice
                 /\ e.endorsers = {Creator[b]} /\ ~e.endorsed
                 /\ Cardinality(Backers(d, choice) \cup {b}) >= Supermajority
        <5>1. HasSeen(Creator[b], b, p, c)
          BY DEF HasSeen
        <5>2. Backers(d, choice)' = Backers(d, choice)
          BY <2>0, <2>3, <2>5, TalliesKept
        <5>3. Event(b, p)' = e
          BY <2>3, <3>3, <4>4
        <5>4. Backers(Event(b, p), Event(b, p).support)' = Backers(d, choice)'
          BY <2>3, <2>c, <4>4, <5>3 DEF Backers, Vote
        <5> QED BY <3>3, <4>1, <4>2, <4>3, <4>4, <5>1, <5>2, <5>4
      <4>5. CASE /\ Height(b) > 0 /\ p = previous.proposal
                 /\ e.endorsers \subseteq previous.endorsers
                                            \cup Endorsers(b, previous.proposal, d)
                 /\ e.endorsed => \/ previous.endorsed /\ e.endorsers = previous.endorsers
                                  \/ Cardinality(e.endorsers) >= Supermajority
        <5>1. Height(b) \in Merged(b) /\ p = Event(b, Height(b)).proposal
          BY <2>5, <2>p, <4>5 DEF Merged
        <5>2. /\ p \in Nat
              /\ Cardinality(Backers(Event(b, p), Event(b, p).support) \cup {b})'
                          >= Supermajority
              /\ \A w \in previous.endorsers : HasSeen(w, b, p, previous.clock)
              /\ previous.endorsed => Cardinality(previous.endorsers) >= Supermajority
          BY <2>p, <3>1, <3>3, <5>1
        <5>3. ASSUME NEW w \in previous.endorsers
              PROVE  HasSeen(w, b, p, c)
          <6>1. ClosedCut(previous.clock) /\ \A y \in Branch : previous.clock[y] <= c[y]
            BY <2>0, <2>3, <2>p, <4>5, <5>1, OldCutClosed DEF Known, IInv
          <6> QED BY <2>0, <2>3, <5>2, <6>1, SeenStays DEF TallyInv
        <5>4. ASSUME NEW w \in Endorsers(b, p, d)
              PROVE  HasSeen(w, b, p, c)
          <6>1. PICK y \in d.voters : Creator[y] = w /\ Vote(c, y).clock[b] >= p
            BY <2>c DEF Endorsers
          <6>2. y \in Branch /\ c[y] > 0
            BY <2>5, <2>c DEF Sound, Seen
          <6> QED BY <6>1, <6>2 DEF HasSeen
        <5>5. \A w \in e.endorsers : HasSeen(w, b, p, c)
          BY <4>5, <5>3, <5>4
        <5> QED BY <3>3, <4>1, <4>2, <4>3, <4>5, <5>2, <5>5
      <4> QED BY <2>4, <3>3, <4>1, <4>4, <4>5
    <3> QED BY <2>3, <3>2, <3>3
  <2> QED BY <2>6, <2>8, <2>9, <2>10 DEF TallyInv
<1> QED BY <1>1, <1>2 DEF vars

LEMMA TalliesSound == Spec => [](IInv /\ TallyInv)
BY InitIInv, StepIInv, InitTallyInv, StepTallyInv, PTL DEF Spec

(* Whatever forks and whoever merges without waiting for others, a block is *)
(* built from the y events of f+1 witnesses at least.                       *)
THEOREM DecidedByMany == Spec => []DecidedByMoreThanF
<1>1. IInv /\ TallyInv => DecidedByMoreThanF
  <2> SUFFICES ASSUME IInv, TallyInv, NEW b \in Branch, Decided(b)
               PROVE  Cardinality(CreatorsOf(Event(b, Height(b)).support)) >= F + 1
    BY DEF DecidedByMoreThanF, Decisions, CreatorsOf
  <2>1. Height(b) \in Merged(b) /\ Event(b, Height(b)).decision
    BY EventType DEF IInv, Decided, Merged
  <2> QED BY <2>1 DEF TallyInv, DecisionsOfMany
<1> QED BY <1>1, TalliesSound, PTL

(* An endorsed proposal had the support of 2f+1 branches when it was made,  *)
(* and 2f+1 witnesses have seen it since.                                   *)
THEOREM EndorsementsEarned == Spec => []EndorsementEarned
<1>1. IInv /\ TallyInv => EndorsementEarned
  <2> SUFFICES ASSUME IInv, TallyInv, NEW b \in Branch, NEW g \in Merged(b),
                      HasEndorsedProposal(Event(b, g))
               PROVE  LET e == Event(b, g)
                          p == Event(b, e.proposal)
                      IN /\ Cardinality(Backers(p, p.support) \cup {b}) >= Supermajority
                         /\ Cardinality({w \in Witness : HasSeen(w, b, e.proposal, e.clock)})
                              >= Supermajority
    BY DEF EndorsementEarned, HasSeen
  <2> DEFINE e == Event(b, g)
             seers == {w \in Witness : HasSeen(w, b, e.proposal, e.clock)}
  <2>1. /\ Cardinality(e.endorsers) >= Supermajority
        /\ \A w \in e.endorsers : HasSeen(w, b, e.proposal, e.clock)
        /\ e.endorsers \subseteq Witness
    BY EventType, MergeEventFields DEF TallyInv, ProposalsBacked, HasEndorsedProposal, IInv
  <2>2. e.endorsers \in SUBSET seers /\ seers \in SUBSET Witness
    BY <2>1
  <2>3. Cardinality(seers) >= Supermajority
    <3> HIDE DEF seers, e
    <3>1. Cardinality(e.endorsers) <= Cardinality(seers)
      BY <2>2, Numbers, FS_Subset
    <3>2. Cardinality(e.endorsers) \in Nat /\ Cardinality(seers) \in Nat
      BY <2>1, <2>2, Numbers
    <3> QED BY <2>1, <3>1, <3>2, Numbers
  <2> QED BY <2>3 DEF TallyInv, ProposalsBacked, HasEndorsedProposal
<1> QED BY <1>1, TalliesSound, PTL
-----------------------------------------------------------------------------
(* What is chosen.                                                          *)

LEMMA ChosenSets ==
  \A set : set \in chosen <=>
    \E b \in Branch : Decided(b) /\ set = Event(b, Height(b)).support
BY DEF chosen, Decisions

(* A decision ends its branch, so what is chosen stays so, and a step adds  *)
(* one set at most.                                                         *)
LEMMA StepChooses ==
  ASSUME IInv, Next
  PROVE  /\ chosen \subseteq chosen'
         /\ \E set \in SUBSET Branch : chosen' \subseteq chosen \cup {set}
<1>1. TypeOK
  BY DEF IInv
<1>2. PICK b \in Branch : \E top \in Nat : \E d :
        LET e == Experiment(b, d)
        IN /\ ~Ended(b) /\ IsDraft(b, d) /\ top = Height(b) + 1
           /\ \A x \in Branch : Height(x)' = IF x = b THEN top ELSE Height(x)
           /\ \A x \in Branch : \A g \in Merged(x) : Event(x, g)' = Event(x, g)
           /\ Event(b, top)' = e
  BY <1>1, MergeFacts
<1>3. PICK top, d :
        LET e == Experiment(b, d)
        IN /\ top \in Nat
           /\ ~Ended(b) /\ IsDraft(b, d) /\ top = Height(b) + 1
           /\ \A x \in Branch : Height(x)' = IF x = b THEN top ELSE Height(x)
           /\ \A x \in Branch : \A g \in Merged(x) : Event(x, g)' = Event(x, g)
           /\ Event(b, top)' = e
  BY <1>2
<1> top \in Nat
  BY <1>3
<1>e. PICK e : e = Experiment(b, d)
  OBVIOUS
<1>4. e.support \in SUBSET Branch
  BY <1>1, <1>3, <1>e, ExperimentFacts, MergeEventFields
<1>5. /\ \A x \in Branch : Height(x)' = IF x = b THEN top ELSE Height(x)
      /\ \A x \in Branch : \A g \in Merged(x) : Event(x, g)' = Event(x, g)
      /\ Event(b, Height(b))' = e
      /\ ~Decided(b)
  BY <1>3, <1>e DEF Ended, Event
<1>6. ASSUME NEW x \in Branch \ {b}
      PROVE  Decided(x)' = Decided(x) /\ (Decided(x) => Event(x, Height(x))' = Event(x, Height(x)))
  <2>1. Height(x)' = Height(x) /\ Height(x) \in Nat
    BY <1>1, <1>5, EventType
  <2>2. CASE Height(x) > 0
    <3>1. Event(x, Height(x))' = Event(x, Height(x))
      BY <1>5, <2>1, <2>2 DEF Merged, Event
    <3> QED BY <2>1, <3>1 DEF Decided
  <2>3. CASE ~(Height(x) > 0)
    BY <2>1, <2>3 DEF Decided
  <2> QED BY <2>2, <2>3
<1>7. chosen \subseteq chosen'
  <2> SUFFICES ASSUME NEW set \in chosen PROVE set \in chosen'
    OBVIOUS
  <2>1. PICK x \in Branch : Decided(x) /\ set = Event(x, Height(x)).support
    BY ChosenSets
  <2>2. Decided(x)' /\ set = Event(x, Height(x))'.support
    BY <1>5, <1>6, <2>1
  <2> QED BY <2>2 DEF chosen, Decisions
<1>8. chosen' \subseteq chosen \cup {e.support}
  <2> SUFFICES ASSUME NEW set \in chosen', set # e.support PROVE set \in chosen
    OBVIOUS
  <2>1. PICK x \in Branch : Decided(x)' /\ set = Event(x, Height(x))'.support
    BY DEF chosen, Decisions
  <2>2. x # b
    BY <1>5, <2>1
  <2>3. Decided(x) /\ set = Event(x, Height(x)).support
    BY <1>6, <2>1, <2>2
  <2> QED BY <2>3, ChosenSets
<1> QED BY <1>4, <1>7, <1>8

(* A set that was decided on stays so, whatever is merged later.            *)
THEOREM DecisionsAreFinal == Spec => [][chosen \subseteq chosen']_vars
<1>1. IInv /\ [Next]_vars => [chosen \subseteq chosen']_vars
  BY StepChooses
<1>2. Spec => []IInv
  BY InitIInv, StepIInv, PTL DEF Spec
<1> QED BY <1>1, <1>2, PTL DEF Spec

(* As long as no two decisions differ the algorithm implements the choice   *)
(* of a single set: the first decision chooses it, all others confirm it.   *)
(* That they never differ is not so in every instance.                      *)
THEOREM AgreementChooses == Spec /\ []Agreement => ChoosesOnce
<1>1. Init => Abstract!Init
  <2> SUFFICES ASSUME Init PROVE chosen = {}
    BY DEF Abstract!Init
  <2>1. \A b \in Branch : ~Decided(b)
    BY DEF Init, Decided, Height
  <2> QED BY <2>1, ChosenSets
<1>2. IInv /\ [Next]_vars /\ Agreement' => [Abstract!Next]_chosen
  <2> SUFFICES ASSUME IInv, Agreement', Next PROVE [Abstract!Next]_chosen
    BY DEF vars, chosen, Decisions, Decided, Event, Height
  <2>1. PICK set \in SUBSET Branch : chosen \subseteq chosen' /\ chosen' \subseteq chosen \cup {set}
    BY StepChooses
  <2>2. \A s, t \in chosen' : s = t
    BY DEF Agreement, chosen
  <2>3. chosen' = chosen \/ (chosen = {} /\ chosen' = {set})
    BY <2>1, <2>2
  <2> QED BY <2>3 DEF Abstract!Next, Abstract!Choose
<1>3. Spec => []IInv
  BY InitIInv, StepIInv, PTL DEF Spec
<1> QED BY <1>1, <1>2, <1>3, PTL DEF Spec, ChoosesOnce, Abstract!Spec
=============================================================================
