----------------------------- MODULE Continuity -----------------------------
(***************************************************************************)
(* The continuity consensus algorithm (lib/continuity.js) for one block,   *)
(* run over a growing history of merge events.                             *)
(*                                                                         *)
(* A branch is one witness's chain of merge events since the last block; a *)
(* witness that forked has more than one branch.  The event of branch b    *)
(* and generation g is dag[b][g]; generation 1 is the branch's `y' event   *)
(* (its tail).  What an event knows is its cut of the history: clock[x] is *)
(* the generation of the most recent event of branch x in its ancestry, 0  *)
(* when there is none.  Everything findConsensus computes for an event     *)
(* depends on its ancestry alone, so it is stored with the event and two   *)
(* nodes that know the event agree on it.                                  *)
(*                                                                         *)
(* An event at which consensus is reached ends its branch: a node that     *)
(* knows it builds the block, and no event that descends from it is ever   *)
(* evaluated for this block.  So does an event whose evaluation throws: in *)
(* a node that knows it every session ends before it merges.  A single     *)
(* witness decides alone: there are 3f+1 witnesses, f > 0.                 *)
(***************************************************************************)
EXTENDS Integers, Sequences, FiniteSets

CONSTANTS
  Branch,       (* the branches of merge events                              *)
  Witness,      (* the witnesses for the block                               *)
  Creator,      (* the witness that creates the events of a branch           *)
  F,            (* the number of witnesses that may fail                     *)
  Contributor,  (* branches whose witness has local operations to contribute *)
  Unruly,       (* branches not bound by the rules of merge.js               *)
  BaseHeight,   (* mergeHeight of the head a branch starts from              *)
  GenLimit,     (* bound: events modelled on a branch                        *)
  Lag           (* bound: how many of a witness's newest events may be       *)
                (* unknown to another witness that merges                    *)

ASSUME ContinuityAssumption ==
  /\ IsFiniteSet(Branch)
  /\ IsFiniteSet(Witness)
  /\ F \in Nat \ {0}
  /\ Cardinality(Witness) = 3 * F + 1
  /\ Creator \in [Branch -> Witness]
  /\ Contributor \subseteq Branch
  /\ Unruly \subseteq Branch
  /\ BaseHeight \in [Branch -> Nat]
  /\ GenLimit \in [Branch -> Nat]
  /\ Lag \in Nat

VARIABLES
  dag,          (* the merge events of each branch, oldest first             *)
  contributed   (* branches that merged local operations since the last block*)

vars == <<dag, contributed>>

(* Each definition whose name starts with `Wrong' is a fault the code might *)
(* have, put in place of the definition after it to see that a property     *)
(* below notices it.  No behaviour of the specification uses one.           *)
WrongFPlusOne == F
Supermajority == 2 * F + 1
FPlusOne == F + 1

Event(b, g) == dag[b][g]
Height(b) == Len(dag[b])

MergeEvent ==
  [clock      : [Branch -> Nat],    (* generation seen of each branch        *)
   mergeHeight: Nat,
   voters     : SUBSET Branch,      (* branches of its most recent witness   *)
                                    (* ancestors, without those `false'      *)
   revoked    : BOOLEAN,            (* its support is `false'                *)
   failed     : BOOLEAN,            (* computing its support throws          *)
   support    : SUBSET Branch,      (* the branches whose y it supports      *)
   proposal   : Nat,                (* generation of its proposal, 0 if none *)
   endorsers  : SUBSET Witness,     (* of that proposal                      *)
   endorsed   : BOOLEAN,            (* whether 2f+1 endorsed that proposal   *)
   decision   : BOOLEAN]            (* consensus is reached here             *)

Decided(b) == Height(b) > 0 /\ Event(b, Height(b)).decision
Failed(b) == Height(b) > 0 /\ Event(b, Height(b)).failed
Ended(b) == Decided(b) \/ Failed(b)
-----------------------------------------------------------------------------
(* What an event with the cut c sees.                                       *)

Seen(c) == {x \in Branch : c[x] > 0}

Vote(c, x) == Event(x, c[x])

BranchesOf == [w \in Witness |-> {x \in Branch : Creator[x] = w}]
Own(b) == BranchesOf[Creator[b]]

(* The index of an event has the branch x or nothing of x's witness.        *)
WrongAgrees(e, x) == x \in e.voters \/ e.voters \cap Own(x) = {}
Agrees(e, x) == x \in e.voters \/ \A y \in Own(x) : e.clock[y] = 0

(* The index of the most recent witness ancestors of branch b's next event: *)
(* its own last event, which replaces whatever the index of that event has  *)
(* for its witness, and for another witness the branch on which the parents *)
(* and their indexes agree.  A witness in the cut that has no branch in the *)
(* index is `false' in it.                                                  *)
MostRecent(b, c, parents) ==
  {x \in Seen(c) :
     /\ x \in Own(b) /\ Height(b) > 0 => x = b
     /\ \A y \in parents : Creator[y] = Creator[x] => y = x
     /\ \A y \in parents \cup (IF x = b THEN {} ELSE Seen(c) \cap {b}) :
          Agrees(Vote(c, y), x)}

Backers(e, set) == {x \in e.voters : Vote(e.clock, x).support = set}

(* A tally of an event counts its proposal only once that is endorsed.      *)
HasEndorsedProposal(e) == e.proposal > 0 /\ e.endorsed

EndorsedBackers(e, set) ==
  {x \in Backers(e, set) : HasEndorsedProposal(Vote(e.clock, x))}

WrongTallied(e) == {Event(x, Height(x)).support : x \in e.voters}
Tallied(e) == {Vote(e.clock, x).support : x \in e.voters}
FPlusOneSupport(e) == {set \in Tallied(e) : Cardinality(Backers(e, set)) >= FPlusOne}

(* The union of the sets with f+1 support; without any, of all support, to  *)
(* which a `y' event adds itself.                                           *)
WrongChooseSupport(b, e) == (UNION Tallied(e)) \cup (IF Height(b) = 0 THEN {b} ELSE {})
ChooseSupport(b, e) ==
  IF FPlusOneSupport(e) # {}
  THEN UNION FPlusOneSupport(e)
  ELSE (UNION Tallied(e)) \cup (IF Height(b) = 0 THEN {b} ELSE {})

(* The union of all support iterates over a support that is `false'.        *)
Throws(e) == /\ FPlusOneSupport(e) = {}
             /\ \E x \in e.voters : Vote(e.clock, x).revoked
-----------------------------------------------------------------------------
(* The witnesses that endorse the proposal of generation p on branch b for  *)
(* the event e: those whose most recent event in its ancestry descends from *)
(* the proposal.                                                            *)
WrongEndorsers(b, p, e) == {Creator[x] : x \in e.voters}
Endorsers(b, p, e) ==
  {Creator[x] : x \in {x \in e.voters : /\ b \in Vote(e.clock, x).voters
                                       /\ Vote(e.clock, x).clock[b] >= p}}

(* The next event of branch b keeps the proposal of the last.               *)
WrongKeeps(b, choice) == Height(b) > 0 /\ Event(b, Height(b)).proposal > 0
Keeps(b, choice) ==
  /\ Height(b) > 0
  /\ Event(b, Height(b)).proposal > 0
  /\ Event(b, Event(b, Height(b)).proposal).support = choice

NewEvent(c, voters, mergeHeight) ==
  [clock |-> c, mergeHeight |-> mergeHeight, voters |-> voters, revoked |-> FALSE,
   failed |-> FALSE, support |-> {}, proposal |-> 0, endorsers |-> {},
   endorsed |-> FALSE, decision |-> FALSE]

WrongExperiment(b, e) ==
  LET choice == ChooseSupport(b, e)
  IN [e EXCEPT !.support = choice,
        !.decision = Cardinality(Backers(e, choice) \cup {b}) >= FPlusOne]

(* The next event e of branch b after the experiment.                       *)
Experiment(b, e) ==
  LET gen        == Height(b) + 1
      previous   == Event(b, gen - 1)
      own        == e.voters \cap Own(b)
      revoked    == own = {} /\ Seen(e.clock) \cap Own(b) # {}
      choice     == ChooseSupport(b, e)
      switched   == \A x \in own : Vote(e.clock, x).support # choice
      count      == Cardinality(Backers(e, choice)) + (IF switched THEN 1 ELSE 0)
      kept       == Keeps(b, choice)
      endorsers  == IF previous.endorsed THEN previous.endorsers
                    ELSE previous.endorsers \cup Endorsers(b, previous.proposal, e)
      endorses   == /\ kept
                    /\ ~previous.endorsed
                    /\ Cardinality(endorsers) >= Supermajority
      endorsed   == Cardinality(EndorsedBackers(e, choice))
                      + (IF endorses THEN 1 ELSE 0)
      proposes   == ~kept /\ count >= Supermajority
      event      == [e EXCEPT !.support = choice]
  IN IF revoked THEN [e EXCEPT !.revoked = TRUE]
     ELSE IF Throws(e) THEN [e EXCEPT !.failed = TRUE]
     ELSE IF endorsed >= FPlusOne THEN [event EXCEPT !.decision = TRUE]
     ELSE IF kept
          THEN [event EXCEPT !.proposal = previous.proposal,
                             !.endorsers = endorsers,
                             !.endorsed = previous.endorsed \/ endorses]
     ELSE IF proposes
          THEN [event EXCEPT !.proposal = gen, !.endorsers = {Creator[b]}]
     ELSE event
-----------------------------------------------------------------------------
(* Merging (lib/worker/merge.js).  The cut of a merge event is a cut of the *)
(* history closed under ancestry: all that its parents know.                *)

Known(b) == IF Height(b) = 0 THEN [x \in Branch |-> 0]
                             ELSE Event(b, Height(b)).clock

(* The event that ends a branch is not an ancestor of any event of this     *)
(* block.                                                                   *)
Mergeable(x) == IF Ended(x) THEN Height(x) - 1 ELSE Height(x)

View(b, missed) == [x \in Branch |-> IF x = b THEN Height(b)
                                              ELSE Mergeable(x) - missed[x]]

Views(b) ==
  {c \in {View(b, missed) : missed \in [Branch \ {b} -> 0 .. Lag]} :
     /\ \A x \in Branch : Known(b)[x] <= c[x]
     /\ \A x \in Seen(c), y \in Branch : Vote(c, x).clock[y] <= c[y]}

(* The branches on which the parents of branch b's next event may be, when  *)
(* that has the cut c, b itself left out: the most recent event of the      *)
(* branch in the cut is the parent.  No two parents are of one witness, and *)
(* no parent but the tree parent of the event's own.                        *)
Parents(b, c) ==
  {parents \in SUBSET (Seen(c) \ Own(b)) :
     /\ \A x, y \in parents : Creator[x] = Creator[y] => x = y
     /\ \A x \in Branch \ {b} :
          \/ c[x] = Known(b)[x]
          \/ x \in parents
          \/ \E y \in parents : Vote(c, y).clock[x] = c[x]}

HeadHeight(c, x) == IF c[x] = 0 THEN BaseHeight[x] ELSE Vote(c, x).mergeHeight

(* The witnesses whose heads count toward the threshold of an empty merge.  *)
(* The heads of this block among them are parents of the merge event.       *)
WrongThresholdWitnesses(b, c, parents) ==
  {Creator[x] : x \in {x \in Branch \ Own(b) : HeadHeight(c, x) > HeadHeight(c, b)}}
ThresholdWitnesses(b, c, parents) ==
  {Creator[x] : x \in {x \in Branch \ Own(b) :
                          /\ HeadHeight(c, x) >= HeadHeight(c, b)
                          /\ x \in Seen(c) => x \in parents}}

(* An empty merge event needs 2f peer witnesses that are not behind.        *)
EmptyParents(b, c) ==
  {parents \in Parents(b, c) :
     b \in Unruly \/ Cardinality(ThresholdWitnesses(b, c, parents)) >= 2 * F}

(* A merge event is one higher than the highest of its parents.             *)
Extend(b, c, choices) ==
  \E index \in {MostRecent(b, c, parents) : parents \in choices}, x \in Branch :
    /\ \A y \in Branch : HeadHeight(c, y) <= HeadHeight(c, x)
    /\ dag' = [dag EXCEPT ![b] =
                 Append(@, Experiment(b, NewEvent(c, index, HeadHeight(c, x) + 1)))]

CanMerge(b) == Height(b) < GenLimit[b] /\ ~Ended(b)

MergeEmpty(b, c) ==
  /\ CanMerge(b)
  /\ Extend(b, c, EmptyParents(b, c))
  /\ UNCHANGED contributed

(* A merge event with local operations needs no other witness, but only one *)
(* can be made until it reaches consensus.                                  *)
WrongCanContribute(b) == b \notin contributed
CanContribute(b) == b \in Contributor \ contributed

MergeLocal(b, c) ==
  /\ CanMerge(b)
  /\ CanContribute(b)
  /\ Extend(b, c, Parents(b, c))
  /\ contributed' = contributed \cup {b}

Init == /\ dag = [b \in Branch |-> << >>]
        /\ contributed = {}

Next == \E b \in Branch : \E c \in Views(b) : MergeEmpty(b, c) \/ MergeLocal(b, c)

Spec == Init /\ [][Next]_vars
-----------------------------------------------------------------------------
(* Properties.                                                              *)

Merged(b) == 1 .. Height(b)

(* Every event carries the fields _experiment may set, with their types.    *)
TypeOK == /\ dag \in [Branch -> Seq(MergeEvent)]
          /\ contributed \subseteq Contributor

Decisions == {Event(b, Height(b)) : b \in {x \in Branch : Decided(x)}}
chosen == {e.support : e \in Decisions}

(* Any two events at which findConsensus reports consensus report the same  *)
(* consensus set: every node builds the same block.                         *)
Agreement == \A d, e \in Decisions : d.support = e.support

(* The detailed algorithm implements the choice of a single consensus set:  *)
(* the set is chosen once and every later decision confirms it.             *)
Abstract == INSTANCE Consensus WITH chosen <- chosen, Value <- SUBSET Branch
ChoosesOnce == Abstract!Spec

(* A block is built from the y events of at least f+1 witnesses, so the f   *)
(* that may fail never decide alone what a block holds.  It need not be a   *)
(* supermajority: merge events with local operations wait for no threshold. *)
DecidedByMoreThanF ==
  \A d \in Decisions : Cardinality({Creator[x] : x \in d.support}) >= F + 1

(* Whoever knows an event knows every y event it supports: a node that sees *)
(* a decision can build the whole block from its own history.               *)
SupportInAncestry ==
  \A b \in Branch : \A g \in Merged(b) :
    Event(b, g).support \subseteq Seen(Event(b, g).clock) \cup {b}

(* Whatever forks, the only event with the support `false' that an event    *)
(* ever tallies is its own tree parent: nobody counts another witness once  *)
(* that has seen its own fork (_chooseSupport iterates over the support of  *)
(* each event tallied).                                                     *)
OnlyOwnRevoked ==
  \A b \in Branch : \A g \in Merged(b) :
    LET e == Event(b, g)
    IN \A x \in e.voters : Vote(e.clock, x).revoked => x = b

(* A witness that has seen its own fork supports nothing any more: its lack *)
(* of support remains until consensus is reached.                           *)
RevocationLasts ==
  \A b \in Branch : \A g, h \in Merged(b) :
    g < h /\ Event(b, g).revoked => Event(b, h).revoked

(* While an event holds a proposal its branch has never left it: every      *)
(* event since the proposal holds it too and supports the same set.         *)
ProposalHeld ==
  \A b \in Branch : \A g \in Merged(b) :
    LET p == Event(b, g).proposal
    IN p > 0 => /\ p <= g
                /\ \A h \in p .. g : /\ Event(b, h).proposal = p
                                     /\ Event(b, h).support = Event(b, p).support

(* An endorsed proposal was made with the support of 2f+1 witnesses and has *)
(* since been seen by 2f+1 witnesses.                                       *)
EndorsementEarned ==
  \A b \in Branch : \A g \in Merged(b) :
    LET e == Event(b, g)
        p == Event(b, e.proposal)
    IN HasEndorsedProposal(e) =>
         /\ Cardinality(Backers(p, p.support) \cup {b}) >= Supermajority
         /\ Cardinality({w \in Witness : \E x \in Branch :
                            /\ Creator[x] = w
                            /\ \/ x = b
                               \/ /\ e.clock[x] > 0
                                  /\ Vote(e.clock, x).clock[b] >= e.proposal})
              >= Supermajority

(* Once consensus is reached, whoever knew at least as much supports that   *)
(* set and no other.                                                        *)
DecisionLocks ==
  \A d \in Decisions : \A b \in Branch : \A g \in Merged(b) :
    (\A x \in Branch : d.clock[x] <= Event(b, g).clock[x])
      => Event(b, g).support = d.support
=============================================================================
