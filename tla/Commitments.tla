----------------------------- MODULE Commitments -----------------------------
(***************************************************************************)
(* How a peer takes in the merge events of peers that are no witnesses     *)
(* (lib/worker/Worker.js, merge.js, lib/peerEvents.js, lib/events.js).     *)
(* Such an event may be stored and merged only after a commitment to it,   *)
(* in another merge event, has reached consensus.  Received before that    *)
(* from its creator, it is held back in memory until the local peer has    *)
(* committed to it and its own commitment is in a block.                   *)
(*                                                                         *)
(* The commitment is known in three places that have to agree: in storage, *)
(* in the memory of the work session, and in a cache that outlives work    *)
(* sessions but not the process.  No peer replays here: see Replays.       *)
(***************************************************************************)
EXTENDS Integers, Sequences, FiniteSets, FiniteSetsExt

CONSTANTS
  Event,           (* merge events of other peers                            *)
  Peer,            (* the peers that create them                             *)
  Local,           (* the local peer                                         *)
  Creator,         (* the creator of an event                                *)
  Before,          (* its creator's event before it, or None                 *)
  Basis,           (* its basisBlockHeight                                   *)
  None,
  WitnessSets,     (* what the witnesses of a block may be                   *)
  ByOthers,        (* events to which other peers may commit                 *)
  Lookback,        (* generations that are searched for a commitment         *)
  MaxHeight, MaxMerges, MaxSessions   (* bounds                              *)

ASSUME CommitmentsAssumption ==
  /\ IsFiniteSet(Event)
  /\ None \notin Event \cup [by : 1 .. MaxMerges, to : Event, consensus : BOOLEAN]
  /\ Creator \in [Event -> Peer]
  /\ Before \in [Event -> Event \cup {None}]
  /\ Basis \in [Event -> Nat]
  /\ WitnessSets \subseteq SUBSET (Peer \cup {Local}) /\ WitnessSets # {}
  /\ Local \notin Peer /\ ByOthers \subseteq Event
  /\ Lookback \in Nat
  /\ MaxHeight \in Nat /\ MaxMerges \in Nat /\ MaxSessions \in Nat

VARIABLES
  required,      (* storage: requiredBlockHeight of an event, -1: not stored *)
  heightOf,      (* storage: the height of its block, -1: no consensus       *)
  own,           (* storage: the local peer's merge events                   *)
  others,        (* storage: the height of another peer's commitment to an   *)
                 (* event, -1: none has reached consensus                    *)
  witnesses,     (* storage: the witnesses of every block and the next one   *)
  kept,          (* the process: the cross-session cache of withheld events  *)
  pc,            (* what the work session is at                              *)
  worker,        (* the memory of the work session                           *)
  sessions,      (* sessions begun                                           *)
  stale          (* this one withholds an event that had been stored before  *)

storage == <<required, heightOf, own, others, witnesses>>
vars == <<storage, kept, pc, worker, sessions, stale>>

height == Len(witnesses) - 1
NextWitnesses == witnesses[height + 1]
LocalIsWitness == Local \in NextWitnesses

Stored == {e \in Event : required[e] # -1}
Decided == {e \in Stored : heightOf[e] # -1}
CreatorsOf(es) == {Creator[e] : e \in es}

NoWorker == [history |-> {}, childless |-> {}, heldBack |-> {},
             withheld |-> None, commitment |-> None]
-----------------------------------------------------------------------------
(* The receiver's rule.                                                     *)

CommitHeights(e) ==
  ({own[g].height : g \in {i \in DOMAIN own : own[i].commit = e}} \cup {others[e]}) \ {-1}

(* Blocks after the event's own for which its creator was a witness.        *)
Conversions(e, h) == {k \in (Basis[e] + 2) .. h : Creator[e] \in witnesses[k]}

(* At height h: a peer that is a witness now or was one when it made the    *)
(* event needs no commitment; else the earliest commitment or the latest    *)
(* conversion allows the event.                                             *)
WrongRequiredHeights(e, h) ==
  IF Creator[e] \in witnesses[h + 1] THEN {Basis[e]}
  ELSE CommitHeights(e) \cup Conversions(e, h)
RequiredHeights(e, h) ==
  IF Creator[e] \in witnesses[h + 1] THEN {h}
  ELSE IF Creator[e] \in witnesses[Basis[e] + 1] THEN {Basis[e]}
  ELSE {c \in CommitHeights(e) : c <= h /\ \A d \in CommitHeights(e) : c <= d}
       \cup {k \in Conversions(e, h) : \A j \in Conversions(e, h) : j <= k}

Acceptable(e, h) == RequiredHeights(e, h) # {}

(* The event is there to be had, and its creator made it by the rules: a    *)
(* peer that is no witness waits until its last event has reached consensus.*)
Offered(e) ==
  /\ e \notin Stored
  /\ Basis[e] <= height
  /\ Before[e] # None =>
       /\ Before[e] \in Stored
       /\ Creator[e] \in witnesses[Basis[e] + 1] \/ heightOf[Before[e]] \in 0 .. Basis[e]

IsPeerWithheld(p) ==
  p \in CreatorsOf(worker.heldBack \cup ({worker.withheld} \ {None}))

(* What the writer does to the worker before and after events are stored.   *)
WrongClearedFor(w, e) == [w EXCEPT !.withheld = IF @ = e THEN None ELSE @]
ClearedFor(w, e) ==
  [w EXCEPT !.heldBack = @ \ {e}, !.withheld = IF @ = e THEN None ELSE @]
WithEvent(w, e) ==
  [ClearedFor(w, e) EXCEPT !.history = @ \cup {e},
                           !.childless = (@ \cup {e}) \ {Before[e]}]
KeptAfter(e) == IF worker.withheld = e THEN None ELSE kept

Receive(e) ==
  /\ pc = "on"
  /\ Offered(e)
  /\ Acceptable(e, height)
  /\ required' = [required EXCEPT ![e] = Min(RequiredHeights(e, height))]
  /\ worker' = WithEvent(worker, e)
  /\ kept' = KeptAfter(e)
  /\ UNCHANGED <<heightOf, own, others, witnesses, pc, sessions, stale>>

(* Writing fails, perhaps after the event has been stored.                  *)
ReceiveFails(e) ==
  /\ pc = "on"
  /\ Offered(e)
  /\ Acceptable(e, height)
  /\ \E h \in {-1, Min(RequiredHeights(e, height))} : required' = [required EXCEPT ![e] = h]
  /\ worker' = NoWorker
  /\ kept' = KeptAfter(e)
  /\ pc' = "off"
  /\ UNCHANGED <<heightOf, own, others, witnesses, sessions, stale>>

(* The creator itself sends an event that nothing allows yet.               *)
Withhold(e) ==
  /\ pc = "on"
  /\ Offered(e)
  /\ ~IsPeerWithheld(Creator[e])
  /\ ~Acceptable(e, height)
  /\ worker' = [worker EXCEPT !.heldBack = @ \cup {e}]
  /\ UNCHANGED <<storage, kept, pc, sessions, stale>>
-----------------------------------------------------------------------------
(* The local peer merges.                                                   *)

(* lastLocalContributorConsensus *)
ContributionsDecided == \A g \in DOMAIN own : own[g].contributes => own[g].height # -1

WitnessHeads ==
  {e \in Stored : /\ Creator[e] \in NextWitnesses
                  /\ \A x \in Stored : Before[x] # e}

(* The event committed to may be merged: by a witness at any time, by       *)
(* another peer only in the merge event after the one that committed.       *)
WrongCanMergeCommitted == worker.commitment # None /\ worker.commitment.consensus
CanMergeCommitted ==
  /\ worker.commitment # None
  /\ worker.commitment.consensus
  /\ LocalIsWitness \/ worker.commitment.by = Len(own)

(* It is merged if there is a place for it, which only an empty merge event *)
(* of a witness may lack, and no other event of its creator is merged.      *)
MayMerge(merged, heads, contributes) ==
  IF merged = {}
  THEN contributes => ~CanMergeCommitted
  ELSE /\ CanMergeCommitted
       /\ merged = {worker.commitment.to}
       /\ CreatorsOf(merged) \cap CreatorsOf(heads) = {}

(* A new commitment: not while one is pending; rather to a withheld event   *)
(* than to a childless one.                                                 *)
WithheldCandidates == {e \in worker.heldBack : Creator[e] \notin NextWitnesses}
HeadCandidates(parents) ==
  {e \in worker.childless : Creator[e] \notin NextWitnesses \cup CreatorsOf(parents)}
Candidates(parents) ==
  IF worker.commitment # None /\ ~worker.commitment.consensus THEN {None}
  ELSE IF WithheldCandidates # {} THEN WithheldCandidates
  ELSE IF HeadCandidates(parents) # {} THEN HeadCandidates(parents)
  ELSE {None}

(* _addLocalMergeEvent changes the worker and the cache, then the storage.  *)
AddLocalMergeEvent(parents, commit, contributes, stored) ==
  LET withheld == IF commit \in worker.heldBack THEN commit ELSE None
      event == [basis |-> height, merges |-> parents, commit |-> commit,
                contributes |-> contributes, height |-> -1]
      next == [worker EXCEPT
                 !.childless  = @ \ parents,
                 !.commitment = IF commit = None THEN @
                                ELSE [by |-> Len(own) + 1, to |-> commit, consensus |-> FALSE],
                 !.withheld   = IF withheld = None THEN @ ELSE withheld]
  IN /\ kept' = IF withheld = None THEN kept ELSE withheld
     /\ worker' = IF stored THEN next ELSE NoWorker
     /\ own' = IF stored THEN Append(own, event) ELSE own
     /\ pc' = IF stored THEN "on" ELSE "off"

Merge ==
  /\ pc = "on"
  /\ Len(own) < MaxMerges
  /\ \E contributes, stored \in BOOLEAN, heads \in SUBSET WitnessHeads :
     \E merged \in SUBSET Event :
       /\ contributes \/ LocalIsWitness
       /\ contributes => ContributionsDecided
       /\ LocalIsWitness \/ heads = {}
       /\ MayMerge(merged, heads, contributes)
       /\ \E commit \in Candidates(heads \cup merged) :
            AddLocalMergeEvent(heads \cup merged, commit, contributes, stored)
  /\ UNCHANGED <<required, heightOf, others, witnesses, sessions, stale>>
-----------------------------------------------------------------------------
(* Consensus.                                                               *)

(* A block decides own merge events up to one of them, events from the      *)
(* recent history with their ancestry, and commitments of other peers.      *)
DecidedWith(last, es) ==
  /\ \A e \in es : Before[e] \in worker.history => Before[e] \in es
  /\ \A g \in 1 .. last : own[g].merges \cap worker.history \subseteq es

WriteBlock ==
  /\ pc = "on"
  /\ height < MaxHeight
  /\ \E last \in 0 .. Len(own), es \in SUBSET worker.history, next \in WitnessSets :
     \E commits \in SUBSET {e \in ByOthers : Basis[e] <= height /\ others[e] = -1} :
       /\ DecidedWith(last, es)
       /\ heightOf' = [e \in Event |-> IF e \in es THEN height + 1 ELSE heightOf[e]]
       /\ own' = [g \in DOMAIN own |->
                    IF g <= last /\ own[g].height = -1
                    THEN [own[g] EXCEPT !.height = height + 1] ELSE own[g]]
       /\ others' = [e \in Event |-> IF e \in commits THEN height + 1 ELSE others[e]]
       /\ witnesses' = Append(witnesses, next)
  /\ pc' = "written"
  /\ UNCHANGED <<required, kept, worker, sessions, stale>>

(* _updateConsensusState after a block.                                     *)
DecidedNow == {e \in Event : heightOf[e] = height}
CommitmentReached ==
  worker.commitment # None /\ own[worker.commitment.by].height = height

(* The withheld event is stored when the commitment to it is in a block.    *)
ToWrite == IF CommitmentReached THEN {worker.withheld} \ {None} ELSE {}
WrongWithheldHeight == height + 1
WithheldHeight == height
RequiredAfterWrite ==
  [e \in Event |-> IF e \in ToWrite /\ e \notin Stored THEN WithheldHeight ELSE required[e]]

WithCommitmentReached(w) ==
  IF CommitmentReached THEN [w EXCEPT !.commitment.consensus = TRUE] ELSE w
WithWritten(w) == IF ToWrite = {} THEN w ELSE WithEvent(w, worker.withheld)

(* Events of new witnesses need not be withheld any more.                   *)
WithheldFromWitness(w) == w.withheld # None /\ Creator[w.withheld] \in NextWitnesses
WrongWithoutWitnesses(w) ==
  [w EXCEPT !.heldBack = {e \in @ : Creator[e] \notin NextWitnesses},
            !.withheld = IF WithheldFromWitness(w) THEN None ELSE @]
WithoutWitnesses(w) ==
  [w EXCEPT !.heldBack = {e \in @ : Creator[e] \notin NextWitnesses},
            !.withheld = IF WithheldFromWitness(w) THEN None ELSE @,
            !.commitment = IF WithheldFromWitness(w) THEN None ELSE @]
WrongWithoutDecided(w) == w
WithoutDecided(w) == [w EXCEPT !.history = @ \ DecidedNow]

UpdateConsensusState ==
  LET reached == WithoutDecided(WithWritten(WithCommitmentReached(worker)))
  IN /\ pc = "written"
     /\ required' = RequiredAfterWrite
     /\ worker' = WithoutWitnesses(reached)
     /\ kept' = IF ToWrite # {} \/ WithheldFromWitness(reached) THEN None ELSE kept
     /\ pc' = "on"
     /\ UNCHANGED <<heightOf, own, others, witnesses, sessions, stale>>

(* Writing the withheld event fails.                                        *)
UpdateFails ==
  /\ pc = "written"
  /\ ToWrite # {}
  /\ required' \in {required, RequiredAfterWrite}
  /\ worker' = NoWorker
  /\ kept' = None
  /\ pc' = "off"
  /\ UNCHANGED <<heightOf, own, others, witnesses, sessions, stale>>
-----------------------------------------------------------------------------
(* Work sessions.                                                           *)

(* Time is up, an error, or a new ledger configuration after a block.       *)
EndSession ==
  /\ pc # "off"
  /\ pc' = "off"
  /\ worker' = NoWorker
  /\ UNCHANGED <<storage, kept, sessions, stale>>

(* The process ends.                                                        *)
Crash ==
  /\ kept # None \/ pc # "off"
  /\ pc' = "off"
  /\ worker' = NoWorker
  /\ kept' = None
  /\ UNCHANGED <<storage, sessions, stale>>

(* The commitment that storage tells of: the last one without consensus, or *)
(* the last one with consensus if its event is stored.                      *)
Committing == {g \in DOMAIN own : own[g].commit # None}
Pending == {g \in Committing : own[g].height = -1}
Recent == {g \in Committing \ Pending : g >= Len(own) - Lookback}
WrongLatestCommitment == IF Pending # {} THEN {Min(Pending)} ELSE Recent
LatestCommitment ==
  IF Pending # {} THEN {Max(Pending)}
  ELSE {g \in Recent : /\ \A i \in Recent : i <= g
                       /\ own[g].commit \in Stored}

(* It is restored when its event is stored without consensus or kept.       *)
NonConsensus == Stored \ Decided
Restored(g) ==
  [by |-> g, to |-> own[g].commit, consensus |-> own[g].height # -1]
RestorableFrom(es) == {g \in LatestCommitment : own[g].commit \in es}
FromCache == RestorableFrom({kept} \ NonConsensus)

(* A commitment to a peer that became a witness in the block after its      *)
(* event is dropped.                                                        *)
Needless(e) ==
  Basis[e] + 2 <= height + 1 /\ Creator[e] \in witnesses[Basis[e] + 2]

ChildlessIn(es) ==
  {e \in es : /\ \A x \in es : Before[x] # e
              /\ \A g \in DOMAIN own : own[g].height = -1 => e \notin own[g].merges}

StartSession ==
  LET found == RestorableFrom(NonConsensus) \cup FromCache
      dropped == \E g \in found : Needless(own[g].commit)
  IN /\ pc = "off"
     /\ sessions < MaxSessions
     /\ sessions' = sessions + 1
     /\ worker' = [history    |-> NonConsensus,
                   childless  |-> ChildlessIn(NonConsensus),
                   heldBack   |-> {},
                   withheld   |-> IF FromCache = {} \/ dropped THEN None ELSE kept,
                   commitment |-> IF found = {} \/ dropped THEN None
                                  ELSE Restored(CHOOSE g \in found : TRUE)]
     /\ kept' = IF dropped THEN None ELSE kept
     /\ stale' = (worker'.withheld \in Stored)
     /\ pc' = "on"
     /\ UNCHANGED storage
-----------------------------------------------------------------------------
Init ==
  /\ required = [e \in Event |-> -1]
  /\ heightOf = [e \in Event |-> -1]
  /\ own = <<>>
  /\ others = [e \in Event |-> -1]
  /\ \E next \in WitnessSets : witnesses = <<next>>
  /\ kept = None
  /\ pc = "off"
  /\ worker = NoWorker
  /\ sessions = 0
  /\ stale = FALSE

Next ==
  \/ \E e \in Event : Receive(e) \/ ReceiveFails(e) \/ Withhold(e)
  \/ Merge
  \/ WriteBlock \/ UpdateConsensusState \/ UpdateFails
  \/ StartSession \/ EndSession \/ Crash

Spec == Init /\ [][Next]_vars
-----------------------------------------------------------------------------
Heights == -1 .. MaxHeight

OwnEvent ==
  [basis : 0 .. MaxHeight, merges : SUBSET Event, commit : Event \cup {None},
   contributes : BOOLEAN, height : Heights]

Worker ==
  [history : SUBSET Event, childless : SUBSET Event, heldBack : SUBSET Event,
   withheld : Event \cup {None},
   commitment : {None} \cup [by : 1 .. MaxMerges, to : Event, consensus : BOOLEAN]]

(* Every variable has its type.                                             *)
TypeOK ==
  /\ required \in [Event -> Heights]
  /\ heightOf \in [Event -> Heights]
  /\ own \in Seq(OwnEvent) /\ Len(own) <= MaxMerges
  /\ others \in [Event -> Heights]
  /\ witnesses \in Seq(WitnessSets) /\ Len(witnesses) \in 1 .. MaxHeight + 1
  /\ kept \in Event \cup {None}
  /\ pc \in {"off", "on", "written"}
  /\ worker \in Worker
  /\ sessions \in 0 .. MaxSessions
  /\ stale \in BOOLEAN

(* What merge.js may merge is there: when the commitment it goes by has     *)
(* consensus, the event committed to is stored, whichever of block, cache   *)
(* and restart brought it about.                                            *)
CommittedIsStored ==
  worker.commitment # None /\ worker.commitment.consensus => worker.commitment.to \in Stored

(* The requiredBlockHeight that an event is stored and served with is true: *)
(* a peer that has reached it, or any later height, would take the event    *)
(* too and not call the local peer a violator for sending it.               *)
AcceptableLater ==
  \A e \in Stored : \A h \in required[e] .. height : Basis[e] <= h => Acceptable(e, h)

(* The protocol's rule for the merge events the local peer makes: an event  *)
(* of a peer that was no witness has an own commitment in a block at most   *)
(* as high as the merging event's basis, and if the local peer was no       *)
(* witness either, the event before made that commitment.                   *)
MergedWasCommitted ==
  \A g \in DOMAIN own : \A e \in own[g].merges :
    \/ Creator[e] \in witnesses[own[g].basis + 1]
    \/ \E i \in 1 .. g - 1 :
         /\ own[i].commit = e
         /\ own[i].height \in 0 .. own[g].basis
         /\ Local \in witnesses[own[g].basis + 1] \/ i = g - 1

(* What is held back is not in storage, where it would be merged and        *)
(* gossiped meanwhile.                                                      *)
HeldBackIsAway ==
  /\ worker.heldBack \cap Stored = {}
  /\ worker.withheld \in Stored => stale

(* The commitment in memory is the last one that storage has, and tells     *)
(* whether it is in a block; the event withheld is the one it is to.        *)
CommitmentIsRecorded ==
  /\ worker.commitment # None =>
       /\ worker.commitment.by = Max(Committing)
       /\ worker.commitment.to = own[worker.commitment.by].commit
       /\ pc = "on" =>
            (worker.commitment.consensus <=> own[worker.commitment.by].height # -1)
  /\ worker.withheld # None /\ ~stale =>
       /\ worker.commitment # None
       /\ worker.commitment.to = worker.withheld
       /\ ~worker.commitment.consensus

(* A session's memory of recent history, which the consensus algorithm and  *)
(* the merging work on, is what a restart would read from storage.          *)
HistoryAsRestored ==
  pc = "on" /\ ~stale =>
    /\ worker.history = NonConsensus
    /\ worker.childless \cap NonConsensus = ChildlessIn(NonConsensus)
===========================================================================
