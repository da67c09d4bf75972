-------------------------- MODULE CommitmentsProofs --------------------------
(***************************************************************************)
(* Theorems about commitments to the merge events of non-witnesses, for    *)
(* any events, peers, witness sets and bounds.                             *)
(***************************************************************************)
EXTENDS Commitments, SequenceTheorems, WellFoundedInduction, TLAPS

(* The parts of the inductive invariant: of the storage.                    *)

(* No height is above that of the last block, and a merge event's basis is  *)
(* a height too.                                                            *)
HeightsReached ==
  /\ \A e \in Event : heightOf[e] <= height /\ others[e] <= height
  /\ \A g \in DOMAIN own : own[g].height <= height /\ own[g].basis <= height

(* The local peer's merge events reach consensus in their order.            *)
DecidedPrefix ==
  \A g, i \in DOMAIN own : g <= i /\ own[i].height # -1 => own[g].height # -1

(* Only stored events are decided and merged.                               *)
StoredFirst ==
  /\ \A e \in Event : heightOf[e] # -1 => e \in Stored
  /\ \A g \in DOMAIN own : own[g].merges \subseteq Stored

(* An event's basis is reached and its predecessor stored.                  *)
Placed(e) == Basis[e] <= height /\ (Before[e] # None => Before[e] \in Stored)

(* What makes a height a true requirement of an event.                      *)
Evidence(e, r) ==
  \/ Creator[e] \in witnesses[Basis[e] + 1]
  \/ \E c \in CommitHeights(e) : c <= r
  \/ \E k \in Basis[e] + 2 .. r + 1 : Creator[e] \in witnesses[k]
StoredWithEvidence ==
  \A e \in Stored : Placed(e) /\ required[e] <= height /\ Evidence(e, required[e])

StorageInv ==
  HeightsReached /\ DecidedPrefix /\ StoredFirst /\ StoredWithEvidence /\ MergedWasCommitted

(* Of the memory.                                                           *)

(* Without a work session there is no memory of one.                        *)
MemoryGone == pc = "off" => worker = NoWorker

(* What is in hand might be stored: it has its place.                       *)
InHandPlaced ==
  \A e \in (worker.heldBack \cup {worker.withheld, kept}) \ {None} : Placed(e)

(* What is remembered is stored, what is held back is not.                  *)
MemoryApart ==
  /\ worker.history \cup worker.childless \subseteq Stored
  /\ worker.heldBack \cap Stored = {}

(* The commitment in memory is that of the last own event that commits, and *)
(* knows all but the block just written.                                    *)
CommitmentKnown ==
  LET c == worker.commitment IN
  c # None =>
    /\ c.by \in DOMAIN own
    /\ c.to = own[c.by].commit
    /\ \A g \in Committing : g <= c.by
    /\ pc = "on" => (c.consensus <=> own[c.by].height # -1)
    /\ pc = "written" =>
         (c.consensus <=> own[c.by].height # -1 /\ own[c.by].height # height)

(* The event committed to is stored, or it is withheld meanwhile.           *)
CommittedIsThere ==
  LET c == worker.commitment IN
  c # None => c.to \in Stored \/ (~c.consensus /\ worker.withheld = c.to)

(* The event withheld is the one the pending commitment is to, or one that  *)
(* was stored when the session began.                                       *)
WithheldIsCommitted ==
  worker.withheld # None =>
    \/ worker.withheld \in Stored /\ stale
    \/ /\ worker.withheld \notin Stored
       /\ worker.commitment # None
       /\ worker.commitment.to = worker.withheld
       /\ ~worker.commitment.consensus

(* The memory of recent history is that of the storage, but for the block   *)
(* just written.                                                            *)
Remembered ==
  pc # "off" /\ ~stale =>
    /\ NonConsensus \subseteq worker.history
    /\ \A e \in worker.history \ NonConsensus : pc = "written" /\ heightOf[e] = height
    /\ worker.childless \cap NonConsensus = ChildlessIn(NonConsensus)

MemoryInv ==
  /\ MemoryGone /\ InHandPlaced /\ MemoryApart /\ CommitmentKnown
  /\ CommittedIsThere /\ WithheldIsCommitted /\ Remembered

IInv == TypeOK /\ StorageInv /\ MemoryInv
-----------------------------------------------------------------------------
(* Least and greatest heights.                                              *)

LEMMA LeastNat ==
  ASSUME NEW S \in SUBSET Nat, S # {}
  PROVE  \E x \in S : \A y \in S : x <= y
<1> DEFINE R == {ss \in Nat \X Nat : ss[1] < ss[2]}
<1>1. IsWellFoundedOn(R, Nat)
  BY NatLessThanWellFounded DEF OpToRel
<1>2. PICK x \in S : \A y \in S : ~ (<<y, x>> \in R)
  <2> HIDE DEF R
  <2> QED BY <1>1, WFMin
<1>3. ASSUME NEW y \in S, ~(x <= y) PROVE FALSE
  <2>1. <<y, x>> \in R
    BY <1>3
  <2> QED BY <1>2, <2>1
<1> QED BY <1>3

LEMMA GreatestBelow ==
  ASSUME NEW b \in Nat, NEW S \in SUBSET (0 .. b), S # {}
  PROVE  \E x \in S : \A y \in S : y <= x
<1> DEFINE T == {b - x : x \in S}
<1>1. T \in SUBSET Nat /\ T # {}
  OBVIOUS
<1>2. PICK t \in T : \A u \in T : t <= u
  <2> HIDE DEF T
  <2> QED BY <1>1, LeastNat
<1>3. PICK x \in S : t = b - x
  OBVIOUS
<1>4. ASSUME NEW y \in S PROVE y <= x
  <2>1. b - y \in T
    OBVIOUS
  <2>2. b - x <= b - y
    BY <1>2, <1>3, <2>1
  <2> QED BY <2>2
<1> QED BY <1>4

(* What Min and Max choose.                                                 *)
LEMMA MinIs ==
  ASSUME NEW S, NEW x \in S, \A y \in S : x <= y
  PROVE  Min(S) \in S /\ \A y \in S : Min(S) <= y
BY DEF Min

LEMMA MaxIs ==
  ASSUME NEW S, NEW x \in S, \A y \in S : x >= y
  PROVE  Max(S) \in S /\ \A y \in S : Max(S) >= y
BY DEF Max
-----------------------------------------------------------------------------
(* What the types say of heights and of the own events.                     *)
LEMMA Ranges ==
  ASSUME TypeOK
  PROVE  /\ height \in 0 .. MaxHeight
         /\ Len(witnesses) = height + 1
         /\ Len(own) \in 0 .. MaxMerges
         /\ DOMAIN own = 1 .. Len(own)
         /\ \A g \in DOMAIN own : own[g] \in OwnEvent
BY CommitmentsAssumption DEF TypeOK, height

LEMMA CommitHeightsType ==
  ASSUME TypeOK, NEW e \in Event
  PROVE  CommitHeights(e) \subseteq 0 .. MaxHeight
<1>1. \A g \in DOMAIN own : own[g].height \in Heights
  BY Ranges DEF OwnEvent
<1>2. others[e] \in Heights
  BY DEF TypeOK
<1>3. Heights \ {-1} \subseteq 0 .. MaxHeight
  BY CommitmentsAssumption DEF Heights
<1>4. ASSUME NEW x \in CommitHeights(e) PROVE x \in Heights \ {-1}
  BY <1>1, <1>2 DEF CommitHeights
<1> QED BY <1>3, <1>4

(* At a height that is reached, evidence makes an event acceptable.         *)
LEMMA EvidenceAccepts ==
  ASSUME TypeOK, NEW e \in Event, NEW h \in 0 .. height, NEW r \in Int, r <= h,
         Basis[e] <= h, Evidence(e, r)
  PROVE  Acceptable(e, h)
<1> USE CommitmentsAssumption
<1>1. Basis[e] \in Nat /\ height \in Nat
  BY Ranges
<1>2. CASE Creator[e] \in witnesses[h + 1] \/ Creator[e] \in witnesses[Basis[e] + 1]
  BY <1>2 DEF Acceptable, RequiredHeights
<1>3. CASE \E c \in CommitHeights(e) : c <= r
  <2>1. CommitHeights(e) \in SUBSET Nat /\ CommitHeights(e) # {}
    BY <1>3, CommitHeightsType
  <2>2. PICK c \in CommitHeights(e) : \A d \in CommitHeights(e) : c <= d
    BY <2>1, LeastNat
  <2>3. c <= h
    BY <1>1, <1>3, <2>1, <2>2
  <2> QED BY <2>2, <2>3 DEF Acceptable, RequiredHeights
<1>4. CASE /\ \E k \in Basis[e] + 2 .. r + 1 : Creator[e] \in witnesses[k]
           /\ Creator[e] \notin witnesses[h + 1]
  <2>1. PICK k \in Basis[e] + 2 .. r + 1 : Creator[e] \in witnesses[k]
    BY <1>4
  <2>2. k # h + 1
    BY <1>4, <2>1
  <2>3. k \in Conversions(e, h)
    BY <1>1, <2>1, <2>2 DEF Conversions
  <2>4. Conversions(e, h) \in SUBSET (0 .. h)
    BY <1>1 DEF Conversions
  <2>5. PICK m \in Conversions(e, h) : \A j \in Conversions(e, h) : j <= m
    BY <1>1, <2>3, <2>4, GreatestBelow
  <2> QED BY <2>5 DEF Acceptable, RequiredHeights
<1> QED BY <1>2, <1>3, <1>4 DEF Evidence

(* The height an event is stored with is one of those that it requires, and *)
(* has its evidence.                                                        *)
LEMMA RequiredHeight ==
  ASSUME TypeOK, NEW e \in Event, Basis[e] <= height, Acceptable(e, height),
         NEW r, r = Min(RequiredHeights(e, height))
  PROVE  r \in 0 .. height /\ Evidence(e, r)
<1> USE CommitmentsAssumption
<1>1. Basis[e] \in Nat /\ height \in Nat
  BY Ranges
<1>2. CommitHeights(e) \in SUBSET Nat
  BY CommitHeightsType
<1>3. RequiredHeights(e, height) \in SUBSET (0 .. height)
  BY <1>1, <1>2 DEF RequiredHeights, Conversions
<1>4. RequiredHeights(e, height) # {}
  BY DEF Acceptable
<1>5. r \in RequiredHeights(e, height)
  <2>1. PICK x \in RequiredHeights(e, height) : \A y \in RequiredHeights(e, height) : x <= y
    BY <1>1, <1>3, <1>4, LeastNat
  <2> QED BY <2>1, MinIs
<1>6. r \in 0 .. height
  BY <1>3, <1>5
<1> SUFFICES Evidence(e, r)
  BY <1>6
<1>7. CASE Creator[e] \in witnesses[height + 1]
  <2>1. r = height
    BY <1>5, <1>7 DEF RequiredHeights
  <2>2. CASE Basis[e] = height
    BY <1>7, <2>2 DEF Evidence
  <2>3. CASE Basis[e] < height
    <3>1. height + 1 \in Basis[e] + 2 .. r + 1
      BY <1>1, <2>1, <2>3
    <3> QED BY <1>7, <3>1 DEF Evidence
  <2> QED BY <1>1, <2>2, <2>3
<1>8. CASE Creator[e] \in witnesses[Basis[e] + 1]
  BY <1>8 DEF Evidence
<1>9. CASE r \in CommitHeights(e)
  BY <1>1, <1>3, <1>5, <1>9 DEF Evidence
<1>10. CASE r \in Conversions(e, height)
  <2>1. r \in Basis[e] + 2 .. r + 1 /\ Creator[e] \in witnesses[r]
    BY <1>1, <1>10 DEF Conversions
  <2> QED BY <2>1 DEF Evidence
<1> QED BY <1>5, <1>6, <1>7, <1>8, <1>9, <1>10 DEF RequiredHeights
-----------------------------------------------------------------------------
(* The worker's memory.                                                     *)
CommitmentRecord == [by : 1 .. MaxMerges, to : Event, consensus : BOOLEAN]

LEMMA NoWorkerType == NoWorker \in Worker
BY DEF NoWorker, Worker

LEMMA WithEventFields ==
  ASSUME NEW w \in Worker, NEW e \in Event
  PROVE  /\ WithEvent(w, e) \in Worker
         /\ WithEvent(w, e).history = w.history \cup {e}
         /\ WithEvent(w, e).childless = (w.childless \cup {e}) \ {Before[e]}
         /\ WithEvent(w, e).heldBack = w.heldBack \ {e}
         /\ WithEvent(w, e).withheld = IF w.withheld = e THEN None ELSE w.withheld
         /\ WithEvent(w, e).commitment = w.commitment
<1> DEFINE c == ClearedFor(w, e)
<1>1. /\ c \in Worker
      /\ c.history = w.history /\ c.childless = w.childless /\ c.heldBack = w.heldBack \ {e}
      /\ c.withheld = IF w.withheld = e THEN None ELSE w.withheld
      /\ c.commitment = w.commitment
  BY DEF ClearedFor, Worker
<1> HIDE DEF c
<1>2. WithEvent(w, e) = [c EXCEPT !.history = @ \cup {e},
                                  !.childless = (@ \cup {e}) \ {Before[e]}]
  BY DEF WithEvent, c
<1>3. WithEvent(w, e) \in Worker
  <2>1. c.history \in SUBSET Event /\ c.childless \in SUBSET Event
    BY <1>1 DEF Worker
  <2>2. ASSUME NEW h \in SUBSET Event, NEW l \in SUBSET Event
        PROVE  [c EXCEPT !.history = h, !.childless = l] \in Worker
    BY <1>1 DEF Worker
  <2>3. c.history \cup {e} \in SUBSET Event /\ (c.childless \cup {e}) \ {Before[e]} \in SUBSET Event
    BY <2>1
  <2> QED BY <1>2, <2>2, <2>3
<1>4. /\ WithEvent(w, e).history = c.history \cup {e}
      /\ WithEvent(w, e).childless = (c.childless \cup {e}) \ {Before[e]}
      /\ WithEvent(w, e).heldBack = c.heldBack
      /\ WithEvent(w, e).withheld = c.withheld
      /\ WithEvent(w, e).commitment = c.commitment
  BY <1>1, <1>2 DEF Worker
<1> QED BY <1>1, <1>3, <1>4

(* What the worker becomes after a block.                                   *)
LEMMA UpdatedFields ==
  ASSUME TypeOK, UpdateConsensusState
  PROVE  \E r \in Worker :
           /\ r.history = (worker.history \cup ToWrite) \ DecidedNow
           /\ r.childless = IF ToWrite = {} THEN worker.childless
                            ELSE (worker.childless \cup ToWrite) \ {Before[worker.withheld]}
           /\ r.heldBack = worker.heldBack \ ToWrite
           /\ r.withheld = IF ToWrite = {} THEN worker.withheld ELSE None
           /\ r.commitment = IF CommitmentReached
                             THEN [worker.commitment EXCEPT !.consensus = TRUE]
                             ELSE worker.commitment
           /\ worker' \in Worker
           /\ worker'.history = r.history
           /\ worker'.childless = r.childless
           /\ worker'.heldBack \subseteq r.heldBack
           /\ kept' \in {kept, None}
           /\ \/ /\ worker'.withheld = r.withheld
                 /\ worker'.commitment = r.commitment
              \/ worker'.withheld = None /\ worker'.commitment = None
<1> DEFINE a == WithCommitmentReached(worker)
           b == WithWritten(a)
           r == WithoutDecided(b)
<1>1. worker \in Worker /\ worker.withheld \in Event \cup {None}
  BY DEF TypeOK, Worker
<1>2. /\ a \in Worker /\ a.history = worker.history /\ a.childless = worker.childless
      /\ a.heldBack = worker.heldBack /\ a.withheld = worker.withheld
      /\ a.commitment = IF CommitmentReached
                        THEN [worker.commitment EXCEPT !.consensus = TRUE]
                        ELSE worker.commitment
  <2>1. CASE CommitmentReached
    <3>1. worker.commitment \in CommitmentRecord
      BY <1>1, <2>1 DEF CommitmentReached, Worker, CommitmentRecord
    <3>2. [worker.commitment EXCEPT !.consensus = TRUE] \in CommitmentRecord
      BY <3>1 DEF CommitmentRecord
    <3>3. a = [worker EXCEPT !.commitment = [worker.commitment EXCEPT !.consensus = TRUE]]
      BY <2>1 DEF WithCommitmentReached
    <3> HIDE DEF a
    <3> QED BY <1>1, <2>1, <3>2, <3>3 DEF Worker, CommitmentRecord
  <2>2. CASE ~CommitmentReached
    BY <1>1, <2>2 DEF WithCommitmentReached
  <2> QED BY <2>1, <2>2
<1> HIDE DEF a
<1>3. ToWrite # {} => worker.withheld \in Event /\ ToWrite = {worker.withheld}
  BY <1>1 DEF ToWrite
<1>4. /\ b \in Worker /\ b.history = worker.history \cup ToWrite
      /\ b.childless = IF ToWrite = {} THEN worker.childless
                       ELSE (worker.childless \cup ToWrite) \ {Before[worker.withheld]}
      /\ b.heldBack = worker.heldBack \ ToWrite
      /\ b.withheld = IF ToWrite = {} THEN worker.withheld ELSE None
      /\ b.commitment = a.commitment
  <2>1. CASE ToWrite = {}
    BY <1>2, <2>1 DEF WithWritten
  <2>2. CASE ToWrite # {}
    <3>1. b = WithEvent(a, worker.withheld)
      BY <2>2 DEF WithWritten
    <3>2. /\ WithEvent(a, worker.withheld) \in Worker
          /\ WithEvent(a, worker.withheld).history = a.history \cup ToWrite
          /\ WithEvent(a, worker.withheld).childless
               = (a.childless \cup ToWrite) \ {Before[worker.withheld]}
          /\ WithEvent(a, worker.withheld).heldBack = a.heldBack \ ToWrite
          /\ WithEvent(a, worker.withheld).withheld = None
          /\ WithEvent(a, worker.withheld).commitment = a.commitment
      BY <1>2, <1>3, <2>2, WithEventFields
    <3> HIDE DEF b
    <3> QED BY <1>2, <2>2, <3>1, <3>2
  <2> QED BY <2>1, <2>2
<1> HIDE DEF b
<1>5. /\ r \in Worker /\ r.history = b.history \ DecidedNow
      /\ r.childless = b.childless /\ r.heldBack = b.heldBack
      /\ r.withheld = b.withheld /\ r.commitment = b.commitment
  BY <1>4 DEF WithoutDecided, Worker
<1>6. /\ worker' = WithoutWitnesses(r)
      /\ kept' \in {kept, None}
  BY DEF UpdateConsensusState, r, b, a
<1> HIDE DEF r
<1>7. WithoutWitnesses(r) =
        [r EXCEPT !.heldBack = {e \in @ : Creator[e] \notin NextWitnesses},
                  !.withheld = IF WithheldFromWitness(r) THEN None ELSE @,
                  !.commitment = IF WithheldFromWitness(r) THEN None ELSE @]
  BY DEF WithoutWitnesses
<1>8. /\ worker' \in Worker
      /\ worker'.history = r.history
      /\ worker'.childless = r.childless
      /\ worker'.heldBack \subseteq r.heldBack
      /\ worker'.withheld = IF WithheldFromWitness(r) THEN None ELSE r.withheld
      /\ worker'.commitment = IF WithheldFromWitness(r) THEN None ELSE r.commitment
  BY <1>5, <1>6, <1>7 DEF Worker
<1> r \in Worker
  BY <1>5
<1> WITNESS r \in Worker
<1> QED BY <1>2, <1>4, <1>5, <1>6, <1>8
-----------------------------------------------------------------------------
LEMMA InitIInv == Init => IInv
<1> SUFFICES ASSUME Init PROVE IInv
  OBVIOUS
<1>1. PICK next \in WitnessSets : witnesses = <<next>>
  BY DEF Init
<1>2. height = 0 /\ Len(witnesses) = 1 /\ witnesses \in Seq(WitnessSets)
  BY <1>1 DEF height
<1>3. own = <<>> /\ DOMAIN own = {} /\ own \in Seq(OwnEvent) /\ Len(own) = 0
  BY DEF Init
<1>4. TypeOK
  <2>1. required \in [Event -> Heights] /\ heightOf \in [Event -> Heights]
        /\ others \in [Event -> Heights]
    BY CommitmentsAssumption DEF Init, Heights
  <2>2. Len(own) <= MaxMerges /\ Len(witnesses) \in 1 .. MaxHeight + 1 /\ 0 \in 0 .. MaxSessions
    BY <1>2, <1>3, CommitmentsAssumption
  <2> QED BY <1>2, <1>3, <2>1, <2>2, NoWorkerType DEF Init, TypeOK
<1>5. Stored = {}
  BY DEF Init, Stored
<1>6. StorageInv
  BY <1>2, <1>3, <1>5 DEF Init, StorageInv, HeightsReached, DecidedPrefix, StoredFirst,
     StoredWithEvidence, MergedWasCommitted
<1>7. MemoryInv
  BY <1>5 DEF Init, NoWorker, MemoryInv, MemoryGone, InHandPlaced, MemoryApart,
     CommitmentKnown, CommittedIsThere, WithheldIsCommitted, Remembered
<1> QED BY <1>4, <1>6, <1>7 DEF IInv

(* An event, with its evidence, is stored, or the attempt fails.            *)
LEMMA OneStored ==
  ASSUME TypeOK, StorageInv, NEW e \in Event, Placed(e),
         NEW r \in 0 .. height, Evidence(e, r),
         required' \in {required, [required EXCEPT ![e] = r]}, required[e] = -1,
         UNCHANGED <<heightOf, own, others, witnesses>>
  PROVE  /\ StorageInv'
         /\ required' \in [Event -> Heights]
         /\ height' = height
         /\ Stored' = IF required' = required THEN Stored ELSE Stored \cup {e}
<1>1. height' = height
  BY DEF height
<1>2. required' \in [Event -> Heights]
  <2>1. r \in Heights
    BY Ranges, CommitmentsAssumption DEF Heights
  <2> QED BY <2>1 DEF TypeOK
<1>3. Stored' = IF required' = required THEN Stored ELSE Stored \cup {e}
  <2>1. CASE required' = required
    BY <2>1 DEF Stored
  <2>2. CASE required' # required
    <3>1. required' = [required EXCEPT ![e] = r] /\ r # -1
      BY <2>2, Ranges
    <3> QED BY <2>2, <3>1 DEF Stored, TypeOK
  <2> QED BY <2>1, <2>2
<1>4. (HeightsReached /\ DecidedPrefix /\ MergedWasCommitted)'
  BY <1>1 DEF StorageInv, HeightsReached, DecidedPrefix, MergedWasCommitted
<1>5. StoredFirst'
  BY <1>3 DEF StorageInv, StoredFirst
<1>6. StoredWithEvidence'
  <2> SUFFICES ASSUME NEW x \in Stored'
               PROVE  Placed(x)' /\ required'[x] <= height' /\ Evidence(x, required[x])'
    BY DEF StoredWithEvidence
  <2>1. x \in Event
    BY DEF Stored
  <2>2. /\ Placed(x) => Placed(x)'
        /\ \A q : Evidence(x, q) => Evidence(x, q)'
    BY <1>1, <1>3 DEF Placed, Evidence, CommitHeights
  <2>3. CASE x \in Stored /\ x # e
    BY <1>1, <2>1, <2>2, <2>3 DEF StorageInv, StoredWithEvidence, TypeOK
  <2>4. CASE x = e
    <3>1. required' # required /\ required' = [required EXCEPT ![e] = r]
      BY <2>4 DEF Stored
    <3> QED BY <1>1, <2>1, <2>2, <2>4, <3>1, Ranges DEF TypeOK
  <2> QED BY <1>3, <2>3, <2>4
<1> QED BY <1>1, <1>2, <1>3, <1>4, <1>5, <1>6 DEF StorageInv

LEMMA StorageKept ==
  ASSUME StorageInv, UNCHANGED storage
  PROVE  StorageInv' /\ height' = height /\ Stored' = Stored
<1>1. UNCHANGED <<required, heightOf, own, others, witnesses>>
  BY DEF storage
<1>2. height' = height /\ Stored' = Stored
  BY <1>1 DEF height, Stored
<1>3. ASSUME NEW e PROVE Placed(e)' = Placed(e) /\ \A q : Evidence(e, q)' = Evidence(e, q)
  BY <1>1, <1>2 DEF Placed, Evidence, CommitHeights
<1>4. StoredWithEvidence'
  BY <1>1, <1>2, <1>3 DEF StorageInv, StoredWithEvidence
<1> QED BY <1>1, <1>2, <1>4 DEF StorageInv, HeightsReached, DecidedPrefix,
         MergedWasCommitted, StoredFirst

(* A work session is over.                                                  *)
LEMMA MemoryLost ==
  ASSUME MemoryInv, Stored \subseteq Stored', height' = height,
         worker' = NoWorker, pc' = "off", kept' \in {kept, None} \cup worker.heldBack
  PROVE  MemoryInv'
<1>1. InHandPlaced'
  <2> SUFFICES ASSUME NEW e \in {kept'} \ {None} PROVE Placed(e)'
    BY DEF InHandPlaced, NoWorker
  <2>1. Placed(e)
    BY DEF MemoryInv, InHandPlaced
  <2> QED BY <2>1 DEF Placed
<1>2. (MemoryGone /\ MemoryApart /\ CommitmentKnown /\ CommittedIsThere /\ WithheldIsCommitted)'
  BY DEF NoWorker, MemoryGone, MemoryApart, CommitmentKnown, CommittedIsThere,
     WithheldIsCommitted
<1>3. Remembered'
  BY DEF Remembered
<1> QED BY <1>1, <1>2, <1>3 DEF MemoryInv
-----------------------------------------------------------------------------
(* One lemma for each kind of step.                                         *)

LEMMA SessionOver ==
  ASSUME IInv, EndSession \/ Crash
  PROVE  IInv'
<1>1. UNCHANGED storage /\ worker' = NoWorker /\ pc' = "off" /\ kept' \in {kept, None}
  BY DEF EndSession, Crash
<1>2. StorageInv' /\ height' = height /\ Stored' = Stored
  BY <1>1, StorageKept DEF IInv
<1>3. MemoryInv'
  BY <1>1, <1>2, MemoryLost DEF IInv
<1>4. TypeOK'
  BY <1>1, NoWorkerType DEF IInv, TypeOK, EndSession, Crash, storage
<1> QED BY <1>2, <1>3, <1>4 DEF IInv

LEMMA StoringFails ==
  ASSUME IInv, NEW e \in Event, ReceiveFails(e)
  PROVE  IInv'
<1> DEFINE r == Min(RequiredHeights(e, height))
<1>1. /\ Placed(e) /\ required[e] = -1 /\ Acceptable(e, height) /\ Basis[e] <= height
      /\ required' \in {[required EXCEPT ![e] = -1], [required EXCEPT ![e] = r]}
      /\ UNCHANGED <<heightOf, own, others, witnesses, sessions, stale>>
      /\ worker' = NoWorker /\ pc' = "off" /\ kept' \in {kept, None}
  BY DEF ReceiveFails, Offered, Placed, Stored, KeptAfter
<1>2. r \in 0 .. height /\ Evidence(e, r)
  BY <1>1, RequiredHeight DEF IInv
<1> HIDE DEF r
<1>3. required' \in {required, [required EXCEPT ![e] = r]}
  BY <1>1 DEF IInv, TypeOK
<1>4. StorageInv' /\ required' \in [Event -> Heights] /\ height' = height /\ Stored \subseteq Stored'
  BY <1>1, <1>2, <1>3, OneStored DEF IInv
<1>5. MemoryInv'
  BY <1>1, <1>4, MemoryLost DEF IInv
<1>6. TypeOK'
  BY <1>1, <1>4, NoWorkerType DEF IInv, TypeOK
<1> QED BY <1>4, <1>5, <1>6 DEF IInv

(* An event that is put where it belongs is a childless one of those that   *)
(* are there, and its predecessor is one no more.                           *)
LEMMA ChildlessGrows ==
  ASSUME StorageInv, NEW e \in Event \ Stored, Placed(e), NEW es \in SUBSET Stored
  PROVE  ChildlessIn(es \cup {e}) = (ChildlessIn(es) \cup {e}) \ {Before[e]}
<1>1. \A x \in es \cup {e} : Before[x] # e
  <2>1. \A x \in es \cup {e} : Before[x] = None \/ Before[x] \in Stored
    BY DEF StorageInv, StoredWithEvidence, Placed
  <2> QED BY <2>1, CommitmentsAssumption
<1>2. \A g \in DOMAIN own : e \notin own[g].merges
  BY DEF StorageInv, StoredFirst
<1>3. e \in ChildlessIn(es \cup {e})
  BY <1>1, <1>2 DEF ChildlessIn
<1>4. ASSUME NEW x \in es
      PROVE  x \in ChildlessIn(es \cup {e}) <=> x \in ChildlessIn(es) /\ x # Before[e]
  BY <1>4 DEF ChildlessIn
<1>5. Before[e] # e
  BY <1>1
<1>6. ChildlessIn(es \cup {e}) \subseteq es \cup {e} /\ ChildlessIn(es) \subseteq es
  BY DEF ChildlessIn
<1>7. e \notin es
  OBVIOUS
<1> QED BY <1>3, <1>4, <1>5, <1>6, <1>7

LEMMA Received ==
  ASSUME IInv, NEW e \in Event, Receive(e)
  PROVE  IInv'
<1> DEFINE r == Min(RequiredHeights(e, height))
<1>1. /\ Placed(e) /\ required[e] = -1 /\ Acceptable(e, height) /\ Basis[e] <= height
      /\ required' = [required EXCEPT ![e] = r]
      /\ UNCHANGED <<heightOf, own, others, witnesses, pc, sessions, stale>>
      /\ worker' = WithEvent(worker, e) /\ pc = "on" /\ kept' \in {kept, None}
      /\ e \notin Stored
  BY DEF Receive, Offered, Placed, Stored, KeptAfter
<1>2. r \in 0 .. height /\ Evidence(e, r)
  BY <1>1, RequiredHeight DEF IInv
<1> HIDE DEF r
<1>3. /\ StorageInv' /\ required' \in [Event -> Heights] /\ height' = height
      /\ Stored' = IF required' = required THEN Stored ELSE Stored \cup {e}
  BY <1>1, <1>2, OneStored DEF IInv
<1>4. Stored' = Stored \cup {e}
  <2>1. required'[e] = r /\ r # -1
    BY <1>1, <1>2, Ranges DEF IInv, TypeOK
  <2> QED BY <1>1, <1>3, <2>1
<1>5. worker \in Worker
  BY DEF IInv, TypeOK
<1>6. /\ worker' \in Worker
      /\ worker'.history = worker.history \cup {e}
      /\ worker'.childless = (worker.childless \cup {e}) \ {Before[e]}
      /\ worker'.heldBack = worker.heldBack \ {e}
      /\ worker'.withheld = IF worker.withheld = e THEN None ELSE worker.withheld
      /\ worker'.commitment = worker.commitment
  BY <1>1, <1>5, WithEventFields
<1>7. TypeOK'
  BY <1>1, <1>3, <1>6 DEF IInv, TypeOK
<1>8. MemoryInv'
  <2>1. (MemoryGone /\ MemoryApart)'
    BY <1>1, <1>4, <1>6 DEF IInv, MemoryInv, MemoryGone, MemoryApart
  <2>2. InHandPlaced'
    <3>1. \A x : Placed(x) => Placed(x)'
      BY <1>3, <1>4 DEF Placed
    <3> QED BY <1>1, <1>6, <3>1 DEF IInv, MemoryInv, InHandPlaced
  <2>3. CommitmentKnown'
    BY <1>1, <1>3, <1>6 DEF IInv, MemoryInv, CommitmentKnown, Committing
  <2>4. CommittedIsThere'
    BY <1>4, <1>6 DEF IInv, MemoryInv, CommittedIsThere
  <2>5. WithheldIsCommitted'
    BY <1>1, <1>4, <1>6 DEF IInv, MemoryInv, WithheldIsCommitted
  <2>6. Remembered'
    <3> SUFFICES ASSUME ~stale
                 PROVE  /\ NonConsensus' \subseteq worker'.history
                        /\ worker'.history \subseteq NonConsensus'
                        /\ worker'.childless \cap NonConsensus' = ChildlessIn(NonConsensus)'
      BY <1>1 DEF Remembered
    <3>1. heightOf[e] = -1
      BY <1>1 DEF IInv, StorageInv, StoredFirst
    <3>2. NonConsensus' = NonConsensus \cup {e}
      BY <1>1, <1>4, <3>1 DEF NonConsensus, Decided
    <3>3. worker.history = NonConsensus /\ worker.childless \cap NonConsensus = ChildlessIn(NonConsensus)
      BY <1>1 DEF IInv, MemoryInv, Remembered
    <3>4. ChildlessIn(NonConsensus)' = ChildlessIn(NonConsensus \cup {e})
      BY <1>1, <3>2 DEF ChildlessIn
    <3>5. NonConsensus \in SUBSET Stored
      BY DEF NonConsensus
    <3>6. ChildlessIn(NonConsensus \cup {e}) = (ChildlessIn(NonConsensus) \cup {e}) \ {Before[e]}
      BY <1>1, <3>5, ChildlessGrows DEF IInv
    <3> QED BY <1>6, <3>2, <3>3, <3>4, <3>6
  <2> QED BY <2>1, <2>2, <2>3, <2>4, <2>5, <2>6 DEF MemoryInv
<1> QED BY <1>3, <1>7, <1>8 DEF IInv

LEMMA Withheld ==
  ASSUME IInv, NEW e \in Event, Withhold(e)
  PROVE  IInv'
<1>1. /\ Placed(e) /\ e \notin Stored
      /\ UNCHANGED <<storage, kept, pc, sessions, stale>> /\ pc = "on"
      /\ worker' = [worker EXCEPT !.heldBack = @ \cup {e}]
  BY DEF Withhold, Offered, Placed
<1>2. worker \in Worker
  BY DEF IInv, TypeOK
<1>3. /\ worker' \in Worker
      /\ worker'.heldBack = worker.heldBack \cup {e}
      /\ worker'.history = worker.history /\ worker'.childless = worker.childless
      /\ worker'.withheld = worker.withheld /\ worker'.commitment = worker.commitment
  BY <1>1, <1>2 DEF Worker
<1>4. StorageInv' /\ height' = height /\ Stored' = Stored
  BY <1>1, StorageKept DEF IInv
<1>5. TypeOK'
  BY <1>1, <1>3 DEF IInv, TypeOK, storage
<1>6. UNCHANGED <<required, heightOf, own, others, witnesses, kept, pc, sessions, stale>>
  BY <1>1 DEF storage
<1>7. MemoryInv'
  <2>1. (MemoryGone /\ MemoryApart)'
    BY <1>1, <1>3, <1>4, <1>6 DEF IInv, MemoryInv, MemoryGone, MemoryApart
  <2>2. InHandPlaced'
    BY <1>1, <1>3, <1>4, <1>6 DEF IInv, MemoryInv, InHandPlaced, Placed
  <2>3. CommitmentKnown'
    BY <1>3, <1>4, <1>6 DEF IInv, MemoryInv, CommitmentKnown, Committing
  <2>4. (CommittedIsThere /\ WithheldIsCommitted)'
    BY <1>3, <1>4, <1>6 DEF IInv, MemoryInv, CommittedIsThere, WithheldIsCommitted
  <2>5. Remembered'
    BY <1>3, <1>4, <1>6 DEF IInv, MemoryInv, Remembered, NonConsensus, Decided, ChildlessIn
  <2> QED BY <2>1, <2>2, <2>3, <2>4, <2>5 DEF MemoryInv
<1> QED BY <1>4, <1>5, <1>7 DEF IInv

(* After a block: the event withheld has the commitment in it as evidence.  *)
LEMMA WithheldEvidence ==
  ASSUME IInv, pc = "written", NEW e \in ToWrite, e \notin Stored
  PROVE  /\ e = worker.withheld /\ ToWrite = {e} /\ e \in Event /\ CommitmentReached
         /\ Placed(e) /\ required[e] = -1
         /\ height \in 0 .. height /\ Evidence(e, height)
<1>1. e = worker.withheld /\ e # None /\ ToWrite = {e} /\ CommitmentReached
  BY DEF ToWrite
<1>2. e \in Event /\ height \in Nat
  BY <1>1, Ranges DEF IInv, TypeOK, Worker
<1>3. Placed(e)
  BY <1>1 DEF IInv, MemoryInv, InHandPlaced
<1>4. worker.commitment # None /\ worker.commitment.to = e
  BY <1>1 DEF IInv, MemoryInv, WithheldIsCommitted
<1> DEFINE g == worker.commitment.by
<1>5. g \in DOMAIN own /\ own[g].commit = e /\ own[g].height = height
  BY <1>1, <1>4 DEF IInv, MemoryInv, CommitmentKnown, CommitmentReached
<1> HIDE DEF g
<1>6. height \in CommitHeights(e)
  BY <1>2, <1>5 DEF CommitHeights
<1>7. Evidence(e, height)
  BY <1>2, <1>6 DEF Evidence
<1> QED BY <1>1, <1>2, <1>3, <1>7 DEF Stored

LEMMA WithheldStored ==
  ASSUME IInv, pc = "written", required' \in {required, RequiredAfterWrite},
         UNCHANGED <<heightOf, own, others, witnesses>>
  PROVE  /\ StorageInv'
         /\ required' \in [Event -> Heights]
         /\ height' = height /\ Stored \subseteq Stored'
         /\ required' = RequiredAfterWrite => Stored' = Stored \cup ToWrite
<1>1. CASE ToWrite \subseteq Stored
  <2>1. required' = required
    BY <1>1 DEF RequiredAfterWrite, IInv, TypeOK
  <2>2. UNCHANGED storage
    BY <2>1 DEF storage
  <2> QED BY <1>1, <2>1, <2>2, StorageKept DEF IInv, TypeOK
<1>2. CASE ~(ToWrite \subseteq Stored)
  <2>1. PICK e \in ToWrite : e \notin Stored
    BY <1>2
  <2>2. /\ ToWrite = {e} /\ e \in Event /\ Placed(e) /\ required[e] = -1
        /\ height \in 0 .. height /\ Evidence(e, height)
    BY <2>1, WithheldEvidence
  <2>3. RequiredAfterWrite = [required EXCEPT ![e] = height]
    BY <2>1, <2>2 DEF RequiredAfterWrite, WithheldHeight, IInv, TypeOK
  <2>4. /\ StorageInv'
        /\ required' \in [Event -> Heights]
        /\ height' = height
        /\ Stored' = IF required' = required THEN Stored ELSE Stored \cup {e}
    BY <2>2, <2>3, OneStored DEF IInv
  <2>5. required' = RequiredAfterWrite => required' # required
    BY <2>2, <2>3, Ranges DEF IInv, TypeOK
  <2> QED BY <2>2, <2>4, <2>5
<1> QED BY <1>1, <1>2

LEMMA UpdateFailed ==
  ASSUME IInv, UpdateFails
  PROVE  IInv'
<1>1. /\ pc = "written" /\ required' \in {required, RequiredAfterWrite}
      /\ worker' = NoWorker /\ kept' \in {kept, None} /\ kept' = None /\ pc' = "off"
      /\ UNCHANGED <<heightOf, own, others, witnesses, sessions, stale>>
  BY DEF UpdateFails
<1>2. StorageInv' /\ required' \in [Event -> Heights] /\ height' = height /\ Stored \subseteq Stored'
  BY <1>1, WithheldStored
<1>3. MemoryInv'
  BY <1>1, <1>2, MemoryLost DEF IInv
<1>4. TypeOK'
  BY <1>1, <1>2, NoWorkerType DEF IInv, TypeOK
<1> QED BY <1>2, <1>3, <1>4 DEF IInv

LEMMA Updated ==
  ASSUME IInv, UpdateConsensusState
  PROVE  IInv'
<1>1. /\ pc = "written" /\ required' = RequiredAfterWrite /\ pc' = "on"
      /\ UNCHANGED <<heightOf, own, others, witnesses, sessions, stale>>
  BY DEF UpdateConsensusState
<1>2. /\ StorageInv' /\ required' \in [Event -> Heights] /\ height' = height
      /\ Stored' = Stored \cup ToWrite
  BY <1>1, WithheldStored
<1>3. PICK r \in Worker :
        /\ r.history = (worker.history \cup ToWrite) \ DecidedNow
        /\ r.childless = IF ToWrite = {} THEN worker.childless
                         ELSE (worker.childless \cup ToWrite) \ {Before[worker.withheld]}
        /\ r.heldBack = worker.heldBack \ ToWrite
        /\ r.withheld = IF ToWrite = {} THEN worker.withheld ELSE None
        /\ r.commitment = IF CommitmentReached
                          THEN [worker.commitment EXCEPT !.consensus = TRUE]
                          ELSE worker.commitment
        /\ worker' \in Worker
        /\ worker'.history = r.history
        /\ worker'.childless = r.childless
        /\ worker'.heldBack \subseteq r.heldBack
        /\ kept' \in {kept, None}
        /\ \/ /\ worker'.withheld = r.withheld
              /\ worker'.commitment = r.commitment
           \/ worker'.withheld = None /\ worker'.commitment = None
  BY UpdatedFields DEF IInv
<1>4. TypeOK'
  BY <1>1, <1>2, <1>3 DEF IInv, TypeOK
<1>5. CommitmentReached =>
        /\ worker.commitment # None /\ r.commitment.by = worker.commitment.by
        /\ r.commitment.to = worker.commitment.to /\ r.commitment.consensus
  <2>1. CommitmentReached => worker.commitment \in CommitmentRecord
    BY DEF CommitmentReached, IInv, TypeOK, Worker, CommitmentRecord
  <2> QED BY <1>3, <2>1 DEF CommitmentReached, CommitmentRecord
<1>6. ~CommitmentReached => r.commitment = worker.commitment /\ ToWrite = {}
  BY <1>3 DEF ToWrite
<1>7. (MemoryGone /\ MemoryApart)'
  BY <1>1, <1>2, <1>3 DEF IInv, MemoryInv, MemoryGone, MemoryApart
<1>8. InHandPlaced'
  <2>1. \A x : Placed(x) => Placed(x)'
    BY <1>2 DEF Placed
  <2> QED BY <1>3, <2>1 DEF IInv, MemoryInv, InHandPlaced
<1>9. CommitmentKnown'
  <2> SUFFICES ASSUME worker'.commitment # None
               PROVE  /\ r.commitment.by \in DOMAIN own
                      /\ r.commitment.to = own[r.commitment.by].commit
                      /\ \A g \in Committing : g <= r.commitment.by
                      /\ r.commitment.consensus <=> own[r.commitment.by].height # -1
    BY <1>1, <1>3 DEF CommitmentKnown, Committing
  <2>1. worker'.commitment = r.commitment
    BY <1>3
  <2>2. CASE CommitmentReached
    <3>1. own[worker.commitment.by].height = height /\ height # -1
      BY <2>2, Ranges DEF CommitmentReached, IInv
    <3> QED BY <1>5, <2>2, <3>1 DEF IInv, MemoryInv, CommitmentKnown
  <2>3. CASE ~CommitmentReached
    <3>1. worker.commitment # None /\ own[worker.commitment.by].height # height
      BY <1>6, <2>1, <2>3 DEF CommitmentReached
    <3> QED BY <1>1, <1>6, <2>3, <3>1 DEF IInv, MemoryInv, CommitmentKnown
  <2> QED BY <2>2, <2>3
<1>10. CommittedIsThere'
  <2> SUFFICES ASSUME worker'.commitment # None
               PROVE  \/ r.commitment.to \in Stored'
                      \/ ~r.commitment.consensus /\ r.withheld = r.commitment.to
    BY <1>3 DEF CommittedIsThere
  <2>1. CASE CommitmentReached
    <3>1. worker.commitment.to \in Stored \/ worker.withheld = worker.commitment.to
      BY <1>5, <2>1 DEF IInv, MemoryInv, CommittedIsThere
    <3>2. worker.commitment.to # None
      BY <1>5, <2>1, CommitmentsAssumption DEF IInv, TypeOK, Worker
    <3> QED BY <1>2, <1>5, <2>1, <3>1, <3>2 DEF ToWrite
  <2>2. CASE ~CommitmentReached
    BY <1>2, <1>3, <1>6, <2>2 DEF IInv, MemoryInv, CommittedIsThere
  <2> QED BY <2>1, <2>2
<1>11. WithheldIsCommitted'
  <2> SUFFICES ASSUME worker'.withheld # None
               PROVE  WithheldIsCommitted'
    BY DEF WithheldIsCommitted
  <2>1. ToWrite = {} /\ worker'.withheld = worker.withheld /\ worker'.commitment = r.commitment
    BY <1>3
  <2>2. ~CommitmentReached
    BY <2>1 DEF ToWrite
  <2> QED BY <1>1, <1>2, <1>6, <2>1, <2>2 DEF IInv, MemoryInv, WithheldIsCommitted
<1>12. Remembered'
  <2> SUFFICES ASSUME ~stale
               PROVE  /\ NonConsensus' = worker'.history
                      /\ worker'.childless \cap NonConsensus' = ChildlessIn(NonConsensus)'
    BY <1>1 DEF Remembered
  <2>1. /\ NonConsensus \subseteq worker.history
        /\ \A e \in worker.history \ NonConsensus : heightOf[e] = height
        /\ worker.childless \cap NonConsensus = ChildlessIn(NonConsensus)
    BY <1>1 DEF IInv, MemoryInv, Remembered
  <2>2. \A e \in ToWrite : e \notin Stored /\ e \in Event /\ heightOf[e] = -1
    <3>1. \A e \in ToWrite : e \notin Stored /\ e \in Event
      BY DEF ToWrite, IInv, MemoryInv, WithheldIsCommitted, TypeOK, Worker
    <3> QED BY <3>1 DEF IInv, StorageInv, StoredFirst
  <2>3. NonConsensus' = NonConsensus \cup ToWrite
    BY <1>1, <1>2, <2>2 DEF NonConsensus, Decided
  <2>4. \A e \in NonConsensus \cup ToWrite : e \notin DecidedNow
    BY <2>2, Ranges DEF NonConsensus, Decided, DecidedNow, IInv
  <2>5. \A e \in worker.history \ NonConsensus : e \in DecidedNow
    BY <2>1 DEF DecidedNow, IInv, MemoryInv, MemoryApart, Stored
  <2>6. NonConsensus' = worker'.history
    BY <1>3, <2>1, <2>3, <2>4, <2>5
  <2>7. CASE ToWrite = {}
    <3>1. ChildlessIn(NonConsensus)' = ChildlessIn(NonConsensus)
      BY <1>1, <2>3, <2>7 DEF ChildlessIn
    <3> QED BY <1>3, <2>1, <2>3, <2>6, <2>7, <3>1
  <2>8. CASE ToWrite # {}
    <3>1. PICK e \in ToWrite : TRUE
      BY <2>8
    <3>2. e = worker.withheld /\ ToWrite = {e} /\ e \in Event /\ Placed(e) /\ e \notin Stored
      BY <1>1, <2>2, <3>1, WithheldEvidence
    <3>3. NonConsensus \in SUBSET Stored
      BY DEF NonConsensus
    <3>4. ChildlessIn(NonConsensus \cup {e}) = (ChildlessIn(NonConsensus) \cup {e}) \ {Before[e]}
      BY <3>2, <3>3, ChildlessGrows DEF IInv
    <3>5. ChildlessIn(NonConsensus)' = ChildlessIn(NonConsensus \cup {e})
      BY <1>1, <2>3, <3>2 DEF ChildlessIn
    <3>6. worker'.childless = (worker.childless \cup {e}) \ {Before[e]}
      BY <1>3, <2>8, <3>2
    <3> QED BY <2>1, <2>3, <2>6, <3>2, <3>4, <3>5, <3>6
  <2> QED BY <2>7, <2>8
<1> QED BY <1>2, <1>4, <1>7, <1>8, <1>9, <1>10, <1>11, <1>12 DEF IInv, MemoryInv

(* What the local peer merges has been stored and, unless it is by a        *)
(* witness, committed to.                                                   *)
LEMMA ParentsCommitted ==
  ASSUME IInv, pc = "on", NEW contributes, NEW heads \in SUBSET WitnessHeads,
         NEW merged \in SUBSET Event, MayMerge(merged, heads, contributes),
         NEW e \in heads \cup merged
  PROVE  /\ e \in Stored
         /\ \/ Creator[e] \in NextWitnesses
            \/ \E i \in DOMAIN own : /\ own[i].commit = e
                                     /\ own[i].height \in 0 .. height
                                     /\ LocalIsWitness \/ i = Len(own)
<1>1. CASE e \in heads
  BY <1>1 DEF WitnessHeads
<1>2. CASE e \in merged
  <2> DEFINE c == worker.commitment
             i == c.by
  <2>1. c # None /\ c.consensus /\ e = c.to /\ (LocalIsWitness \/ i = Len(own))
    BY <1>2 DEF MayMerge, CanMergeCommitted
  <2>2. e \in Stored
    BY <2>1 DEF IInv, MemoryInv, CommittedIsThere
  <2>3. i \in DOMAIN own /\ own[i].commit = e /\ own[i].height # -1
    BY <2>1 DEF IInv, MemoryInv, CommitmentKnown
  <2> HIDE DEF i
  <2>4. own[i].height \in Heights /\ own[i].height <= height
    BY <2>3, Ranges DEF IInv, StorageInv, HeightsReached, OwnEvent
  <2>5. own[i].height \in 0 .. height
    BY <2>3, <2>4, Ranges, CommitmentsAssumption DEF IInv, Heights
  <2> QED BY <2>1, <2>2, <2>3, <2>5 DEF i
<1> QED BY <1>1, <1>2

(* The storage takes a merge event of the local peer.                       *)
LEMMA OwnAdded ==
  ASSUME TypeOK, StorageInv, Len(own) < MaxMerges, NEW event \in OwnEvent,
         event.basis = height, event.height = -1,
         \A e \in event.merges :
           /\ e \in Stored
           /\ \/ Creator[e] \in NextWitnesses
              \/ \E i \in DOMAIN own : /\ own[i].commit = e
                                       /\ own[i].height \in 0 .. height
                                       /\ LocalIsWitness \/ i = Len(own),
         own' = Append(own, event), UNCHANGED <<required, heightOf, others, witnesses>>
  PROVE  /\ StorageInv' /\ own' \in Seq(OwnEvent) /\ Len(own') <= MaxMerges
         /\ DOMAIN own' = 1 .. Len(own) + 1
         /\ \A g \in DOMAIN own : own'[g] = own[g]
         /\ own'[Len(own) + 1] = event
<1>1. own \in Seq(OwnEvent) /\ Len(own) \in Nat /\ DOMAIN own = 1 .. Len(own)
  BY DEF TypeOK
<1> DEFINE n == Len(own) + 1
<1>2. /\ own' \in Seq(OwnEvent) /\ Len(own') = n /\ DOMAIN own' = 1 .. n
      /\ \A g \in DOMAIN own : own'[g] = own[g]
      /\ own'[n] = event
  BY <1>1
<1>3. \A g \in DOMAIN own' : g = n \/ g \in DOMAIN own
  BY <1>1, <1>2
<1>4. height' = height /\ Stored' = Stored /\ height \in Nat /\ n \in Nat /\ n \notin DOMAIN own
  BY <1>1, Ranges DEF height, Stored
<1>5. Len(own') <= MaxMerges
  BY <1>1, <1>2, CommitmentsAssumption
<1> HIDE DEF n
<1>6. HeightsReached'
  BY <1>2, <1>3, <1>4 DEF StorageInv, HeightsReached
<1>7. DecidedPrefix'
  <2> SUFFICES ASSUME NEW g \in DOMAIN own', NEW i \in DOMAIN own', g <= i, own'[i].height # -1
               PROVE  own'[g].height # -1
    BY DEF DecidedPrefix
  <2>1. i # n /\ i \in DOMAIN own
    BY <1>2, <1>3
  <2>2. g \in DOMAIN own
    BY <1>1, <1>2, <1>3, <2>1 DEF n
  <2> QED BY <1>2, <2>1, <2>2 DEF StorageInv, DecidedPrefix
<1>8. StoredFirst'
  BY <1>2, <1>3, <1>4 DEF StorageInv, StoredFirst
<1>9. StoredWithEvidence'
  <2>1. ASSUME NEW e PROVE CommitHeights(e) \subseteq CommitHeights(e)'
    BY <1>1, <1>2 DEF CommitHeights
  <2>2. \A e, q : Evidence(e, q) => Evidence(e, q)'
    BY <2>1 DEF Evidence
  <2>3. \A e : Placed(e) => Placed(e)'
    BY <1>4 DEF Placed
  <2> QED BY <1>4, <2>2, <2>3 DEF StorageInv, StoredWithEvidence
<1>10. MergedWasCommitted'
  <2> SUFFICES ASSUME NEW g \in DOMAIN own', NEW e \in own'[g].merges
               PROVE  \/ Creator[e] \in witnesses[own'[g].basis + 1]
                      \/ \E i \in 1 .. g - 1 :
                           /\ own'[i].commit = e
                           /\ own'[i].height \in 0 .. own'[g].basis
                           /\ Local \in witnesses[own'[g].basis + 1] \/ i = g - 1
    BY DEF MergedWasCommitted
  <2>1. CASE g \in DOMAIN own
    <3>1. own'[g] = own[g] /\ \A i \in 1 .. g - 1 : i \in DOMAIN own /\ own'[i] = own[i]
      BY <1>1, <1>2, <2>1
    <3> QED BY <2>1, <3>1 DEF StorageInv, MergedWasCommitted
  <2>2. CASE g = n
    <3>1. own'[g].basis = height /\ e \in event.merges
      BY <1>2, <2>2
    <3>2. CASE Creator[e] \in NextWitnesses
      BY <3>1, <3>2 DEF NextWitnesses
    <3>3. CASE \E i \in DOMAIN own : /\ own[i].commit = e
                                     /\ own[i].height \in 0 .. height
                                     /\ LocalIsWitness \/ i = Len(own)
      <4>1. PICK i \in DOMAIN own : /\ own[i].commit = e
                                    /\ own[i].height \in 0 .. height
                                    /\ LocalIsWitness \/ i = Len(own)
        BY <3>3
      <4>2. i \in 1 .. g - 1 /\ own'[i] = own[i] /\ (i = Len(own) => i = g - 1)
        BY <1>1, <1>2, <2>2 DEF n
      <4> QED BY <3>1, <4>1, <4>2 DEF LocalIsWitness, NextWitnesses
    <3> QED BY <3>1, <3>2, <3>3
  <2> QED BY <1>3, <2>1, <2>2
<1> QED BY <1>2, <1>5, <1>6, <1>7, <1>8, <1>9, <1>10 DEF StorageInv, n

LEMMA Merged ==
  ASSUME IInv, Merge
  PROVE  IInv'
<1>1. PICK contributes \in BOOLEAN, stored \in BOOLEAN, heads \in SUBSET WitnessHeads :
        \E merged \in SUBSET Event :
          /\ MayMerge(merged, heads, contributes)
          /\ \E commit \in Candidates(heads \cup merged) :
               AddLocalMergeEvent(heads \cup merged, commit, contributes, stored)
  BY DEF Merge
<1>2. PICK merged \in SUBSET Event :
        /\ MayMerge(merged, heads, contributes)
        /\ \E commit \in Candidates(heads \cup merged) :
             AddLocalMergeEvent(heads \cup merged, commit, contributes, stored)
  BY <1>1
<1> DEFINE parents == heads \cup merged
<1>3. PICK commit \in Candidates(parents) :
        AddLocalMergeEvent(parents, commit, contributes, stored)
  BY <1>2
<1>4. /\ pc = "on" /\ Len(own) < MaxMerges
      /\ UNCHANGED <<required, heightOf, others, witnesses, sessions, stale>>
  BY DEF Merge
<1>5. /\ worker \in Worker /\ worker.heldBack \subseteq Event /\ worker.childless \subseteq Event
      /\ Stored \subseteq Event
  BY DEF IInv, TypeOK, Worker, Stored
<1>6. /\ commit \in Event \cup {None}
      /\ commit # None => /\ worker.commitment = None \/ worker.commitment.consensus
                          /\ commit \in worker.heldBack \/ commit \in worker.childless
  BY <1>5 DEF Candidates, WithheldCandidates, HeadCandidates
<1>7. \A e \in parents :
        /\ e \in Stored
        /\ \/ Creator[e] \in NextWitnesses
           \/ \E i \in DOMAIN own : /\ own[i].commit = e
                                    /\ own[i].height \in 0 .. height
                                    /\ LocalIsWitness \/ i = Len(own)
  BY <1>2, <1>4, ParentsCommitted
<1> HIDE DEF parents
<1> DEFINE event == [basis |-> height, merges |-> parents, commit |-> commit,
                     contributes |-> contributes, height |-> -1]
           next == [worker EXCEPT
                      !.childless  = @ \ parents,
                      !.commitment = IF commit = None THEN @
                                     ELSE [by |-> Len(own) + 1, to |-> commit, consensus |-> FALSE],
                      !.withheld   = IF commit \in worker.heldBack THEN commit ELSE @]
<1>8. /\ kept' = IF commit \in worker.heldBack THEN commit ELSE kept
      /\ worker' = IF stored THEN next ELSE NoWorker
      /\ own' = IF stored THEN Append(own, event) ELSE own
      /\ pc' = IF stored THEN "on" ELSE "off"
  BY <1>3, <1>5, CommitmentsAssumption DEF AddLocalMergeEvent
<1>9. kept' \in Event \cup {None}
  BY <1>5, <1>8 DEF IInv, TypeOK
<1>10. CASE ~stored
  <2>1. UNCHANGED storage /\ worker' = NoWorker /\ pc' = "off"
        /\ kept' \in {kept, None} \cup worker.heldBack
    BY <1>4, <1>8, <1>10 DEF storage
  <2>2. StorageInv' /\ height' = height /\ Stored' = Stored
    BY <2>1, StorageKept DEF IInv
  <2>3. MemoryInv'
    BY <2>1, <2>2, MemoryLost DEF IInv
  <2>4. TypeOK'
    BY <1>4, <1>9, <2>1, NoWorkerType DEF IInv, TypeOK, storage
  <2> QED BY <2>2, <2>3, <2>4 DEF IInv
<1>11. CASE stored
  <2>1. worker' = next /\ own' = Append(own, event) /\ pc' = "on"
    BY <1>8, <1>11
  <2>2. event \in OwnEvent /\ event.basis = height /\ event.height = -1
        /\ event.merges = parents /\ event.commit = commit
    <3>1. height \in 0 .. MaxHeight /\ -1 \in Heights /\ parents \subseteq Event
      BY <1>5, <1>7, Ranges, CommitmentsAssumption DEF Heights, IInv
    <3> QED BY <1>6, <3>1 DEF OwnEvent
  <2> HIDE DEF event
  <2>3. /\ StorageInv' /\ own' \in Seq(OwnEvent) /\ Len(own') <= MaxMerges
        /\ DOMAIN own' = 1 .. Len(own) + 1
        /\ \A g \in DOMAIN own : own'[g] = own[g]
        /\ own'[Len(own) + 1] = event
    BY <1>4, <1>7, <2>1, <2>2, OwnAdded DEF IInv
  <2>4. height' = height /\ Stored' = Stored
    BY <1>4 DEF height, Stored
  <2> DEFINE c == [by |-> Len(own) + 1, to |-> commit, consensus |-> FALSE]
  <2>5. Len(own) \in Nat /\ DOMAIN own = 1 .. Len(own) /\ Len(own) + 1 \in 1 .. MaxMerges
    BY <1>4, Ranges, CommitmentsAssumption DEF IInv
  <2>6. commit # None => c \in CommitmentRecord /\ c # None
    <3>1. None \notin CommitmentRecord
      BY CommitmentsAssumption DEF CommitmentRecord
    <3>2. commit # None => c \in CommitmentRecord
      BY <1>6, <2>5 DEF CommitmentRecord
    <3> QED BY <3>1, <3>2
  <2>7. /\ worker'.history = worker.history /\ worker'.heldBack = worker.heldBack
        /\ worker'.childless = worker.childless \ parents
        /\ worker'.commitment = IF commit = None THEN worker.commitment ELSE c
        /\ worker'.withheld = IF commit \in worker.heldBack THEN commit ELSE worker.withheld
    BY <1>5, <2>1 DEF Worker
  <2> DEFINE t == IF commit = None THEN worker.commitment ELSE c
             u == IF commit \in worker.heldBack THEN commit ELSE worker.withheld
  <2>8. worker' \in Worker
    <3>1. /\ worker.childless \ parents \in SUBSET Event
          /\ t \in {None} \cup CommitmentRecord
          /\ u \in Event \cup {None}
      BY <1>5, <2>6 DEF Worker, CommitmentRecord
    <3>2. worker' = [worker EXCEPT !.childless = worker.childless \ parents,
                                   !.commitment = t, !.withheld = u]
      BY <1>5, <2>1 DEF Worker
    <3> HIDE DEF t, u, c
    <3> QED BY <1>5, <3>1, <3>2 DEF Worker, CommitmentRecord
  <2>9. c.by = Len(own) + 1 /\ c.to = commit /\ c.consensus = FALSE
    OBVIOUS
  <2> HIDE DEF c, next
  <2>10. TypeOK'
    BY <1>4, <1>9, <2>1, <2>3, <2>8 DEF IInv, TypeOK
  <2>11. (MemoryGone /\ MemoryApart)'
    BY <2>1, <2>4, <2>7 DEF IInv, MemoryInv, MemoryGone, MemoryApart
  <2>12. InHandPlaced'
    BY <1>8, <2>4, <2>7 DEF IInv, MemoryInv, InHandPlaced, Placed
  <2>13. CommitmentKnown'
    <3>1. CASE commit = None
      <4>1. Committing' = Committing
        BY <1>5, <2>2, <2>3, <2>5, <3>1 DEF Committing
      <4> QED BY <1>4, <2>1, <2>3, <2>5, <2>7, <3>1, <4>1 DEF IInv, MemoryInv, CommitmentKnown
    <3>2. CASE commit # None
      <4>1. \A g \in Committing' : g <= Len(own) + 1
        BY <2>3, <2>5 DEF Committing
      <4>2. Len(own) + 1 \in DOMAIN own'
        BY <2>3, <2>5
      <4> QED BY <2>1, <2>2, <2>3, <2>7, <2>9, <3>2, <4>1, <4>2 DEF CommitmentKnown
    <3> QED BY <3>1, <3>2
  <2>14. CommittedIsThere'
    <3>1. CASE commit = None
      BY <1>5, <2>4, <2>7, <3>1, CommitmentsAssumption DEF IInv, MemoryInv, CommittedIsThere
    <3>2. CASE commit # None
      <4>1. commit \notin worker.heldBack => commit \in Stored
        BY <1>6, <3>2 DEF IInv, MemoryInv, MemoryApart
      <4> QED BY <2>4, <2>7, <2>9, <3>2, <4>1 DEF CommittedIsThere
    <3> QED BY <3>1, <3>2
  <2>15. WithheldIsCommitted'
    BY <1>4, <1>5, <1>6, <2>4, <2>6, <2>7, <2>9, CommitmentsAssumption
       DEF IInv, MemoryInv, WithheldIsCommitted, MemoryApart
  <2>16. Remembered'
    <3>1. NonConsensus' = NonConsensus
      BY <1>4, <2>4 DEF NonConsensus, Decided
    <3>2. ChildlessIn(NonConsensus)' = ChildlessIn(NonConsensus) \ parents
      <4>1. \A x : (\A g \in DOMAIN own' : own'[g].height = -1 => x \notin own'[g].merges)
                     <=> /\ \A g \in DOMAIN own : own[g].height = -1 => x \notin own[g].merges
                         /\ x \notin parents
        BY <2>2, <2>3, <2>5
      <4> QED BY <3>1, <4>1 DEF ChildlessIn
    <3> QED BY <1>4, <2>1, <2>7, <3>1, <3>2 DEF IInv, MemoryInv, Remembered
  <2> QED BY <2>3, <2>10, <2>11, <2>12, <2>13, <2>14, <2>15, <2>16 DEF IInv, MemoryInv
<1> QED BY <1>10, <1>11

LEMMA Written ==
  ASSUME IInv, WriteBlock
  PROVE  IInv'
<1>1. /\ pc = "on" /\ pc' = "written" /\ height < MaxHeight
      /\ UNCHANGED <<required, kept, worker, sessions, stale>>
  BY DEF WriteBlock
<1>2. PICK last \in 0 .. Len(own), es \in SUBSET worker.history, next \in WitnessSets :
        \E commits \in SUBSET {e \in ByOthers : Basis[e] <= height /\ others[e] = -1} :
          /\ DecidedWith(last, es)
          /\ heightOf' = [e \in Event |-> IF e \in es THEN height + 1 ELSE heightOf[e]]
          /\ own' = [g \in DOMAIN own |->
                       IF g <= last /\ own[g].height = -1
                       THEN [own[g] EXCEPT !.height = height + 1] ELSE own[g]]
          /\ others' = [e \in Event |-> IF e \in commits THEN height + 1 ELSE others[e]]
          /\ witnesses' = Append(witnesses, next)
  BY DEF WriteBlock
<1>3. PICK commits \in SUBSET {e \in ByOthers : Basis[e] <= height /\ others[e] = -1} :
          others' = [e \in Event |-> IF e \in commits THEN height + 1 ELSE others[e]]
  BY <1>2
<1> DEFINE new(g) == g <= last /\ own[g].height = -1
<1>4. /\ height \in 0 .. MaxHeight - 1 /\ Len(witnesses) = height + 1 /\ Len(own) \in 0 .. MaxMerges
      /\ DOMAIN own = 1 .. Len(own) /\ \A g \in DOMAIN own : own[g] \in OwnEvent
  BY <1>1, Ranges, CommitmentsAssumption DEF IInv
<1>5. /\ witnesses' \in Seq(WitnessSets) /\ Len(witnesses') = height + 2
      /\ \A k \in 1 .. height + 1 : witnesses'[k] = witnesses[k]
  BY <1>2, <1>4 DEF IInv, TypeOK
<1>6. height' = height + 1 /\ Stored' = Stored
  BY <1>1, <1>4, <1>5 DEF height, Stored
<1>7. /\ height + 1 \in Heights /\ height + 1 # -1
      /\ \A h \in Heights : h <= height => h # height + 1
      /\ \A h \in Heights : h # -1 => h \in Nat
  BY <1>4, CommitmentsAssumption DEF Heights
<1>8. /\ DOMAIN own' = DOMAIN own
      /\ \A g \in DOMAIN own :
           /\ own'[g] \in OwnEvent
           /\ own'[g].basis = own[g].basis /\ own'[g].merges = own[g].merges
           /\ own'[g].commit = own[g].commit
           /\ own'[g].height = IF new(g) THEN height + 1 ELSE own[g].height
           /\ own[g].height \in Heights
  <2>1. DOMAIN own' = DOMAIN own
    BY <1>2
  <2> SUFFICES ASSUME NEW g \in DOMAIN own
               PROVE  /\ own'[g] \in OwnEvent
                      /\ own'[g].basis = own[g].basis /\ own'[g].merges = own[g].merges
                      /\ own'[g].commit = own[g].commit
                      /\ own'[g].height = IF new(g) THEN height + 1 ELSE own[g].height
                      /\ own[g].height \in Heights
    BY <2>1
  <2>2. own'[g] = IF new(g) THEN [own[g] EXCEPT !.height = height + 1] ELSE own[g]
    BY <1>2
  <2>3. own[g] \in OwnEvent
    BY <1>4
  <2> HIDE DEF new
  <2> QED BY <1>7, <2>2, <2>3 DEF OwnEvent
<1>9. own' \in Seq(OwnEvent) /\ Len(own') = Len(own)
  <2>1. own' = [g \in 1 .. Len(own) |-> own'[g]] /\ \A g \in 1 .. Len(own) : own'[g] \in OwnEvent
    BY <1>2, <1>4, <1>8
  <2> QED BY <1>4, <2>1
<1>10. /\ heightOf' \in [Event -> Heights]
       /\ \A e \in Event : heightOf'[e] = IF e \in es THEN height + 1 ELSE heightOf[e]
       /\ others' \in [Event -> Heights]
       /\ \A e \in Event : others'[e] = others[e] \/ (others[e] = -1 /\ others'[e] = height + 1)
  <2>1. \A e \in commits : others[e] = -1
    OBVIOUS
  <2> QED BY <1>2, <1>3, <1>7, <2>1 DEF IInv, TypeOK
<1>11. TypeOK'
  <2>1. Len(witnesses') \in 1 .. MaxHeight + 1
    BY <1>4, <1>5, CommitmentsAssumption
  <2> QED BY <1>1, <1>5, <1>9, <1>10, <2>1 DEF IInv, TypeOK
<1>12. es \subseteq Stored /\ es \subseteq worker.history /\ Stored \subseteq Event
  BY DEF IInv, MemoryInv, MemoryApart, Stored
<1>13. DecidedWith(last, es)
  BY <1>2
<1> HIDE DEF new
<1>14. HeightsReached'
  <2>1. \A h \in Heights : h <= height => h <= height + 1
    BY <1>4, CommitmentsAssumption DEF Heights
  <2>2. \A g \in DOMAIN own : own[g].basis <= height + 1
    BY <1>4 DEF IInv, StorageInv, HeightsReached, OwnEvent
  <2>3. \A e \in Event : heightOf[e] <= height + 1 /\ others[e] <= height + 1
    BY <2>1 DEF IInv, TypeOK, StorageInv, HeightsReached
  <2>4. \A g \in DOMAIN own : own[g].height <= height + 1
    BY <1>8, <2>1 DEF IInv, StorageInv, HeightsReached
  <2> QED BY <1>4, <1>6, <1>8, <1>10, <2>2, <2>3, <2>4 DEF HeightsReached
<1>15. DecidedPrefix'
  <2> SUFFICES ASSUME NEW g \in DOMAIN own, NEW i \in DOMAIN own, g <= i, own'[i].height # -1
               PROVE  own'[g].height # -1
    BY <1>8 DEF DecidedPrefix
  <2>1. own[i].height # -1 => own[g].height # -1
    BY DEF IInv, StorageInv, DecidedPrefix
  <2> QED BY <1>4, <1>7, <1>8, <2>1 DEF new
<1>16. StoredFirst'
  BY <1>6, <1>8, <1>10, <1>12 DEF IInv, StorageInv, StoredFirst
<1>17. StoredWithEvidence'
  <2> SUFFICES ASSUME NEW e \in Stored
               PROVE  Placed(e)' /\ required'[e] <= height' /\ Evidence(e, required[e])'
    BY <1>6 DEF StoredWithEvidence
  <2>1. /\ Placed(e) /\ required[e] <= height /\ Evidence(e, required[e])
        /\ required[e] \in Heights /\ Basis[e] \in Nat
    BY <1>12, CommitmentsAssumption DEF IInv, TypeOK, StorageInv, StoredWithEvidence
  <2>2. required[e] \in Int /\ required[e] <= height + 1
    BY <1>4, <2>1, CommitmentsAssumption DEF Heights
  <2>3. Placed(e)'
    BY <1>4, <1>6, <2>1 DEF Placed
  <2>4. ASSUME NEW k \in Int, 1 <= k, k <= height + 1 PROVE witnesses'[k] = witnesses[k]
    BY <1>4, <1>5, <2>4
  <2>5. CommitHeights(e) \subseteq CommitHeights(e)'
    <3> SUFFICES ASSUME NEW c \in CommitHeights(e) PROVE c \in CommitHeights(e)'
      OBVIOUS
    <3>1. CASE c = others[e] /\ c # -1
      BY <1>10, <1>12, <3>1 DEF CommitHeights
    <3>2. CASE \E g \in DOMAIN own : own[g].commit = e /\ c = own[g].height /\ c # -1
      <4>1. PICK g \in DOMAIN own : own[g].commit = e /\ c = own[g].height /\ c # -1
        BY <3>2
      <4>2. own'[g].height = c /\ own'[g].commit = e
        BY <1>8, <4>1 DEF new
      <4> QED BY <1>8, <4>1, <4>2 DEF CommitHeights
    <3> QED BY <3>1, <3>2 DEF CommitHeights
  <2>6. Evidence(e, required[e])'
    <3>1. CASE Creator[e] \in witnesses[Basis[e] + 1]
      <4>1. witnesses'[Basis[e] + 1] = witnesses[Basis[e] + 1]
        BY <1>4, <2>1, <2>4 DEF Placed
      <4> QED BY <3>1, <4>1 DEF Evidence
    <3>2. CASE \E c \in CommitHeights(e) : c <= required[e]
      BY <1>1, <2>5, <3>2 DEF Evidence
    <3>3. CASE \E k \in Basis[e] + 2 .. required[e] + 1 : Creator[e] \in witnesses[k]
      <4>1. PICK k \in Basis[e] + 2 .. required[e] + 1 : Creator[e] \in witnesses[k]
        BY <3>3
      <4>2. witnesses'[k] = witnesses[k]
        BY <1>4, <2>1, <2>2, <2>4, <4>1
      <4> QED BY <1>1, <4>1, <4>2 DEF Evidence
    <3> QED BY <2>1, <3>1, <3>2, <3>3 DEF Evidence
  <2> QED BY <1>1, <1>6, <2>2, <2>3, <2>6
<1>18. MergedWasCommitted'
  <2> SUFFICES ASSUME NEW g \in DOMAIN own, NEW e \in own[g].merges
               PROVE  \/ Creator[e] \in witnesses'[own[g].basis + 1]
                      \/ \E i \in 1 .. g - 1 :
                           /\ own'[i].commit = e
                           /\ own'[i].height \in 0 .. own[g].basis
                           /\ Local \in witnesses'[own[g].basis + 1] \/ i = g - 1
    BY <1>8 DEF MergedWasCommitted
  <2>1. own[g].basis \in 0 .. height
    BY <1>4 DEF IInv, StorageInv, HeightsReached, OwnEvent
  <2>2. witnesses'[own[g].basis + 1] = witnesses[own[g].basis + 1]
    BY <1>4, <1>5, <2>1
  <2>3. CASE Creator[e] \in witnesses[own[g].basis + 1]
    BY <2>2, <2>3
  <2>4. CASE \E i \in 1 .. g - 1 :
               /\ own[i].commit = e
               /\ own[i].height \in 0 .. own[g].basis
               /\ Local \in witnesses[own[g].basis + 1] \/ i = g - 1
    <3>1. PICK i \in 1 .. g - 1 :
               /\ own[i].commit = e
               /\ own[i].height \in 0 .. own[g].basis
               /\ Local \in witnesses[own[g].basis + 1] \/ i = g - 1
      BY <2>4
    <3>2. i \in DOMAIN own /\ ~new(i)
      BY <1>4, <3>1 DEF new
    <3> QED BY <1>8, <2>2, <3>1, <3>2
  <2> QED BY <2>3, <2>4 DEF IInv, StorageInv, MergedWasCommitted
<1>19. (MemoryGone /\ MemoryApart /\ CommittedIsThere /\ WithheldIsCommitted)'
  BY <1>1, <1>6 DEF IInv, MemoryInv, MemoryGone, MemoryApart, CommittedIsThere,
     WithheldIsCommitted
<1>20. InHandPlaced'
  <2>1. ASSUME NEW e \in Event, Placed(e) PROVE Placed(e)'
    BY <1>4, <1>6, <2>1, CommitmentsAssumption DEF Placed
  <2>2. (worker.heldBack \cup {worker.withheld, kept}) \ {None} \subseteq Event
    BY DEF IInv, TypeOK, Worker
  <2> QED BY <1>1, <2>1, <2>2 DEF IInv, MemoryInv, InHandPlaced
<1>21. CommitmentKnown'
  <2>1. Committing' = Committing
    BY <1>8 DEF Committing
  <2> SUFFICES ASSUME worker.commitment # None
               PROVE  LET c == worker.commitment IN
                      /\ c.by \in DOMAIN own' /\ c.to = own'[c.by].commit
                      /\ \A g \in Committing : g <= c.by
                      /\ c.consensus <=> own'[c.by].height # -1 /\ own'[c.by].height # height'
    BY <1>1, <2>1 DEF CommitmentKnown
  <2> DEFINE g == worker.commitment.by
  <2>2. /\ g \in DOMAIN own /\ worker.commitment.to = own[g].commit
        /\ \A i \in Committing : i <= g
        /\ worker.commitment.consensus <=> own[g].height # -1
    BY <1>1 DEF IInv, MemoryInv, CommitmentKnown
  <2> HIDE DEF g
  <2>3. own[g].height # height + 1 /\ (new(g) => own[g].height = -1)
    BY <1>7, <1>8, <2>2 DEF new, IInv, StorageInv, HeightsReached
  <2>4. worker.commitment.consensus <=> own'[g].height # -1 /\ own'[g].height # height + 1
    BY <1>7, <1>8, <2>2, <2>3
  <2> QED BY <1>6, <1>8, <2>2, <2>4 DEF g
<1>22. Remembered'
  <2> SUFFICES ASSUME ~stale
               PROVE  /\ NonConsensus' \subseteq worker.history
                      /\ \A e \in worker.history \ NonConsensus' : heightOf'[e] = height'
                      /\ worker.childless \cap NonConsensus' = ChildlessIn(NonConsensus)'
    BY <1>1 DEF Remembered
  <2>1. worker.history = NonConsensus /\ worker.childless \cap NonConsensus = ChildlessIn(NonConsensus)
    BY <1>1 DEF IInv, MemoryInv, Remembered
  <2>2. \A e \in NonConsensus : e \in Event /\ e \in Stored /\ heightOf[e] = -1
    BY <1>12 DEF NonConsensus, Decided
  <2>3. NonConsensus' = NonConsensus \ es
    BY <1>6, <1>7, <1>10, <1>12, <2>1, <2>2 DEF NonConsensus, Decided
  <2>4. \A e \in es : heightOf'[e] = height'
    BY <1>6, <1>10, <1>12
  <2>5. ASSUME NEW x \in NonConsensus \ es
        PROVE  x \in ChildlessIn(NonConsensus) <=> x \in ChildlessIn(NonConsensus)'
    <3>1. \A y \in es : Before[y] # x
      BY <1>13, <2>1, <2>5 DEF DecidedWith
    <3>2. \A g \in 1 .. last : x \notin own[g].merges
      BY <1>13, <2>1, <2>5 DEF DecidedWith
    <3>3. \A g \in DOMAIN own : own[g].height = -1 /\ own'[g].height # -1 => g \in 1 .. last
      BY <1>4, <1>8 DEF new
    <3>4. \A g \in DOMAIN own : own'[g].height = -1 => own[g].height = -1
      BY <1>7, <1>8
    <3>5. (\A g \in DOMAIN own : own[g].height = -1 => x \notin own[g].merges)
             <=> \A g \in DOMAIN own' : own'[g].height = -1 => x \notin own'[g].merges
      BY <1>8, <3>2, <3>3, <3>4
    <3>6. (\A y \in NonConsensus : Before[y] # x) <=> \A y \in NonConsensus' : Before[y] # x
      BY <2>3, <3>1
    <3> QED BY <2>3, <2>5, <3>5, <3>6 DEF ChildlessIn
  <2>6. ChildlessIn(NonConsensus)' \subseteq NonConsensus \ es
    BY <2>3 DEF ChildlessIn
  <2> QED BY <2>1, <2>3, <2>4, <2>5, <2>6
<1> QED BY <1>11, <1>14, <1>15, <1>16, <1>17, <1>18, <1>19, <1>20, <1>21, <1>22
        DEF IInv, StorageInv, MemoryInv

(* The commitment found in storage is the last one; if it is in a block,    *)
(* its event is stored.                                                     *)
LEMMA LatestIs ==
  ASSUME TypeOK, DecidedPrefix, NEW g \in LatestCommitment
  PROVE  /\ g \in Committing /\ \A i \in Committing : i <= g
         /\ own[g].height # -1 => own[g].commit \in Stored
<1>1. DOMAIN own = 1 .. Len(own) /\ Len(own) \in Nat
  BY Ranges
<1>2. Committing \subseteq 1 .. Len(own)
  BY <1>1 DEF Committing
<1>3. CASE Pending # {}
  <2>1. Pending \in SUBSET (0 .. Len(own))
    <3>1. Pending \subseteq Committing
      BY DEF Pending
    <3>2. 1 .. Len(own) \subseteq 0 .. Len(own)
      BY <1>1
    <3> QED BY <1>2, <3>1, <3>2
  <2>2. PICK x \in Pending : \A y \in Pending : y <= x
    BY <1>1, <1>3, <2>1, GreatestBelow
  <2>3. \A y \in Pending : x >= y
    BY <1>1, <2>1, <2>2
  <2>4. Max(Pending) \in Pending /\ \A y \in Pending : Max(Pending) >= y
    BY <2>2, <2>3, MaxIs
  <2>5. g = Max(Pending)
    BY <1>3 DEF LatestCommitment
  <2>6. g \in Pending /\ \A y \in Pending : g >= y
    BY <2>4, <2>5
  <2>7. g \in Committing /\ own[g].height = -1
    BY <2>6 DEF Pending
  <2>8. ASSUME NEW i \in Committing PROVE i <= g
    <3>1. CASE i \in Pending
      BY <1>1, <1>2, <2>6, <2>7, <3>1
    <3>2. CASE i \notin Pending
      <4>1. own[i].height # -1 /\ i \in DOMAIN own /\ g \in DOMAIN own
        BY <2>7, <2>8, <3>2 DEF Pending, Committing
      <4>2. ~(g <= i)
        BY <2>7, <4>1 DEF DecidedPrefix
      <4> QED BY <1>1, <4>1, <4>2
    <3> QED BY <3>1, <3>2
  <2> QED BY <2>7, <2>8
<1>4. CASE Pending = {}
  <2>1. g \in Recent /\ own[g].commit \in Stored /\ \A i \in Recent : i <= g
    BY <1>4 DEF LatestCommitment
  <2>2. g \in Committing /\ g >= Len(own) - Lookback
    BY <2>1 DEF Recent
  <2>3. ASSUME NEW i \in Committing PROVE i <= g
    <3>1. CASE i >= Len(own) - Lookback
      BY <1>4, <2>1, <2>3, <3>1 DEF Recent
    <3>2. CASE ~(i >= Len(own) - Lookback)
      BY <1>1, <1>2, <2>2, <2>3, <3>2, CommitmentsAssumption
    <3> QED BY <3>1, <3>2
  <2> QED BY <2>1, <2>2, <2>3
<1> QED BY <1>3, <1>4

LEMMA Started ==
  ASSUME IInv, StartSession
  PROVE  IInv'
<1> DEFINE found == RestorableFrom(NonConsensus) \cup FromCache
           dropped == \E g \in found : Needless(own[g].commit)
           restored == ~(found = {} \/ dropped)
           cached == ~(FromCache = {} \/ dropped)
           g == CHOOSE i \in found : TRUE
<1>1. /\ pc = "off" /\ pc' = "on" /\ sessions < MaxSessions /\ sessions' = sessions + 1
      /\ worker' = [history    |-> NonConsensus,
                    childless  |-> ChildlessIn(NonConsensus),
                    heldBack   |-> {},
                    withheld   |-> IF ~cached THEN None ELSE kept,
                    commitment |-> IF ~restored THEN None ELSE Restored(g)]
      /\ kept' \in {kept, None} /\ UNCHANGED storage
      /\ stale' = (worker'.withheld \in Stored)
  BY DEF StartSession
<1>2. UNCHANGED <<required, heightOf, own, others, witnesses>>
  BY <1>1 DEF storage
<1>3. StorageInv' /\ height' = height /\ Stored' = Stored
  BY <1>1, StorageKept DEF IInv
<1>4. \A i \in found : i \in LatestCommitment /\ own[i].commit \in NonConsensus \cup {kept}
  BY DEF RestorableFrom, FromCache
<1>5. FromCache \subseteq found /\ \A i \in FromCache : own[i].commit = kept
  BY DEF RestorableFrom, FromCache
<1>6. restored => g \in found
  <2>1. restored => \E i \in found : TRUE
    OBVIOUS
  <2> HIDE DEF found
  <2> QED BY <2>1
<1>7. cached => restored
  BY <1>5
<1>8. \A i, j \in found : i = j
  <2>1. \A i, j \in LatestCommitment : i <= j /\ i \in Int /\ j \in Int
    <3>1. \A i \in LatestCommitment : i \in Committing /\ \A j \in Committing : j <= i
      BY LatestIs DEF IInv, StorageInv
    <3>2. \A i \in Committing : i \in Int
      BY Ranges DEF Committing, IInv
    <3> QED BY <3>1, <3>2
  <2>2. \A i, j \in LatestCommitment : i = j
    BY <2>1
  <2> QED BY <1>4, <2>2
<1>9. restored =>
        /\ g \in DOMAIN own /\ g \in 1 .. MaxMerges /\ own[g].commit \in Event
        /\ own[g].commit \in NonConsensus \cup {kept}
        /\ \A i \in Committing : i <= g
        /\ own[g].height # -1 => own[g].commit \in Stored
        /\ Restored(g) \in CommitmentRecord /\ Restored(g) # None
        /\ Restored(g).by = g /\ Restored(g).to = own[g].commit
        /\ Restored(g).consensus = (own[g].height # -1)
  <2> SUFFICES ASSUME restored
               PROVE  /\ g \in DOMAIN own /\ g \in 1 .. MaxMerges /\ own[g].commit \in Event
                      /\ own[g].commit \in NonConsensus \cup {kept}
                      /\ \A i \in Committing : i <= g
                      /\ own[g].height # -1 => own[g].commit \in Stored
                      /\ Restored(g) \in CommitmentRecord /\ Restored(g) # None
                      /\ Restored(g).by = g /\ Restored(g).to = own[g].commit
                      /\ Restored(g).consensus = (own[g].height # -1)
    OBVIOUS
  <2>1. g \in LatestCommitment /\ own[g].commit \in NonConsensus \cup {kept}
    BY <1>4, <1>6
  <2> HIDE DEF found, g
  <2>2. /\ g \in Committing /\ \A i \in Committing : i <= g
        /\ own[g].height # -1 => own[g].commit \in Stored
    BY <2>1, LatestIs DEF IInv, StorageInv
  <2>3. g \in DOMAIN own /\ own[g].commit # None
    BY <2>2 DEF Committing
  <2>4. own[g].commit \in Event /\ g \in 1 .. MaxMerges
    <3>1. own[g] \in OwnEvent /\ DOMAIN own = 1 .. Len(own) /\ Len(own) \in 0 .. MaxMerges
      BY <2>3, Ranges DEF IInv
    <3> QED BY <2>3, <3>1, CommitmentsAssumption DEF OwnEvent
  <2>5. Restored(g) \in CommitmentRecord
    BY <2>4 DEF Restored, CommitmentRecord
  <2>6. Restored(g) # None
    BY <2>5, CommitmentsAssumption DEF CommitmentRecord
  <2> QED BY <2>1, <2>2, <2>3, <2>4, <2>5, <2>6 DEF Restored
<1>10. cached => own[g].commit = kept
  BY <1>5, <1>6, <1>7, <1>8
<1> HIDE DEF found, dropped, restored, cached, g
<1>11. /\ worker'.history = NonConsensus /\ worker'.childless = ChildlessIn(NonConsensus)
       /\ worker'.heldBack = {} /\ worker'.withheld = IF cached THEN kept ELSE None
       /\ worker'.commitment = IF restored THEN Restored(g) ELSE None
  BY <1>1
<1>12. NonConsensus \subseteq Stored /\ ChildlessIn(NonConsensus) \subseteq NonConsensus
       /\ Stored \subseteq Event
  BY DEF NonConsensus, ChildlessIn, Stored
<1>13. TypeOK'
  <2>1. worker' \in Worker
    <3>1. kept \in Event \cup {None}
      BY DEF IInv, TypeOK
    <3>2. /\ NonConsensus \in SUBSET Event /\ ChildlessIn(NonConsensus) \in SUBSET Event
          /\ (IF ~cached THEN None ELSE kept) \in Event \cup {None}
          /\ (IF ~restored THEN None ELSE Restored(g)) \in {None} \cup CommitmentRecord
      BY <1>9, <1>12, <3>1
    <3> QED BY <1>1, <3>2 DEF Worker, CommitmentRecord
  <2>2. sessions' \in 0 .. MaxSessions /\ stale' \in BOOLEAN
    BY <1>1, CommitmentsAssumption DEF IInv, TypeOK
  <2> QED BY <1>1, <1>2, <2>1, <2>2 DEF IInv, TypeOK
<1>14. (MemoryGone /\ MemoryApart)'
  BY <1>1, <1>3, <1>11, <1>12 DEF MemoryGone, MemoryApart
<1>15. InHandPlaced'
  BY <1>1, <1>3, <1>11 DEF IInv, MemoryInv, InHandPlaced, Placed
<1>16. CommitmentKnown'
  BY <1>1, <1>2, <1>9, <1>11 DEF CommitmentKnown, Committing
<1>17. CommittedIsThere'
  <2> SUFFICES ASSUME restored
               PROVE  \/ own[g].commit \in Stored
                      \/ own[g].height = -1 /\ worker'.withheld = own[g].commit
    BY <1>3, <1>9, <1>11 DEF CommittedIsThere
  <2>1. CASE cached
    BY <1>9, <1>10, <1>11, <2>1
  <2>2. CASE ~cached
    <3>1. FromCache = {}
      BY <2>2 DEF cached, restored
    <3>2. own[g].commit \in NonConsensus
      BY <1>6, <3>1 DEF found, RestorableFrom
    <3> QED BY <1>12, <3>2
  <2> QED BY <2>1, <2>2
<1>18. WithheldIsCommitted'
  <2> SUFFICES ASSUME cached, kept \notin Stored
               PROVE  /\ worker'.commitment # None
                      /\ worker'.commitment.to = kept
                      /\ ~worker'.commitment.consensus
    BY <1>1, <1>3, <1>11 DEF WithheldIsCommitted
  <2>1. restored
    BY <1>7
  <2> QED BY <1>9, <1>10, <1>11, <2>1
<1>19. Remembered'
  <2>1. NonConsensus' = NonConsensus /\ ChildlessIn(NonConsensus)' = ChildlessIn(NonConsensus)
    BY <1>2, <1>3 DEF NonConsensus, Decided, ChildlessIn
  <2> QED BY <1>11, <1>12, <2>1 DEF Remembered
<1> QED BY <1>3, <1>13, <1>14, <1>15, <1>16, <1>17, <1>18, <1>19 DEF IInv, MemoryInv
-----------------------------------------------------------------------------
LEMMA NextIInv == IInv /\ [Next]_vars => IInv'
<1> SUFFICES ASSUME IInv, [Next]_vars PROVE IInv'
  OBVIOUS
<1>1. ASSUME NEW e \in Event, Receive(e) PROVE IInv'
  BY <1>1, Received
<1>2. ASSUME NEW e \in Event, ReceiveFails(e) PROVE IInv'
  BY <1>2, StoringFails
<1>3. ASSUME NEW e \in Event, Withhold(e) PROVE IInv'
  BY <1>3, Withheld
<1>4. CASE Merge
  BY <1>4, Merged
<1>5. CASE WriteBlock
  BY <1>5, Written
<1>6. CASE UpdateConsensusState
  BY <1>6, Updated
<1>7. CASE UpdateFails
  BY <1>7, UpdateFailed
<1>8. CASE StartSession
  BY <1>8, Started
<1>9. CASE EndSession \/ Crash
  BY <1>9, SessionOver
<1>10. CASE UNCHANGED vars
  <2>1. UNCHANGED <<storage, kept, pc, worker, sessions, stale>>
    BY <1>10 DEF vars
  <2>2. StorageInv' /\ height' = height /\ Stored' = Stored
    BY <2>1, StorageKept DEF IInv
  <2>3. UNCHANGED <<required, heightOf, own, others, witnesses, kept, pc, worker, sessions, stale>>
    BY <2>1 DEF storage
  <2>4. TypeOK'
    BY <2>3 DEF IInv, TypeOK
  <2>5. MemoryInv'
    BY <2>2, <2>3 DEF IInv, MemoryInv, MemoryGone, InHandPlaced, Placed, MemoryApart,
       CommitmentKnown, Committing, CommittedIsThere, WithheldIsCommitted, Remembered,
       NonConsensus, Decided, ChildlessIn
  <2> QED BY <2>2, <2>4, <2>5 DEF IInv
<1> QED BY <1>1, <1>2, <1>3, <1>4, <1>5, <1>6, <1>7, <1>8, <1>9, <1>10 DEF Next

LEMMA Inductive == Spec => []IInv
BY InitIInv, NextIInv, PTL DEF Spec

(* Every variable has its type.                                             *)
THEOREM TypeCorrect == Spec => []TypeOK
<1>1. IInv => TypeOK
  BY DEF IInv
<1> QED BY <1>1, Inductive, PTL

(* What merge.js may merge as committed to is stored, whichever of block,   *)
(* cross-session cache and restart brought the commitment about.            *)
THEOREM MergesWhatIsStored == Spec => []CommittedIsStored
<1>1. IInv => CommittedIsStored
  BY DEF IInv, MemoryInv, CommittedIsThere, CommittedIsStored
<1> QED BY <1>1, Inductive, PTL

(* The requiredBlockHeight an event is served with is true: whoever has     *)
(* reached it may take the event.                                           *)
THEOREM ServedTruly == Spec => []AcceptableLater
<1>1. IInv => AcceptableLater
  <2> SUFFICES ASSUME IInv, NEW e \in Stored, NEW h \in required[e] .. height, Basis[e] <= h
               PROVE  Acceptable(e, h)
    BY DEF AcceptableLater
  <2>1. e \in Event /\ Evidence(e, required[e]) /\ Basis[e] \in Nat
    BY CommitmentsAssumption DEF IInv, StorageInv, StoredWithEvidence, Stored
  <2>2. required[e] \in Int /\ height \in Nat
    BY <2>1, Ranges, CommitmentsAssumption DEF IInv, TypeOK, Heights
  <2>3. h \in 0 .. height /\ required[e] <= h
    BY <2>1, <2>2
  <2> QED BY <2>1, <2>2, <2>3, EvidenceAccepts DEF IInv
<1> QED BY <1>1, Inductive, PTL

(* The merge events the local peer makes keep the protocol's rule: what     *)
(* they merge of non-witnesses has an own commitment in a block.            *)
THEOREM MergesByTheRule == Spec => []MergedWasCommitted
<1>1. IInv => MergedWasCommitted
  BY DEF IInv, StorageInv
<1> QED BY <1>1, Inductive, PTL

(* What is held back is not in storage meanwhile, unless the session began  *)
(* with a withheld event from the cache that had been stored.               *)
THEOREM HeldBackStaysAway == Spec => []HeldBackIsAway
<1>1. IInv => HeldBackIsAway
  <2>1. IInv => worker.withheld # None \/ worker.withheld \notin Stored
    BY CommitmentsAssumption DEF Stored
  <2> QED BY <2>1 DEF IInv, MemoryInv, MemoryApart, WithheldIsCommitted, HeldBackIsAway
<1> QED BY <1>1, Inductive, PTL

(* The commitment in memory is the last one in storage, and the event       *)
(* withheld is the one it is to, but for a withheld event that was stale    *)
(* when the session took it from the cache.                                 *)
THEOREM CommitmentAsRecorded == Spec => []CommitmentIsRecorded
<1>1. IInv => CommitmentIsRecorded
  <2> SUFFICES ASSUME IInv PROVE CommitmentIsRecorded
    OBVIOUS
  <2>1. ASSUME worker.commitment # None
        PROVE  worker.commitment.by = Max(Committing)
    <3> DEFINE g == worker.commitment.by
    <3>1. g \in DOMAIN own /\ worker.commitment.to = own[g].commit
          /\ \A i \in Committing : i <= g
      BY <2>1 DEF IInv, MemoryInv, CommitmentKnown
    <3>2. own[g].commit # None
      <4>1. worker.commitment.to \in Event
        BY <2>1 DEF IInv, TypeOK, Worker
      <4> QED BY <3>1, <4>1, CommitmentsAssumption
    <3> HIDE DEF g
    <3>3. g \in Committing /\ \A i \in Committing : i \in Int
      BY <3>1, <3>2, Ranges DEF Committing, IInv
    <3>4. \A i \in Committing : g >= i
      BY <3>1, <3>3
    <3>5. Max(Committing) \in Committing /\ \A i \in Committing : Max(Committing) >= i
      BY <3>3, <3>4, MaxIs
    <3>6. g = Max(Committing)
      BY <3>3, <3>4, <3>5
    <3> QED BY <3>6 DEF g
  <2> QED BY <2>1 DEF IInv, MemoryInv, CommitmentKnown, WithheldIsCommitted, CommitmentIsRecorded
<1> QED BY <1>1, Inductive, PTL

(* What a session remembers of recent history is what a restart would read  *)
(* from storage, but for sessions that began stale.                         *)
THEOREM RemembersAsStored == Spec => []HistoryAsRestored
<1>1. IInv => HistoryAsRestored
  BY DEF IInv, MemoryInv, Remembered, HistoryAsRestored
<1> QED BY <1>1, Inductive, PTL
=============================================================================
