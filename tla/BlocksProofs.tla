---------------------------- MODULE BlocksProofs ----------------------------
(***************************************************************************)
(* Theorems about writing blocks, for any events, parents and number of    *)
(* failures.                                                               *)
(***************************************************************************)
EXTENDS Blocks, AncestryProofs, SequenceTheorems

(* Only stored events get a height.                                         *)
StoredFirst == \A e \in Event : heightOf[e] # NoHeight => e \in stored

(* An event of a block has the height of that block.                        *)
BlockHeights == \A h \in DOMAIN blocks : \A e \in blocks[h] : heightOf[e] = h

(* A session works on the block after the last one.                         *)
HeightKnown == /\ pc \notin {"off", "advance"} => nextHeight = Height + 1
               /\ pc = "advance" => nextHeight = Height

(* The events of the block under way are those that get its height: they    *)
(* had none, or had it from a session that failed.                          *)
Updating ==
  pc \in {"update", "advance"} =>
    /\ pending \subseteq result
    /\ \A e \in result : heightOf[e] \in {NoHeight, nextHeight}
    /\ \A e \in result \ pending : heightOf[e] = nextHeight
    /\ pc = "advance" => pending = {}

(* The events of a batch are new to the storage and the memory.             *)
Writing ==
  pc = "write" =>
    /\ pending \subseteq batch
    /\ batch \ pending \subseteq stored
    /\ pending \cap stored = {}
    /\ batch \cap history = {}
    /\ \A e \in batch : heightOf[e] = NoHeight

(* The recent history is what the storage has without consensus, but for    *)
(* the events under way.                                                    *)
UnderWay(e) == \/ pc \in {"update", "advance"} /\ e \in result
               \/ pc = "write" /\ e \in batch
Remembers ==
  pc # "off" => \A e \in stored \cap MergeEvent :
                  UnderWay(e) \/ (e \in history <=> heightOf[e] = NoHeight)

IInv == /\ TypeOK /\ StoredFirst /\ BlockHeights
        /\ HeightKnown /\ Updating /\ Writing /\ Remembers

LEMMA InitIInv == Init => IInv
<1> SUFFICES ASSUME Init PROVE IInv
  OBVIOUS
<1>1. blocks \in Seq(SUBSET Event) /\ DOMAIN blocks = {}
  BY DEF Init
<1>2. heightOf \in [Event -> Nat \cup {NoHeight}]
  BY DEF Init
<1>3. TypeOK /\ BlockHeights
  BY <1>1, <1>2 DEF Init, TypeOK, BlockHeights
<1>4. StoredFirst /\ HeightKnown /\ Updating /\ Writing /\ Remembers
  BY DEF Init, StoredFirst, HeightKnown, Updating, Writing, Remembers
<1> QED BY <1>3, <1>4 DEF IInv
-----------------------------------------------------------------------------
(* The block under way consists of stored events that are in no block.      *)
LEMMA ResultFresh ==
  ASSUME IInv, pc = "find"
  PROVE  LET block == ConsensusMergeEvents \cup NonConsensusAncestors
         IN /\ block \subseteq stored
            /\ \A e \in block : heightOf[e] \in {NoHeight, nextHeight}
<1>1. ConsensusMergeEvents \subseteq history
  BY DEF ConsensusMergeEvents, AncestorsWithin
<1>2. \A e \in history : e \in stored \cap MergeEvent /\ ~UnderWay(e)
  BY DEF IInv, TypeOK, UnderWay
<1>3. \A e \in history : heightOf[e] = NoHeight
  BY <1>2 DEF IInv, Remembers
<1>4. NonConsensusAncestors \subseteq stored
  BY DEF NonConsensusAncestors
<1>5. \A e \in NonConsensusAncestors : heightOf[e] \in {NoHeight, nextHeight}
  BY DEF NonConsensusAncestors
<1> QED BY <1>1, <1>2, <1>3, <1>4, <1>5

LEMMA NextIInv ==
  ASSUME IInv, [Next]_vars
  PROVE  IInv'
<1> USE BlocksAssumption
<1>0. /\ NoHeight \notin Nat /\ nextHeight \in Nat /\ Height \in Nat /\ Height + 1 \in Nat
      /\ blocks \in Seq(SUBSET Event) /\ DOMAIN blocks = 1 .. Height
  BY DEF IInv, TypeOK, Height, NoHeight
<1> USE DEF TypeOK, StoredFirst, HeightKnown, Updating, Writing, UnderWay
<1>1. CASE StartSession
  <2>1. (\A e \in RecentHistory : e \in stored \cap MergeEvent) /\ Height' = Height
    BY <1>1 DEF StartSession, RecentHistory, NonConsensus, storage, Height
  <2>2. TypeOK' /\ StoredFirst' /\ HeightKnown' /\ Updating' /\ Writing'
    BY <1>0, <1>1, <2>1 DEF IInv, StartSession, storage
  <2>3. BlockHeights'
    BY <1>1 DEF IInv, StartSession, storage, BlockHeights
  <2>4. Remembers'
    BY <1>1 DEF StartSession, storage, Remembers, RecentHistory, NonConsensus
  <2> QED BY <2>2, <2>3, <2>4 DEF IInv
<1>2. CASE FindConsensus
  <2>1. BlockHeights'
    BY <1>2 DEF IInv, FindConsensus, storage, BlockHeights
  <2>2. CASE Tails = {}
    <3>1. TypeOK' /\ StoredFirst' /\ HeightKnown' /\ Updating' /\ Writing'
      BY <1>0, <1>2, <2>2 DEF IInv, FindConsensus, storage, Height
    <3>2. Remembers'
      BY <1>2, <2>2 DEF IInv, FindConsensus, storage, Remembers
    <3> QED BY <2>1, <3>1, <3>2 DEF IInv
  <2>3. CASE Tails # {}
    <3>1. /\ result' \subseteq stored
          /\ \A e \in result' : heightOf[e] \in {NoHeight, nextHeight}
          /\ pending' = result' /\ pc' = "update"
      BY <1>2, <2>3, ResultFresh DEF FindConsensus
    <3> HIDE DEF UnderWay
    <3>2. TypeOK' /\ StoredFirst' /\ HeightKnown' /\ Updating' /\ Writing'
      BY <1>0, <1>2, <3>1 DEF IInv, FindConsensus, storage, Height
    <3>3. Remembers'
      BY <1>2, <3>1 DEF IInv, FindConsensus, storage, Remembers, UnderWay
    <3> QED BY <2>1, <3>2, <3>3 DEF IInv
  <2> QED BY <2>2, <2>3
<1>3. ASSUME NEW e \in Event, UpdateEvent(e)
      PROVE  IInv'
  <2>1. /\ heightOf' = [heightOf EXCEPT ![e] = nextHeight] /\ pending' = pending \ {e}
        /\ e \in pending /\ pc = "update" /\ pc' = "update"
        /\ UNCHANGED <<stored, blocks, history, nextHeight, result, batch, failures, torn>>
    BY <1>3 DEF UpdateEvent
  <2>2. TypeOK'
    BY <1>0, <2>1 DEF IInv
  <2>3. StoredFirst' /\ HeightKnown' /\ Writing'
    BY <1>0, <2>1 DEF IInv, Height
  <2>4. Updating'
    BY <1>0, <2>1 DEF IInv
  <2>5. BlockHeights'
    <3>1. \A h \in DOMAIN blocks : e \notin blocks[h]
      <4>1. heightOf[e] \in {NoHeight, Height + 1}
        BY <2>1 DEF IInv
      <4> QED BY <1>0, <4>1 DEF IInv, BlockHeights
    <3> QED BY <1>0, <2>1, <3>1 DEF IInv, BlockHeights
  <2>6. Remembers'
    BY <2>1 DEF IInv, Remembers
  <2> QED BY <2>2, <2>3, <2>4, <2>5, <2>6 DEF IInv
<1>4. CASE AddBlock
  <2>1. /\ blocks' = Append(blocks, result) /\ pc = "update" /\ pc' = "advance" /\ pending = {}
        /\ UNCHANGED <<stored, heightOf, memory, failures, torn>>
    BY <1>4 DEF AddBlock
  <2>2. blocks' \in Seq(SUBSET Event) /\ Height' = Height + 1 /\ DOMAIN blocks' = 1 .. Height + 1
    BY <1>0, <2>1 DEF IInv, Height
  <2>3. TypeOK' /\ StoredFirst' /\ HeightKnown' /\ Updating' /\ Writing'
    <3>1. nextHeight = Height'
      BY <2>1, <2>2 DEF IInv
    <3> HIDE DEF Height
    <3> QED BY <1>0, <2>1, <2>2, <3>1 DEF IInv, memory
  <2>4. BlockHeights'
    <3>1. ASSUME NEW h \in 1 .. Height + 1, NEW e \in blocks'[h]
          PROVE  heightOf[e] = h
      <4>1. CASE h = Height + 1
        <5>1. blocks'[Height + 1] = result
          BY <1>0, <2>1 DEF IInv, Height
        <5>2. \A x \in result : heightOf[x] = Height + 1
          BY <2>1 DEF IInv
        <5> QED BY <4>1, <5>1, <5>2
      <4>2. CASE h # Height + 1
        <5>1. h \in 1 .. Height
          BY <1>0, <4>2
        <5>2. blocks'[h] = blocks[h]
          BY <1>0, <2>1, <5>1 DEF Height
        <5>3. e \in blocks[h]
          BY <5>2
        <5> QED BY <1>0, <5>1, <5>3 DEF IInv, BlockHeights
      <4> QED BY <4>1, <4>2
    <3> QED BY <2>1, <2>2, <3>1 DEF BlockHeights
  <2>5. Remembers'
    BY <2>1 DEF IInv, Remembers, memory
  <2> QED BY <2>3, <2>4, <2>5 DEF IInv
<1>5. CASE UpdateConsensusState
  <2>1. /\ history' = history \ result /\ nextHeight' = nextHeight + 1 /\ result' = {}
        /\ pc = "advance" /\ pc' = "find"
        /\ UNCHANGED <<storage, pending, batch, failures, torn>>
    BY <1>5 DEF UpdateConsensusState, Forgotten
  <2>2. TypeOK' /\ StoredFirst' /\ HeightKnown' /\ Updating' /\ Writing'
    BY <1>0, <2>1 DEF IInv, storage, Height
  <2>3. BlockHeights'
    BY <2>1 DEF IInv, storage, BlockHeights
  <2>4. Remembers'
    <3>1. \A e \in result : heightOf[e] # NoHeight
      BY <1>0, <2>1 DEF IInv
    <3> QED BY <2>1, <3>1 DEF IInv, storage, Remembers
  <2> QED BY <2>2, <2>3, <2>4 DEF IInv
<1>6. ASSUME NEW es \in Batches, Receive(es)
      PROVE  IInv'
  <2>1. /\ batch' = es /\ pending' = es /\ pc = "gossip" /\ pc' = "write"
        /\ UNCHANGED <<storage, history, nextHeight, result, failures, torn>>
    BY <1>6 DEF Receive
  <2>2. es \subseteq Event \ stored
    BY DEF Batches
  <2>3. TypeOK' /\ StoredFirst' /\ HeightKnown' /\ Updating' /\ Writing'
    BY <1>0, <2>1, <2>2 DEF IInv, storage, Height
  <2>4. BlockHeights'
    BY <2>1 DEF IInv, storage, BlockHeights
  <2>5. Remembers'
    BY <2>1, <2>2 DEF IInv, storage, Remembers
  <2> QED BY <2>3, <2>4, <2>5 DEF IInv
<1>7. ASSUME NEW e \in Event, WriteEvent(e)
      PROVE  IInv'
  <2>1. /\ stored' = stored \cup {e} /\ pending' = pending \ {e} /\ e \in pending
        /\ pc = "write" /\ pc' = "write"
        /\ UNCHANGED <<heightOf, blocks, history, nextHeight, result, batch, failures, torn>>
    BY <1>7 DEF WriteEvent
  <2>2. TypeOK' /\ StoredFirst' /\ HeightKnown' /\ Updating' /\ Writing'
    BY <1>0, <2>1 DEF IInv, Height
  <2>3. BlockHeights'
    BY <2>1 DEF IInv, BlockHeights
  <2>4. Remembers'
    BY <2>1 DEF IInv, Remembers
  <2> QED BY <2>2, <2>3, <2>4 DEF IInv
<1>8. CASE AddPeerEvents
  <2>1. /\ history' = history \cup (batch \cap MergeEvent) /\ batch' = {} /\ pending = {}
        /\ pc = "write" /\ pc' = "find"
        /\ UNCHANGED <<storage, nextHeight, result, pending, failures, torn>>
    BY <1>8 DEF AddPeerEvents, Summaries
  <2>2. TypeOK' /\ StoredFirst' /\ HeightKnown' /\ Updating' /\ Writing'
    BY <1>0, <2>1 DEF IInv, storage, Height
  <2>3. BlockHeights'
    BY <2>1 DEF IInv, storage, BlockHeights
  <2>4. Remembers'
    BY <2>1 DEF IInv, storage, Remembers
  <2> QED BY <2>2, <2>3, <2>4 DEF IInv
<1>9. ASSUME Forget, UNCHANGED storage, failures' \in Nat, torn' \in BOOLEAN
      PROVE  IInv'
  BY <1>0, <1>9 DEF IInv, Forget, storage, BlockHeights, Remembers
<1>10. CASE Halt
  BY <1>9, <1>10 DEF Halt, IInv
<1>11. CASE Fail
  <2>1. torn \in BOOLEAN /\ failures \in Nat
    BY DEF IInv
  <2>2. torn' \in BOOLEAN
    BY <1>11, <2>1 DEF Fail
  <2> QED BY <1>9, <1>11, <2>1, <2>2 DEF Fail
<1>12. CASE UNCHANGED vars
  BY <1>12 DEF IInv, vars, storage, memory, BlockHeights, Remembers, Height
<1> QED BY <1>1, <1>2, <1>3, <1>4, <1>5, <1>6, <1>7, <1>8, <1>10, <1>11, <1>12
        DEF Next, Update, Gossip, Flush

THEOREM Invariance == Spec => []IInv
BY InitIInv, NextIInv, PTL DEF Spec
-----------------------------------------------------------------------------
(* The ledger that every node has to build.                                 *)

LEMMA LedgerStep ==
  ASSUME NEW h \in Nat, h + 1 <= Len(WitnessEvents)
  PROVE  /\ LedgerUpTo(h) \subseteq LedgerUpTo(h + 1)
         /\ WitnessEvents[h + 1] \in LedgerUpTo(h + 1)
         /\ LedgerUpTo(h + 1) = LedgerUpTo(h) \cup TrueBlock(h + 1)
<1> USE BlocksAssumption
<1>1. /\ WitnessEvents[h + 1] \in Event
      /\ h + 1 # 0 /\ (h + 1) - 1 = h /\ h + 1 \in DOMAIN WitnessEvents
      /\ h # 0 => h \in DOMAIN WitnessEvents /\ WitnessEvents[h] \in Event
  OBVIOUS
<1> DEFINE A == AncestorsWithin(Parent, Event, {WitnessEvents[h + 1]})
<1>2. LedgerUpTo(h + 1) = A
  BY <1>1 DEF LedgerUpTo
<1>3. /\ A \subseteq Event /\ {WitnessEvents[h + 1]} \cap Event \subseteq A
      /\ \A e \in A : Parent[e] \cap Event \subseteq A
  <2> DEFINE start == {WitnessEvents[h + 1]}
  <2>1. IsFiniteSet(Event)
    OBVIOUS
  <2> HIDE DEF start
  <2>2. /\ AncestorsWithin(Parent, Event, start) \subseteq Event
        /\ start \cap Event \subseteq AncestorsWithin(Parent, Event, start)
        /\ \A e \in AncestorsWithin(Parent, Event, start) :
             Parent[e] \cap Event \subseteq AncestorsWithin(Parent, Event, start)
    BY <2>1, AncestorsClosed
  <2> QED BY <2>2 DEF start
<1> HIDE DEF A
<1>4. LedgerUpTo(h) \subseteq A
  <2>1. CASE h = 0
    BY <2>1 DEF LedgerUpTo
  <2>2. CASE h # 0
    <3>1. LedgerUpTo(h) = AncestorsWithin(Parent, Event, {WitnessEvents[h]})
      BY <2>2 DEF LedgerUpTo
    <3>2. WitnessEvents[h] \in Parent[WitnessEvents[h + 1]]
      BY <1>1, <2>2, Lineage
    <3>3. WitnessEvents[h] \in A
      BY <1>1, <1>3, <2>2, <3>2
    <3>4. {WitnessEvents[h]} \cap Event \subseteq A /\ \A e \in A \cap Event : Parent[e] \cap Event \subseteq A
      BY <1>3, <3>3
    <3>5. IsFiniteSet(Event)
      OBVIOUS
    <3> QED BY <3>1, <3>4, <3>5, AncestorsLeast
  <2> QED BY <2>1, <2>2
<1> QED BY <1>1, <1>2, <1>3, <1>4 DEF TrueBlock

LEMMA LedgerIsBlocks ==
  ASSUME NEW n \in Nat, n <= Len(WitnessEvents)
  PROVE  /\ LedgerUpTo(n) = UNION {TrueBlock(h) : h \in 1 .. n}
         /\ \A h \in 1 .. n : WitnessEvents[h] \in LedgerUpTo(n)
<1> DEFINE built == {k \in Nat : k <= Len(WitnessEvents) =>
                       /\ LedgerUpTo(k) = UNION {TrueBlock(h) : h \in 1 .. k}
                       /\ \A h \in 1 .. k : WitnessEvents[h] \in LedgerUpTo(k)}
<1>0. Len(WitnessEvents) \in Nat
  BY BlocksAssumption
<1>1. 0 \in built
  BY DEF LedgerUpTo
<1>2. ASSUME NEW k \in built PROVE k + 1 \in built
  <2>1. SUFFICES ASSUME k + 1 <= Len(WitnessEvents)
                 PROVE  /\ LedgerUpTo(k + 1) = UNION {TrueBlock(h) : h \in 1 .. k + 1}
                        /\ \A h \in 1 .. k + 1 : WitnessEvents[h] \in LedgerUpTo(k + 1)
    OBVIOUS
  <2>2. k \in Nat /\ k <= Len(WitnessEvents)
    BY <1>0, <2>1
  <2>3. /\ LedgerUpTo(k) = UNION {TrueBlock(h) : h \in 1 .. k}
        /\ \A h \in 1 .. k : WitnessEvents[h] \in LedgerUpTo(k)
    BY <2>2
  <2>4. 1 .. k + 1 = 1 .. k \cup {k + 1}
    BY <2>2
  <2>5. UNION {TrueBlock(h) : h \in 1 .. k + 1} = (UNION {TrueBlock(h) : h \in 1 .. k}) \cup TrueBlock(k + 1)
    BY <2>4
  <2>6. /\ LedgerUpTo(k + 1) = LedgerUpTo(k) \cup TrueBlock(k + 1)
        /\ WitnessEvents[k + 1] \in LedgerUpTo(k + 1)
    BY <2>1, <2>2, LedgerStep
  <2> QED BY <2>3, <2>4, <2>5, <2>6
<1>3. built = Nat
  <2>1. built \in SUBSET Nat
    OBVIOUS
  <2> HIDE DEF built
  <2> QED BY <1>1, <1>2, <2>1, AllNaturals
<1>4. n \in built
  BY <1>3
<1> QED BY <1>4
-----------------------------------------------------------------------------
(* How a node follows it.                                                   *)

(* Events are stored after their parents.                                   *)
ParentsStored == \A e \in stored : Parent[e] \subseteq stored \cup {Genesis}
BatchComplete == pc = "write" => \A e \in batch : Parent[e] \subseteq stored \cup batch \cup {Genesis}

(* Heights are given for the blocks that exist and for the next one.  What  *)
(* has the height of the next one is in it whenever it is written; outside  *)
(* of the session that writes it no merge event has it.                     *)
HeightsTrue ==
  /\ \A e \in Event : heightOf[e] \in DOMAIN blocks => e \in blocks[heightOf[e]]
  /\ \A e \in Event : heightOf[e] \notin DOMAIN blocks \cup {NoHeight} =>
       /\ heightOf[e] = Height + 1
       /\ Height + 1 <= Len(WitnessEvents) /\ e \in TrueBlock(Height + 1)
       /\ e \in MergeEvent => pc = "update" /\ e \in result \ pending

(* The block under way is the next one.                                     *)
UpdatesTrueBlock ==
  pc = "update" => /\ Height + 1 <= Len(WitnessEvents)
                   /\ result = TrueBlock(Height + 1)
                   /\ result \cap MergeEvent \subseteq history

LInv == /\ IInv /\ ParentsStored /\ BatchComplete
        /\ WritesTrueBlock
        /\ torn \/ (HeightsTrue /\ UpdatesTrueBlock)

LEMMA InitLInv == Init => LInv
<1> SUFFICES ASSUME Init PROVE LInv
  OBVIOUS
<1>1. DOMAIN blocks = {}
  BY DEF Init
<1> QED BY <1>1, InitIInv, BlocksAssumption
        DEF Init, LInv, ParentsStored, BatchComplete, WritesTrueBlock, HeightsTrue, UpdatesTrueBlock

(* What is in the ledger so far has the height of a block.                  *)
LEMMA InLedger ==
  ASSUME LInv, ~torn, NEW e \in Event
  PROVE  /\ Height \in Nat /\ Height <= Len(WitnessEvents) /\ DOMAIN blocks = 1 .. Height
         /\ e \in LedgerUpTo(Height) <=> heightOf[e] \in DOMAIN blocks
<1>1. Height \in Nat /\ DOMAIN blocks = 1 .. Height
  BY DEF LInv, IInv, TypeOK, Height
<1>2. \A h \in 1 .. Height : h <= Len(WitnessEvents) /\ blocks[h] = TrueBlock(h)
  BY <1>1 DEF LInv, WritesTrueBlock
<1>3. Height <= Len(WitnessEvents) /\ Len(WitnessEvents) \in Nat
  <2>1. Len(WitnessEvents) \in Nat
    BY BlocksAssumption
  <2>2. Height = 0 \/ Height \in 1 .. Height
    BY <1>1
  <2> QED BY <1>1, <1>2, <2>1, <2>2
<1>4. LedgerUpTo(Height) = UNION {TrueBlock(h) : h \in 1 .. Height}
  BY <1>1, <1>3, LedgerIsBlocks
<1>5. ASSUME e \in LedgerUpTo(Height) PROVE heightOf[e] \in 1 .. Height
  <2>1. PICK h \in 1 .. Height : e \in TrueBlock(h)
    BY <1>4, <1>5
  <2>2. heightOf[e] = h
    BY <1>1, <1>2, <2>1 DEF LInv, IInv, BlockHeights
  <2> QED BY <2>2
<1>6. ASSUME heightOf[e] \in 1 .. Height PROVE e \in LedgerUpTo(Height)
  BY <1>1, <1>2, <1>4, <1>6 DEF LInv, HeightsTrue
<1> QED BY <1>1, <1>3, <1>5, <1>6

(* Consensus finds the next block of the ledger, whatever else is stored    *)
(* and whatever regular events a failed session has given its height.       *)
LEMMA FindsTrueBlock ==
  ASSUME LInv, ~torn, pc = "find", Tails # {}
  PROVE  /\ Height + 1 <= Len(WitnessEvents)
         /\ ConsensusMergeEvents \cup NonConsensusAncestors = TrueBlock(Height + 1)
         /\ (ConsensusMergeEvents \cup NonConsensusAncestors) \cap MergeEvent \subseteq history
<1> USE BlocksAssumption
<1> DEFINE H == Height
           C == ConsensusMergeEvents
           N == NonConsensusAncestors
           L == LedgerUpTo(H)
<1>1. /\ H \in Nat /\ H <= Len(WitnessEvents) /\ DOMAIN blocks = 1 .. H
      /\ \A e \in Event : e \in L <=> heightOf[e] \in 1 .. H
  <2>1. Event # {}
    BY DEF Tails, Witnessed
  <2> QED BY <2>1, InLedger
<1>2. /\ stored \subseteq Event /\ history \subseteq stored \cap MergeEvent
      /\ nextHeight = H + 1 /\ MergeEvent \subseteq Event /\ NoHeight = -1
      /\ \A e \in stored \cap MergeEvent : e \in history <=> heightOf[e] = NoHeight
      /\ ParentsStored
  BY DEF LInv, IInv, TypeOK, HeightKnown, Remembers, UnderWay, NoHeight
<1>3. HeightsTrue
  <2>1. ~torn
    OBVIOUS
  <2>2. torn \/ (HeightsTrue /\ UpdatesTrueBlock)
    BY DEF LInv
  <2> QED BY ONLY <2>1, <2>2, Zenon
<1> HIDE DEF H
<1>4. \A e \in Event : /\ heightOf[e] \in 1 .. H \cup {NoHeight, H + 1}
                       /\ e \in MergeEvent => heightOf[e] # H + 1
  <2>1. pc # "update" /\ DOMAIN blocks = 1 .. H
    BY <1>1
  <2>2. \A e \in Event : heightOf[e] \notin DOMAIN blocks \cup {NoHeight} =>
          heightOf[e] = Height + 1 /\ (e \in MergeEvent => pc = "update")
    BY ONLY <1>3 DEF HeightsTrue
  <2>3. \A e \in Event : heightOf[e] \notin 1 .. H \cup {NoHeight} =>
          heightOf[e] = H + 1 /\ e \notin MergeEvent
    BY ONLY <2>1, <2>2 DEF H
  <2>4. H + 1 \notin 1 .. H \cup {NoHeight}
    BY ONLY <1>1, <1>2
  <2> QED BY ONLY <2>3, <2>4
<1>5. \A e \in stored \cap MergeEvent : e \in L \/ e \in history
  BY <1>1, <1>2, <1>4
<1>6. history \cap L = {}
  BY <1>1, <1>2
<1> HIDE DEF L
(* The one tail is the witness's next event.                                *)
<1>7. Tails = {WitnessEvents[H + 1]} /\ H + 1 <= Len(WitnessEvents)
  <2> SUFFICES ASSUME NEW w \in Tails
               PROVE  w = WitnessEvents[H + 1] /\ H + 1 <= Len(WitnessEvents)
    OBVIOUS
  <2>1. PICK i \in DOMAIN WitnessEvents : w = WitnessEvents[i]
    BY DEF Tails, Witnessed
  <2>2. w \in history /\ TreeParent[w] \notin history
    BY DEF Tails
  <2>3. i \in Nat /\ i >= 1 /\ i <= Len(WitnessEvents)
    BY <2>1
  <2>4. ~(i <= H)
    <3>1. i <= H => WitnessEvents[i] \in L
      BY <1>1, <2>3, LedgerIsBlocks DEF L
    <3> QED BY <1>6, <2>1, <2>2, <3>1
  <2>5. ~(i > H + 1)
    <3>1. SUFFICES ASSUME i > H + 1 PROVE FALSE
      OBVIOUS
    <3>2. i - 1 \in DOMAIN WitnessEvents /\ i # 1
      BY <1>1, <2>3, <3>1
    <3>3. TreeParent[w] = WitnessEvents[i - 1]
      BY <2>1, <3>2, Lineage
    <3>4. WitnessEvents[i - 1] \in MergeEvent /\ w \in Event /\ TreeParent[w] \in Parent[w]
      BY <1>2, <2>2, <3>2
    <3>5. TreeParent[w] \in stored
      BY <1>2, <2>2, <3>3, <3>4 DEF ParentsStored
    <3>6. WitnessEvents[i - 1] \in L
      BY <1>5, <2>2, <3>3, <3>4, <3>5
    <3>7. H # 0
      BY <3>6 DEF L, LedgerUpTo
    <3>8. H \in 1 .. (i - 1) - 1
      BY <1>1, <2>3, <3>1, <3>7
    <3> QED BY <3>2, <3>6, <3>8, Lineage DEF L
  <2>6. i = H + 1
    BY <1>1, <2>3, <2>4, <2>5
  <2> QED BY <2>1, <2>3, <2>6
<1> DEFINE w == WitnessEvents[H + 1]
<1>8. /\ LedgerUpTo(H + 1) = AncestorsWithin(Parent, Event, {w})
      /\ TrueBlock(H + 1) = LedgerUpTo(H + 1) \ L
      /\ w \in Event /\ w \in history
  <2>1. H + 1 # 0 /\ (H + 1) - 1 = H /\ H + 1 \in DOMAIN WitnessEvents
    BY <1>1, <1>7
  <2>2. w \in history
    BY <1>7 DEF Tails
  <2> QED BY <1>2, <2>1, <2>2 DEF LedgerUpTo, TrueBlock, L
<1>9. C = AncestorsWithin(Parent, history, {w})
  BY <1>7 DEF ConsensusMergeEvents
<1> HIDE DEF w
<1>10. IsFiniteSet(Event) /\ IsFiniteSet(history)
  BY <1>2, FS_Subset
<1>11. /\ C \subseteq history /\ w \in C
       /\ \A e \in C : Parent[e] \cap history \subseteq C
  BY <1>8, <1>9, <1>10, AncestorsClosed
<1> DEFINE A == LedgerUpTo(H + 1)
<1>12. /\ A \subseteq Event /\ w \in A
       /\ \A e \in A : Parent[e] \cap Event \subseteq A
  BY <1>8, <1>10, AncestorsClosed
<1>13. /\ L \subseteq Event
       /\ \A e \in L : Parent[e] \cap Event \subseteq L
  <2>1. CASE H = 0
    BY <2>1 DEF L, LedgerUpTo
  <2>2. CASE H # 0
    <3>1. L = AncestorsWithin(Parent, Event, {WitnessEvents[H]})
      BY <2>2 DEF L, LedgerUpTo
    <3> QED BY <1>10, <3>1, AncestorsClosed
  <2> QED BY <2>1, <2>2
<1> HIDE DEF C, A
<1>14. /\ N \subseteq stored /\ \A e \in N : e \notin history /\ heightOf[e] \in {NoHeight, H + 1}
       /\ \A e \in N : \E m \in C : e \in Parent[m]
       /\ \A m \in C : \A e \in Parent[m] \cap stored :
            e # TreeParent[m] /\ e \notin history /\ heightOf[e] \in {NoHeight, H + 1} => e \in N
  BY <1>2 DEF NonConsensusAncestors, ParentHashes, C
<1> HIDE DEF N
<1>15. \A e \in N : e \notin MergeEvent
  BY <1>2, <1>4, <1>14
<1>16. C \cup N \subseteq A
  <2>1. {w} \cap history \subseteq A /\ \A e \in A \cap history : Parent[e] \cap history \subseteq A
    BY <1>2, <1>12
  <2>2. C \subseteq A
    BY <1>9, <1>10, <2>1, AncestorsLeast
  <2>3. N \subseteq A
    BY <1>2, <1>12, <1>14, <2>2
  <2> QED BY <2>2, <2>3
<1>17. (C \cup N) \cap L = {}
  <2>1. H + 1 \notin 1 .. H /\ NoHeight \notin 1 .. H
    BY <1>1, <1>2
  <2> QED BY <1>1, <1>2, <1>6, <1>11, <1>14, <2>1
<1>18. A \subseteq C \cup N \cup L
  <2> DEFINE S == C \cup N \cup L
  <2>1. ASSUME NEW m \in C, NEW p \in Parent[m] \cap Event PROVE p \in S
    <3>1. m \in stored /\ m \in MergeEvent /\ m \in Event
      BY <1>2, <1>11
    <3>2. p \in stored
      BY <1>2, <3>1 DEF ParentsStored
    <3>3. CASE p \in history
      BY <1>11, <3>3
    <3>4. CASE p \in L
      BY <3>4
    <3>5. CASE p \notin history /\ p \notin L
      <4>1. heightOf[p] \in {NoHeight, H + 1}
        BY <1>1, <1>4, <3>5
      <4>2. p \notin MergeEvent
        BY <1>5, <3>2, <3>5
      <4>3. p # TreeParent[m]
        BY <3>1, <4>2, Lineage
      <4>4. p \in N
        BY <1>14, <3>2, <3>5, <4>1, <4>3
      <4> QED BY <4>4
    <3> QED BY <3>3, <3>4, <3>5
  <2>2. ASSUME NEW e \in N, NEW p \in Parent[e] \cap Event PROVE p \in S
    <3>1. PICK m \in C : e \in Parent[m]
      BY <1>14
    <3>2. m \in MergeEvent /\ m \in Event /\ e \in Event \ MergeEvent
      BY <1>2, <1>11, <1>14, <1>15
    <3>3. Parent[e] = {TreeParent[m]} /\ TreeParent[m] \in Parent[m]
      BY <3>1, <3>2, Lineage
    <3>4. p \in Parent[m] \cap Event
      BY <3>3
    <3> QED BY <2>1, <3>4
  <2>3. {w} \cap Event \subseteq S
    BY <1>11
  <2>4. \A e \in S \cap Event : Parent[e] \cap Event \subseteq S
    BY <1>13, <2>1, <2>2
  <2> HIDE DEF S
  <2>5. A \subseteq S
    BY <1>8, <1>10, <2>3, <2>4, AncestorsLeast DEF A
  <2> QED BY <2>5 DEF S
<1>19. C \cup N = TrueBlock(H + 1)
  BY <1>8, <1>16, <1>17, <1>18 DEF A
<1>20. (C \cup N) \cap MergeEvent \subseteq history
  BY <1>11, <1>15
<1> QED BY <1>7, <1>19, <1>20 DEF H, C, N

LEMMA NextLInv ==
  ASSUME LInv, [Next]_vars
  PROVE  LInv'
<1> USE BlocksAssumption
<1>0. /\ IInv' /\ NoHeight = -1 /\ Height \in Nat /\ DOMAIN blocks = 1 .. Height
      /\ blocks \in Seq(SUBSET Event) /\ torn \in BOOLEAN
      /\ stored \subseteq Event /\ batch \subseteq Event
  BY NextIInv DEF LInv, IInv, TypeOK, Height, NoHeight
<1>1. CASE StartSession \/ UNCHANGED vars
  <2>1. UNCHANGED <<stored, heightOf, blocks, batch, torn>> /\ Height' = Height
    BY <1>1 DEF StartSession, storage, memory, vars, Height
  <2>2. /\ pc' = "write" => pc = "write"
        /\ pc' = "update" <=> pc = "update"
        /\ pc = "update" => UNCHANGED <<result, pending, history>>
    BY <1>1 DEF StartSession, vars, memory
  <2> QED BY <1>0, <2>1, <2>2 DEF LInv, ParentsStored, BatchComplete, WritesTrueBlock, HeightsTrue,
                                  UpdatesTrueBlock
<1>2. CASE FindConsensus
  <2>1. UNCHANGED <<stored, heightOf, blocks, history, torn>> /\ Height' = Height
        /\ pc = "find" /\ pc' \in {"gossip", "update"}
    BY <1>2 DEF FindConsensus, storage, Height
  <2>2. pc' = "update" =>
          Tails # {} /\ result' = ConsensusMergeEvents \cup NonConsensusAncestors
    BY <1>2 DEF FindConsensus
  <2>3. torn \/ (HeightsTrue' /\ UpdatesTrueBlock')
    <3>1. SUFFICES ASSUME ~torn PROVE HeightsTrue' /\ UpdatesTrueBlock'
      OBVIOUS
    <3>2. HeightsTrue
      BY <3>1, Zenon DEF LInv
    <3>3. UpdatesTrueBlock'
      BY <2>1, <2>2, <3>1, FindsTrueBlock DEF UpdatesTrueBlock
    <3>4. HeightsTrue'
      BY <2>1, <3>2 DEF HeightsTrue
    <3> QED BY <3>3, <3>4
  <2> QED BY <1>0, <2>1, <2>3 DEF LInv, ParentsStored, BatchComplete, WritesTrueBlock
<1>3. ASSUME NEW e \in Event, UpdateEvent(e)
      PROVE  LInv'
  <2>1. /\ heightOf' = [heightOf EXCEPT ![e] = nextHeight] /\ pending' = pending \ {e}
        /\ e \in pending /\ pc = "update" /\ pc' = "update"
        /\ UNCHANGED <<stored, blocks, history, nextHeight, result, batch, failures, torn>>
    BY <1>3 DEF UpdateEvent
  <2>2. /\ Height' = Height /\ nextHeight = Height + 1 /\ e \in result
        /\ \A x \in Event : heightOf'[x] = IF x = e THEN Height + 1 ELSE heightOf[x]
    BY <2>1 DEF LInv, IInv, TypeOK, HeightKnown, Updating, Height
  <2>3. torn \/ (HeightsTrue' /\ UpdatesTrueBlock')
    <3>1. SUFFICES ASSUME ~torn PROVE HeightsTrue' /\ UpdatesTrueBlock'
      OBVIOUS
    <3>2. HeightsTrue /\ UpdatesTrueBlock
      BY <3>1, Zenon DEF LInv
    <3>3. UpdatesTrueBlock'
      BY <2>1, <2>2, <3>2 DEF UpdatesTrueBlock
    <3>4. /\ Height + 1 \notin DOMAIN blocks /\ DOMAIN blocks' = DOMAIN blocks
      BY <1>0, <2>1
    <3>5. ASSUME NEW x \in Event, heightOf'[x] \in DOMAIN blocks'
          PROVE  x \in blocks'[heightOf'[x]]
      BY <2>1, <2>2, <3>2, <3>4, <3>5 DEF HeightsTrue
    <3>6. ASSUME NEW x \in Event, heightOf'[x] \notin DOMAIN blocks' \cup {NoHeight}
          PROVE  /\ heightOf'[x] = Height + 1
                 /\ Height + 1 <= Len(WitnessEvents) /\ x \in TrueBlock(Height + 1)
                 /\ x \in MergeEvent => x \in result \ pending'
      <4>1. CASE x = e
        BY <2>1, <2>2, <3>2, <4>1 DEF UpdatesTrueBlock
      <4>2. CASE x # e
        BY <2>1, <2>2, <3>2, <3>4, <3>6, <4>2 DEF HeightsTrue
      <4> QED BY <4>1, <4>2
    <3>7. HeightsTrue'
      BY <2>1, <2>2, <3>5, <3>6 DEF HeightsTrue
    <3> QED BY <3>3, <3>7
  <2> QED BY <1>0, <2>1, <2>3 DEF LInv, ParentsStored, BatchComplete, WritesTrueBlock
<1>4. CASE AddBlock
  <2>1. /\ blocks' = Append(blocks, result) /\ pc = "update" /\ pc' = "advance" /\ pending = {}
        /\ UNCHANGED <<stored, heightOf, batch, torn>>
    BY <1>4 DEF AddBlock, memory
  <2>2. /\ Height' = Height + 1 /\ DOMAIN blocks' = 1 .. Height + 1
        /\ \A h \in 1 .. Height : blocks'[h] = blocks[h]
        /\ blocks'[Height + 1] = result
    BY <1>0, <2>1 DEF LInv, IInv, TypeOK, Height
  <2>3. torn \/ (HeightsTrue' /\ UpdatesTrueBlock' /\ WritesTrueBlock')
    <3>1. SUFFICES ASSUME ~torn PROVE HeightsTrue' /\ UpdatesTrueBlock' /\ WritesTrueBlock'
      OBVIOUS
    <3>2. HeightsTrue /\ UpdatesTrueBlock
      BY <3>1, Zenon DEF LInv
    <3>3. \A h \in DOMAIN blocks : h <= Len(WitnessEvents) /\ blocks[h] = TrueBlock(h)
      BY <3>1 DEF LInv, WritesTrueBlock
    <3>4. Height + 1 <= Len(WitnessEvents) /\ result = TrueBlock(Height + 1)
      BY <2>1, <3>2 DEF UpdatesTrueBlock
    <3> HIDE DEF Height
    <3>5. 1 .. Height + 1 = 1 .. Height \cup {Height + 1}
      BY <1>0
    <3>6. \A h \in 1 .. Height + 1 : h <= Len(WitnessEvents) /\ blocks'[h] = TrueBlock(h)
      BY <1>0, <2>2, <3>3, <3>4, <3>5
    <3>7. \A x \in Event : heightOf[x] \in 1 .. Height + 1 \cup {NoHeight}
      BY <1>0, <3>2, <3>5 DEF HeightsTrue
    <3>8. ASSUME NEW x \in Event, heightOf[x] \in 1 .. Height + 1
          PROVE  x \in blocks'[heightOf[x]]
      <4>1. CASE heightOf[x] \in 1 .. Height
        BY <1>0, <2>2, <3>2, <4>1 DEF HeightsTrue
      <4>2. CASE heightOf[x] = Height + 1
        <5>1. heightOf[x] \notin DOMAIN blocks \cup {NoHeight}
          BY <1>0, <4>2
        <5> QED BY <2>2, <3>2, <3>4, <4>2, <5>1 DEF HeightsTrue
      <4> QED BY <3>5, <3>8, <4>1, <4>2
    <3>9. WritesTrueBlock'
      BY <2>2, <3>6 DEF WritesTrueBlock
    <3>10. HeightsTrue'
      BY <2>1, <2>2, <3>7, <3>8 DEF HeightsTrue
    <3>11. UpdatesTrueBlock'
      BY <2>1 DEF UpdatesTrueBlock
    <3> QED BY <3>9, <3>10, <3>11
  <2>4. WritesTrueBlock'
    BY <2>1, <2>3 DEF WritesTrueBlock
  <2> QED BY <1>0, <2>1, <2>3, <2>4 DEF LInv, ParentsStored, BatchComplete
(* The rest gives no heights and adds no blocks.                            *)
<1>5. ASSUME UNCHANGED <<heightOf, blocks>>, pc # "update", pc' # "update", torn' = torn,
             ParentsStored', BatchComplete'
      PROVE  LInv'
  <2>1. Height' = Height
    BY <1>5 DEF Height
  <2>2. WritesTrueBlock'
    BY <1>5 DEF LInv, WritesTrueBlock
  <2>3. torn \/ (HeightsTrue' /\ UpdatesTrueBlock')
    <3>1. SUFFICES ASSUME ~torn PROVE HeightsTrue' /\ UpdatesTrueBlock'
      OBVIOUS
    <3>2. HeightsTrue
      BY <3>1, Zenon DEF LInv
    <3> QED BY <1>5, <2>1, <3>2 DEF HeightsTrue, UpdatesTrueBlock
  <2> QED BY <1>0, <1>5, <2>2, <2>3 DEF LInv
<1>6. CASE UpdateConsensusState
  <2>1. /\ UNCHANGED <<stored, heightOf, blocks, batch, torn>> /\ pc = "advance" /\ pc' = "find"
    BY <1>6 DEF UpdateConsensusState, storage
  <2> QED BY <1>5, <2>1 DEF LInv, ParentsStored, BatchComplete
<1>7. ASSUME NEW es \in Batches, Receive(es)
      PROVE  LInv'
  <2>1. /\ batch' = es /\ pc = "gossip" /\ pc' = "write"
        /\ UNCHANGED <<stored, heightOf, blocks, torn>>
    BY <1>7 DEF Receive, storage
  <2>2. BatchComplete'
    BY <2>1 DEF BatchComplete, Batches
  <2> QED BY <1>5, <2>1, <2>2 DEF LInv, ParentsStored
<1>8. ASSUME NEW e \in Event, WriteEvent(e)
      PROVE  LInv'
  <2>1. /\ stored' = stored \cup {e} /\ e \in pending /\ Parent[e] \cap pending = {}
        /\ pc = "write" /\ pc' = "write"
        /\ UNCHANGED <<heightOf, blocks, batch, torn>>
    BY <1>8 DEF WriteEvent
  <2>2. Parent[e] \subseteq stored \cup {Genesis}
    BY <2>1 DEF LInv, IInv, Writing, BatchComplete
  <2>3. ParentsStored' /\ BatchComplete'
    BY <2>1, <2>2 DEF LInv, ParentsStored, BatchComplete
  <2> QED BY <1>5, <2>1, <2>3
<1>9. CASE AddPeerEvents
  <2>1. UNCHANGED <<stored, heightOf, blocks, torn>> /\ pc = "write" /\ pc' = "find"
    BY <1>9 DEF AddPeerEvents, storage
  <2> QED BY <1>5, <2>1 DEF LInv, ParentsStored, BatchComplete
<1>10. CASE Halt
  <2>1. UNCHANGED <<stored, heightOf, blocks, torn>> /\ pc # "update" /\ pc' = "off"
    BY <1>10 DEF Halt, Forget, storage
  <2> QED BY <1>5, <2>1 DEF LInv, ParentsStored, BatchComplete
(* A session that fails before it has given a merge event its height tears  *)
(* no block.                                                                *)
<1>11. CASE Fail
  <2>1. /\ UNCHANGED <<stored, heightOf, blocks>> /\ pc' = "off" /\ Height' = Height
        /\ torn' = (torn \/ (pc = "update" /\ (result \cap history) \ pending # {}))
    BY <1>11 DEF Fail, Forget, storage, Height
  <2>2. WritesTrueBlock'
    BY <2>1 DEF LInv, WritesTrueBlock
  <2>3. torn' \/ (HeightsTrue' /\ UpdatesTrueBlock')
    <3>1. SUFFICES ASSUME ~torn' PROVE HeightsTrue' /\ UpdatesTrueBlock'
      OBVIOUS
    <3>2. ~torn
      BY <2>1, <3>1
    <3>3. HeightsTrue /\ UpdatesTrueBlock
      BY <3>2, Zenon DEF LInv
    <3>4. pc = "update" => (result \cap history) \ pending = {}
      BY <2>1, <3>1
    <3>5. \A x \in Event : heightOf[x] \notin DOMAIN blocks \cup {NoHeight} => x \notin MergeEvent
      BY <3>3, <3>4 DEF HeightsTrue, UpdatesTrueBlock
    <3>6. HeightsTrue'
      BY <2>1, <3>3, <3>5 DEF HeightsTrue
    <3> QED BY <2>1, <3>6 DEF UpdatesTrueBlock
  <2> QED BY <1>0, <2>1, <2>2, <2>3 DEF LInv, ParentsStored, BatchComplete
<1> QED BY <1>1, <1>2, <1>3, <1>4, <1>6, <1>7, <1>8, <1>9, <1>10, <1>11
        DEF Next, Update, Gossip, Flush
-----------------------------------------------------------------------------
(* The variables keep their types, and the recent history consists of       *)
(* stored merge events.                                                     *)
THEOREM TypeCorrect == Spec => []TypeOK
<1>1. IInv => TypeOK
  BY DEF IInv
<1> QED BY <1>1, Invariance, PTL

(* An event is in one block at most, whatever fails and however often.      *)
THEOREM NoEventInTwoBlocks == Spec => []OneBlock
<1>1. IInv => OneBlock
  BY DEF IInv, BlockHeights, OneBlock
<1> QED BY <1>1, Invariance, PTL

(* Every block is the one that everybody builds at its height, in whatever  *)
(* batches events come and wherever sessions end or fail, unless one failed *)
(* after it had given a merge event the height of a block and before it     *)
(* added that block.                                                        *)
THEOREM BlocksAreTrue == Spec => []WritesTrueBlock
<1>1. Spec => []LInv
  BY InitLInv, NextLInv, PTL DEF Spec
<1>2. LInv => WritesTrueBlock
  BY DEF LInv
<1> QED BY <1>1, <1>2, PTL

(* An event that has got the height of a block is in that block, unless a   *)
(* session failed after it had given a merge event the height of a block    *)
(* and before it added that block: nothing else loses an event.             *)
THEOREM OnlyTearsLose == Spec => [](torn \/ AllIncluded)
<1>1. Spec => []LInv
  BY InitLInv, NextLInv, PTL DEF Spec
<1>2. LInv => torn \/ AllIncluded
  <2> SUFFICES ASSUME LInv, ~torn PROVE AllIncluded
    OBVIOUS
  <2>1. HeightsTrue /\ stored \subseteq Event
    BY DEF LInv, IInv, TypeOK
  <2> QED BY ONLY <2>1 DEF HeightsTrue, AllIncluded
<1> QED BY <1>1, <1>2, PTL

(* Between blocks and batches a session remembers what a new one would read *)
(* from the storage, also after failures.                                   *)
THEOREM MemoryInSync == Spec => []MemoryMatchesStorage
<1>1. ASSUME IInv, pc \in {"find", "gossip"}
      PROVE  history = RecentHistory /\ nextHeight = Height + 1
  <2>1. history \subseteq stored \cap MergeEvent /\ nextHeight = Height + 1
    BY <1>1 DEF IInv, TypeOK, HeightKnown
  <2>2. \A e \in stored \cap MergeEvent : e \in history <=> heightOf[e] = NoHeight
    BY <1>1 DEF IInv, Remembers, UnderWay
  <2> QED BY <2>1, <2>2 DEF RecentHistory, NonConsensus
<1>2. IInv => MemoryMatchesStorage
  BY <1>1 DEF MemoryMatchesStorage
<1> QED BY <1>2, Invariance, PTL

(* A merge event that a failure has left without one of its regular events  *)
(* to fetch is never stored, whatever peers send later: what is in storage  *)
(* is not sent again, and what has a regular parent there is refused.       *)
THEOREM LeftBehindForEver == Spec => StaysBehind
<1> DEFINE Stuck(m) == m \in LeftBehind /\ (pc = "write" => m \notin batch)
<1>1. ASSUME NEW m \in MergeEvent, IInv, Stuck(m), [Next]_vars
      PROVE  Stuck(m)'
  <2>0. stored \subseteq Event /\ m \notin stored /\ Parent[m] \cap (stored \ MergeEvent) # {}
    BY <1>1 DEF LeftBehind, IInv, TypeOK
  <2>1. CASE UNCHANGED stored /\ (pc' = "write" => pc = "write" /\ batch' = batch)
    BY <1>1, <2>1 DEF LeftBehind
  <2>2. ASSUME NEW es \in Batches, Receive(es)
        PROVE  Stuck(m)'
    <3>1. m \notin es
      BY <2>0, BlocksAssumption DEF Batches
    <3> QED BY <1>1, <2>2, <3>1 DEF Receive, storage, LeftBehind
  <2>3. ASSUME NEW e \in Event, WriteEvent(e)
        PROVE  Stuck(m)'
    <3>1. e # m
      BY <1>1, <2>3 DEF WriteEvent, IInv, Writing
    <3> QED BY <1>1, <2>0, <2>3, <3>1 DEF WriteEvent, LeftBehind
  <2>4. CASE StartSession \/ FindConsensus \/ Update \/ AddPeerEvents \/ Halt \/ Fail \/ UNCHANGED vars
    BY <2>1, <2>4 DEF StartSession, FindConsensus, Update, UpdateEvent, AddBlock, UpdateConsensusState,
                      AddPeerEvents, Halt, Fail, Forget, vars, storage, memory
  <2> QED BY <1>1, <2>2, <2>3, <2>4 DEF Next, Gossip, Flush
<1>2. ASSUME NEW m \in MergeEvent
      PROVE  Spec => [](pc = "off" /\ m \in LeftBehind => [](m \in LeftBehind))
  <2>1. Stuck(m) /\ IInv /\ [Next]_vars => Stuck(m)'
    BY <1>1, <1>2
  <2>2. pc = "off" /\ m \in LeftBehind => Stuck(m)
    OBVIOUS
  <2>3. Stuck(m) => m \in LeftBehind
    OBVIOUS
  <2> HIDE DEF Stuck
  <2> QED BY <2>1, <2>2, <2>3, Invariance, PTL DEF Spec
<1> QED BY <1>2 DEF StaysBehind
=============================================================================
