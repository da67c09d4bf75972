------------------------------- MODULE Blocks -------------------------------
(***************************************************************************)
(* How a node turns the events it receives into blocks, and what is left   *)
(* of that when a work session fails at any step: lib/blocks.js, the       *)
(* worker's consensus state (lib/worker/Worker.js, consensus.js), the peer *)
(* event writer, and the work session that drives them (pipeline.js).      *)
(*                                                                         *)
(* The ledger has a single witness, which decides with every merge event   *)
(* (continuity.js:623-626); the node is one that follows it.  The storage  *)
(* survives a session, the worker's memory does not, and the storage does  *)
(* one write at a time: a failure may leave a bulk update half done.       *)
(***************************************************************************)
EXTENDS Integers, Sequences, FiniteSets, Ancestry

CONSTANTS
  Event,         (* the events that peers may send                           *)
  Genesis,       (* the genesis merge event, in block 0                      *)
  MergeEvent,    (* the merge events among them; the others are regular      *)
  WitnessEvents, (* the merge events of the witness, oldest first            *)
  Parent,        (* the parentHash of an event                               *)
  TreeParent,    (* the treeHash of an event                                 *)
  Basis,         (* its basisBlockHeight                                     *)
  MaxFailures    (* bound: sessions that fail                                *)

NoHeight == -1

ASSUME BlocksAssumption ==
  /\ IsFiniteSet(Event)
  /\ Genesis \notin Event
  /\ MergeEvent \subseteq Event
  /\ WitnessEvents \in Seq(MergeEvent)
  /\ Parent \in [Event -> SUBSET (Event \cup {Genesis})]
  /\ \A e \in Event : TreeParent[e] \in Parent[e]
  /\ Basis \in [Event -> Nat]
  /\ MaxFailures \in Nat

VARIABLES
  stored,        (* storage: the events                                      *)
  heightOf,      (* storage: meta.blockHeight of each event                  *)
  blocks,        (* storage: the events of blocks 1, 2, ...                  *)
  pc,            (* what the work session does next                          *)
  history,       (* memory: historyMap, merge events without consensus       *)
  nextHeight,    (* memory: consensusState.nextBlockHeight                   *)
  result,        (* memory: the events of the block under way                *)
  pending,       (* memory: events still to update or to write               *)
  batch,         (* memory: the events that gossip brought                   *)
  failures,      (* sessions that failed so far                              *)
  torn           (* whether a session failed between giving a merge event a  *)
                 (* block height and adding that block                       *)

storage == <<stored, heightOf, blocks>>
memory == <<history, nextHeight, result, pending, batch>>
vars == <<storage, pc, memory, failures, torn>>

Height == Len(blocks)
NonConsensus == {e \in stored : heightOf[e] = NoHeight}
-----------------------------------------------------------------------------
(* Which events a block holds.                                              *)

Witnessed == {WitnessEvents[i] : i \in DOMAIN WitnessEvents}
Tails == {e \in history \cap Witnessed : TreeParent[e] \notin history}

ConsensusMergeEvents == AncestorsWithin(Parent, history, Tails)

(* Parents that are regular events reaching consensus, or merge events that *)
(* reached it before; the tree parent cannot be a regular event.            *)
ParentHashes ==
  (UNION {Parent[e] \ {TreeParent[e]} : e \in ConsensusMergeEvents}) \ history

WrongAncestors == ParentHashes
WrongAncestorHeights == {e \in ParentHashes \cap stored : heightOf[e] = NoHeight}
(* Those without consensus, and those that a failed session has assigned to *)
(* the block that is now under way.                                         *)
NonConsensusAncestors ==
  {e \in ParentHashes \cap stored : heightOf[e] \in {NoHeight, nextHeight}}
-----------------------------------------------------------------------------
WrongRecentHistory == {}
RecentHistory == NonConsensus \cap MergeEvent

(* A work session starts with what the storage holds.                       *)
StartSession ==
  /\ pc = "off"
  /\ history' = RecentHistory
  /\ nextHeight' = Height + 1
  /\ pc' = "find"
  /\ UNCHANGED <<storage, result, pending, batch, failures, torn>>

FindConsensus ==
  /\ pc = "find"
  /\ IF Tails = {}
     THEN /\ pc' = "gossip"
          /\ UNCHANGED <<result, pending>>
     ELSE /\ pc' = "update"
          /\ result' = ConsensusMergeEvents \cup NonConsensusAncestors
          /\ pending' = result'
  /\ UNCHANGED <<storage, history, nextHeight, batch, failures, torn>>

(* The events of a block in block order: an event after its parents, what   *)
(* is not in the recent history just before a merge event that merged it.   *)
IsNextUpdate(e) ==
  IF e \in history
  THEN Parent[e] \cap pending = {}
  ELSE \E m \in result \cap history :
         e \in Parent[m] /\ Parent[m] \cap history \cap pending = {}

(* The events get the height of the block, one after the other ...          *)
UpdateEvent(e) ==
  /\ pc = "update"
  /\ e \in pending
  /\ IsNextUpdate(e)
  /\ heightOf' = [heightOf EXCEPT ![e] = nextHeight]
  /\ pending' = pending \ {e}
  /\ UNCHANGED <<stored, blocks, pc, history, nextHeight, result, batch, failures, torn>>

(* ... and then the block is added.                                         *)
AddBlock ==
  /\ pc = "update"
  /\ pending = {}
  /\ blocks' = Append(blocks, result)
  /\ pc' = "advance"
  /\ UNCHANGED <<stored, heightOf, memory, failures, torn>>

WrongForgotten == Tails
Forgotten == history \cap result

UpdateConsensusState ==
  /\ pc = "advance"
  /\ history' = history \ Forgotten
  /\ nextHeight' = nextHeight + 1
  /\ result' = {}
  /\ pc' = "find"
  /\ UNCHANGED <<storage, pending, batch, failures, torn>>

(* Gossip brings merge events with their regular events.  An event that is  *)
(* stored is not asked for; one whose basisBlockHeight the node has not     *)
(* reached, or that has a parent which is neither in its batch nor a stored *)
(* merge event, is refused with its batch.                                  *)
Batches ==
  {es \in SUBSET (Event \ stored) :
     /\ es \cap MergeEvent # {}
     /\ \A e \in es : /\ Basis[e] <= nextHeight - 1
                      /\ Parent[e] \subseteq (stored \cap MergeEvent) \cup es \cup {Genesis}
                      /\ e \notin MergeEvent => \E m \in es \cap MergeEvent : e \in Parent[m]}

Receive(es) ==
  /\ pc = "gossip"
  /\ batch' = es
  /\ pending' = es
  /\ pc' = "write"
  /\ UNCHANGED <<storage, history, nextHeight, result, failures, torn>>

(* They are written one after the other, in the order they were sent ...    *)
WriteEvent(e) ==
  /\ pc = "write"
  /\ e \in pending
  /\ Parent[e] \cap pending = {}
  /\ stored' = stored \cup {e}
  /\ pending' = pending \ {e}
  /\ UNCHANGED <<heightOf, blocks, pc, history, nextHeight, result, batch, failures, torn>>

WrongSummaries == batch
Summaries == batch \cap MergeEvent

(* ... and then the worker learns of them.                                  *)
AddPeerEvents ==
  /\ pc = "write"
  /\ pending = {}
  /\ history' = history \cup Summaries
  /\ batch' = {}
  /\ pc' = "find"
  /\ UNCHANGED <<storage, nextHeight, result, pending, failures, torn>>

Forget == /\ history' = {}
          /\ nextHeight' = 0
          /\ result' = {}
          /\ pending' = {}
          /\ batch' = {}
          /\ pc' = "off"

(* The session's time is over: it ends between two blocks or batches.       *)
Halt ==
  /\ pc \in {"find", "gossip"}
  /\ Forget
  /\ UNCHANGED <<storage, failures, torn>>

(* A database error, or the end of the process, at any step.                *)
Fail ==
  /\ pc # "off"
  /\ failures < MaxFailures
  /\ failures' = failures + 1
  /\ torn' = (torn \/ (pc = "update" /\ (result \cap history) \ pending # {}))
  /\ Forget
  /\ UNCHANGED storage

Init ==
  /\ stored = {}
  /\ heightOf = [e \in Event |-> NoHeight]
  /\ blocks = << >>
  /\ pc = "off"
  /\ history = {}
  /\ nextHeight = 0
  /\ result = {}
  /\ pending = {}
  /\ batch = {}
  /\ failures = 0
  /\ torn = FALSE

Update == (\E e \in Event : UpdateEvent(e)) \/ AddBlock \/ UpdateConsensusState
Gossip == \E es \in Batches : Receive(es)
Flush == (\E e \in Event : WriteEvent(e)) \/ AddPeerEvents

Next == StartSession \/ FindConsensus \/ Update \/ Gossip \/ Flush \/ Halt \/ Fail

Spec == Init /\ [][Next]_vars

(* Sessions are scheduled for ever and finish what they begin; peers answer,*)
(* and a session lasts long enough to look for consensus and to gossip.     *)
FairSpec ==
  /\ Spec
  /\ WF_vars(StartSession)
  /\ SF_vars(FindConsensus)
  /\ WF_vars(Update)
  /\ WF_vars(Flush)
  /\ SF_vars(Gossip)
-----------------------------------------------------------------------------
(* Properties.                                                              *)

(* The types; the recent history consists of stored merge events.           *)
TypeOK ==
  /\ stored \subseteq Event
  /\ heightOf \in [Event -> Nat \cup {NoHeight}]
  /\ blocks \in Seq(SUBSET Event)
  /\ pc \in {"off", "find", "update", "advance", "gossip", "write"}
  /\ history \subseteq stored \cap MergeEvent
  /\ nextHeight \in Nat
  /\ result \subseteq stored
  /\ pending \subseteq Event
  /\ batch \subseteq Event
  /\ failures \in Nat
  /\ torn \in BOOLEAN

(* An event is in one block at most, whatever fails: a block of a later     *)
(* session never takes up what an earlier one has put in a block.           *)
OneBlock ==
  \A h, k \in DOMAIN blocks : h # k => blocks[h] \cap blocks[k] = {}

(* The block that every node has to build at height h: the h-th event of    *)
(* the witness with all its ancestors that are in no earlier block.         *)
LedgerUpTo(h) == IF h = 0 THEN {} ELSE AncestorsWithin(Parent, Event, {WitnessEvents[h]})
TrueBlock(h) == LedgerUpTo(h) \ LedgerUpTo(h - 1)

(* What is refused otherwise (_validateTreeParent and                       *)
(* _validateParentNonMergeEvent of peerEvents.js, the event schemas): a     *)
(* merge event follows a merge event, and a regular event has one parent,   *)
(* the tree parent of the merge event that merges it.  The witness makes    *)
(* its events one after the other, and none knows a later one.              *)
ASSUME Lineage ==
  /\ \A m \in MergeEvent :
       /\ TreeParent[m] \in MergeEvent \cup {Genesis}
       /\ \A e \in Parent[m] \cap (Event \ MergeEvent) : Parent[e] = {TreeParent[m]}
  /\ \A i \in DOMAIN WitnessEvents :
       /\ TreeParent[WitnessEvents[i]] = IF i = 1 THEN Genesis ELSE WitnessEvents[i - 1]
       /\ \A j \in 1 .. i - 1 : WitnessEvents[i] \notin LedgerUpTo(j)

(* Unless a session failed after a merge event got its height and before    *)
(* the block was added, the node's blocks are everybody's blocks: any other *)
(* failure is made good by the next session.                                *)
WritesTrueBlock ==
  torn \/ \A h \in DOMAIN blocks : h <= Len(WitnessEvents) /\ blocks[h] = TrueBlock(h)

(* Between two blocks or batches the worker's memory is what a new session  *)
(* would read from the storage (pipeline.js:60-67 rests on that).           *)
MemoryMatchesStorage ==
  pc \in {"find", "gossip"} => history = RecentHistory /\ nextHeight = Height + 1

(* Every event that has got the height of a block that exists is in it      *)
(* (history.js:88-90).                                                      *)
AllIncluded ==
  \A e \in stored : heightOf[e] \in DOMAIN blocks => e \in blocks[heightOf[e]]

(* A merge event is left behind when a session has failed after a regular   *)
(* event of it was stored and before it was itself: the regular event is    *)
(* not asked for again, and without it the merge event is refused.          *)
LeftBehind ==
  {m \in MergeEvent \ stored : Parent[m] \cap (stored \ MergeEvent) # {}}

(* As long as no failure tears a block or leaves a merge event behind, the  *)
(* node follows the witness, wherever else its sessions end or fail.        *)
EventuallyWritten == <>[](torn \/ LeftBehind # {} \/ Height = Len(WitnessEvents))

(* What is left behind is so for good: no later session stores it           *)
(* (peerEvents.js:567-579 refuses it, gossip.js:253-275 skips its regular   *)
(* event).                                                                  *)
StaysBehind == \A m \in MergeEvent : [](pc = "off" /\ m \in LeftBehind => [](m \in LeftBehind))
=============================================================================
