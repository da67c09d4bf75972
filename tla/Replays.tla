------------------------------- MODULE Replays -------------------------------
(***************************************************************************)
(* How peers find out who replays, that is, makes two merge events that    *)
(* follow the same one (lib/peerEvents.js, lib/worker/consensus.js,        *)
(* lib/history.js, lib/blocks.js).                                         *)
(*                                                                         *)
(* Peers may get the sides of a fork in any order, so both are stored.  An *)
(* event that replays gets a localReplayNumber of its own, which the       *)
(* events after it inherit; when events of one creator with different      *)
(* numbers reach consensus, all events of that creator are marked with the *)
(* height of the block, and later ones are refused.                        *)
(*                                                                         *)
(* The events are given with their lineage; a peer that is not a Node may  *)
(* make any of its events at any time.  Which events decide a block is     *)
(* given too.  An operation that is replayed outside of a fork always has  *)
(* its batch refused (see Unprocessable), so only forks are modelled.      *)
(***************************************************************************)
EXTENDS Integers, FiniteSets, Ancestry

CONSTANTS
  Event,          (* merge events                                            *)
  Node,           (* the peers that follow the protocol                      *)
  Creator,        (* the creator of an event                                 *)
  Tree,           (* its creator's event before it; None: the genesis event  *)
  Parent,         (* its parents, without the genesis event                  *)
  Basis,          (* its basisBlockHeight                                    *)
  None,
  Decides,        (* for every block, the events that decide it              *)
  MaxBatch, MaxSessions   (* bounds                                          *)

LastBlock == Cardinality(DOMAIN Decides)
TreeParents == [e \in Event |-> {Tree[e]} \ {None}]

ASSUME ReplaysAssumption ==
  /\ IsFiniteSet(Event) /\ None \notin Event
  /\ Tree \in [Event -> Event \cup {None}]
  /\ Parent \in [Event -> SUBSET Event]
  /\ Basis \in [Event -> Nat]
  /\ LastBlock \in Nat /\ Decides \in [1 .. LastBlock -> SUBSET Event]
  /\ MaxBatch \in Nat /\ MaxSessions \in Nat \ {0}
  /\ \A e \in Event : TreeParents[e] \subseteq Parent[e]

VARIABLES
  stored,     (* storage: the events that a node has                         *)
  number,     (* storage: their localReplayNumber                            *)
  mark,       (* storage: their replayDetectedBlockHeight, -1: none          *)
  blockOf,    (* storage: the height of their block, -1: no consensus        *)
  height,     (* storage: the height of the latest block                     *)
  history,    (* memory of the work session: historyMap                      *)
  result,     (* memory: the consensus that is being written                 *)
  sessions,   (* the work sessions begun after the nodes' first, plus one    *)
  found       (* by height, the replayers a node detected                    *)

records == <<stored, number, mark>>
vars == <<records, blockOf, height, history, result, sessions, found>>

(* What incrementing a number that is not defined gives: it differs from    *)
(* every number and from itself where it is compared in JavaScript, and     *)
(* from every other number in the database.                                 *)
NaN == -1
SameNumber(j, k) == j = k /\ j # NaN

NoResult == [mergeEventHash |-> {}, replayerSet |-> {}]
Idle(n) == result[n] = NoResult

StoredBy(n, c) == {e \in stored[n] : Creator[e] = c}
CreatorsOf(es) == {Creator[e] : e \in es}
-----------------------------------------------------------------------------
(* The lineage that peers deceive about.                                    *)

Line == [e \in Event |-> AncestorsWithin(TreeParents, Event, {e})]

(* Peers refuse events of another lineage (_validateTreeParent): a line is  *)
(* an event and the line before it, has one creator, and does not return.   *)
ASSUME Lineage ==
  \A e \in Event :
    /\ Line[e] = {e} \cup UNION {Line[t] : t \in TreeParents[e]}
    /\ \A x \in Line[e] : Creator[x] = Creator[e] /\ (e \in Line[x] => x = e)
    /\ Tree[e] # e

(* Pairs of events on different sides of a fork.                            *)
Sides ==
  {ex \in Event \X Event : /\ Creator[ex[1]] = Creator[ex[2]]
                          /\ ex[1] \notin Line[ex[2]] /\ ex[2] \notin Line[ex[1]]}
-----------------------------------------------------------------------------
(* Receiving events.                                                        *)

(* An event replays when another of its creator's, in the batch or stored,  *)
(* has the same treeHash; only the genesis event may be followed by events  *)
(* of different creators.                                                   *)
Replays(n, batch, e) ==
  \E x \in (stored[n] \cup batch) \ {e} : Tree[x] = Tree[e] /\ Creator[x] = Creator[e]

Replaying(n, batch) == {e \in batch : Replays(n, batch, e)}

(* An event of a replayer that does not itself replay a treeHash ends the   *)
(* validation of the batch with an error: the replayer's operations that it *)
(* is to be compared with are looked up under a name that does not exist.   *)
Unprocessable(n, batch) ==
  \E e \in Replaying(n, batch), x \in batch \ Replaying(n, batch) : Creator[x] = Creator[e]

(* The latest number of a creator is looked up under a wrong name, too, so  *)
(* counting goes on from a number only if the creator has no event stored.  *)
(* `order' is the order of the batch.                                       *)
WrongCounted(n, batch, order, e) ==
  IF StoredBy(n, Creator[e]) # {} THEN NaN
  ELSE 1 + Cardinality({x \in Replaying(n, batch) :
                          Creator[x] = Creator[e] /\ order[x] <= order[e]})
Counted(n, batch, order, e) ==
  IF StoredBy(n, Creator[e]) # {} THEN NaN
  ELSE Cardinality({x \in Replaying(n, batch) :
                      Creator[x] = Creator[e] /\ order[x] <= order[e]})

(* The number and the mark of the tree parent are inherited; what counts is *)
(* the last event of the line before the batch.                             *)
Before(batch, e) ==
  LET earlier == Line[e] \ batch
      latest == {x \in earlier : earlier \subseteq Line[x]}
  IN IF latest = {} THEN None ELSE CHOOSE x \in latest : TRUE
InheritedNumber(n, batch, e) ==
  LET x == Before(batch, e) IN IF x = None THEN 0 ELSE number[n][x]
InheritedMark(n, batch, e) ==
  LET x == Before(batch, e) IN IF x = None THEN -1 ELSE mark[n][x]

WrongNumberOf(n, batch, order, e) ==
  IF Replays(n, batch, e) THEN Counted(n, batch, order, e) ELSE 0
NumberOf(n, batch, order, e) ==
  IF Replays(n, batch, e) THEN Counted(n, batch, order, e)
  ELSE InheritedNumber(n, batch, e)

(* An event that was made when its replayer had been detected is refused;   *)
(* one that was made before must be taken, a peer that did not know may     *)
(* have merged it.                                                          *)
WrongTooLate(n, batch, e) ==
  InheritedMark(n, batch, e) # -1 /\ Basis[e] > InheritedMark(n, batch, e)
TooLate(n, batch, e) ==
  InheritedMark(n, batch, e) # -1 /\ Basis[e] >= InheritedMark(n, batch, e)

(* Somebody has the event to send.                                          *)
Offered(n, e) ==
  /\ e \notin stored[n]
  /\ Creator[e] \in Node => e \in stored[Creator[e]]

Orders(batch) ==
  {o \in [batch -> 1 .. Cardinality(batch)] : \A e, x \in batch : o[e] = o[x] => e = x}

Receive(n, batch) ==
  /\ Idle(n)
  /\ \A e \in batch : /\ Offered(n, e)
                       /\ Parent[e] \subseteq stored[n] \cup batch
                       /\ Basis[e] <= height[n]
                       /\ ~TooLate(n, batch, e)
  /\ ~Unprocessable(n, batch)
  /\ stored' = [stored EXCEPT ![n] = @ \cup batch]
  /\ \E order \in Orders(batch) : number' = [number EXCEPT ![n] = [e \in Event |->
       IF e \in batch THEN NumberOf(n, batch, order, e) ELSE @[e]]]
  /\ mark' = [mark EXCEPT ![n] = [e \in Event |->
       IF e \in batch THEN InheritedMark(n, batch, e) ELSE @[e]]]
  /\ history' = [history EXCEPT ![n] = @ \cup batch]
  /\ UNCHANGED <<blockOf, height, result, sessions, found>>

(* The node itself merges, after its latest merge event, what is in its     *)
(* history or in a block.                                                   *)
Create(n, e) ==
  /\ Idle(n)
  /\ Creator[e] = n /\ \A x \in StoredBy(n, n) : Tree[x] # Tree[e]
  /\ Basis[e] = height[n]
  /\ \A p \in Parent[e] : p \in history[n] \/ (p \in stored[n] /\ blockOf[n][p] # -1)
  /\ stored' = [stored EXCEPT ![n] = @ \cup {e}]
  /\ history' = [history EXCEPT ![n] = @ \cup {e}]
  /\ UNCHANGED <<number, mark, blockOf, height, result, sessions, found>>
-----------------------------------------------------------------------------
(* Detecting replayers when a block is written.                             *)

MergeEvents(n, h) == AncestorsWithin(Parent, history[n], Decides[h])

WrongUnmarked(n, es, c) == {e \in es : mark[n][e] = -1}
Unmarked(n, es, c) == {e \in es : Creator[e] = c /\ mark[n][e] = -1}

(* _findNewReplayers: it compares with all stored events, where it says it  *)
(* compares with those that have reached consensus.                         *)
DiffersFromStored(n, k, c) ==
  k # 0 /\ \E x \in StoredBy(n, c) : number[n][x] # k

NewReplayers(n, es) ==
  {c \in CreatorsOf(es) : LET ours == Unmarked(n, es, c) IN
     \/ \E e, x \in ours : e # x /\ ~SameNumber(number[n][e], number[n][x])
     \/ \E e \in ours : DiffersFromStored(n, number[n][e], c)}

(* Consensus is found, and all events of new replayers are marked before    *)
(* anything else is written.                                                *)
WrongMarked(n, cs, h) ==
  [e \in Event |-> IF e \in history[n] /\ Creator[e] \in cs THEN h ELSE mark[n][e]]
Marked(n, cs, h) ==
  [e \in Event |-> IF e \in stored[n] /\ Creator[e] \in cs THEN h ELSE mark[n][e]]

FindConsensus(n) ==
  /\ Idle(n)
  /\ height[n] < LastBlock
  /\ LET h == height[n] + 1 IN
     /\ Decides[h] \subseteq history[n]
     /\ \E es \in {MergeEvents(n, h)} : \E cs \in {NewReplayers(n, es)} :
          /\ result' = [result EXCEPT ![n] = [mergeEventHash |-> es, replayerSet |-> cs]]
          /\ mark' = [mark EXCEPT ![n] = Marked(n, cs, h)]
          /\ found' = [found EXCEPT ![n][h] = @ \cup cs]
  /\ UNCHANGED <<stored, number, blockOf, height, history, sessions>>

(* Parents without consensus that are not in the history are in the block   *)
(* as well, but not their parents.                                          *)
NonConsensusParents(n, es) ==
  {p \in (UNION {Parent[e] : e \in es}) \ history[n] : blockOf[n][p] = -1}

(* What the replayers made leaves the history with the events of the block. *)
WriteBlock(n) == LET es == result[n].mergeEventHash
                     h == height[n] + 1 IN
  /\ ~Idle(n)
  /\ blockOf' = [blockOf EXCEPT ![n] = [e \in Event |->
       IF e \in es \cup NonConsensusParents(n, es) THEN h ELSE @[e]]]
  /\ height' = [height EXCEPT ![n] = h]
  /\ history' = [history EXCEPT ![n] =
       {e \in @ \ es : Creator[e] \notin result[n].replayerSet}]
  /\ result' = [result EXCEPT ![n] = NoResult]
  /\ UNCHANGED <<records, sessions, found>>

(* A work session ends or fails at any time; the next one loads what can    *)
(* still be merged.                                                         *)
HeadBasis(n) ==
  LET bs == {0} \cup {Basis[e] : e \in StoredBy(n, n)} IN CHOOSE b \in bs : \A c \in bs : c <= b

NonConsensusEvents(n) ==
  {e \in stored[n] : blockOf[n][e] = -1 /\ (mark[n][e] = -1 \/ mark[n][e] > HeadBasis(n))}

NewSession(n) ==
  /\ sessions < MaxSessions
  /\ sessions' = sessions + 1
  /\ history' = [history EXCEPT ![n] = NonConsensusEvents(n)]
  /\ result' = [result EXCEPT ![n] = NoResult]
  /\ UNCHANGED <<records, blockOf, height, found>>
-----------------------------------------------------------------------------
Init ==
  /\ stored = [n \in Node |-> {}]
  /\ number = [n \in Node |-> [e \in Event |-> 0]]
  /\ mark = [n \in Node |-> [e \in Event |-> -1]]
  /\ blockOf = [n \in Node |-> [e \in Event |-> -1]]
  /\ height = [n \in Node |-> 0]
  /\ history = [n \in Node |-> {}]
  /\ result = [n \in Node |-> NoResult]
  /\ sessions = 1
  /\ found = [n \in Node |-> [h \in 1 .. LastBlock |-> {}]]

Batches == {es \in SUBSET Event : Cardinality(es) \in 1 .. MaxBatch}

Next == \E n \in Node :
  \/ \E batch \in Batches : Receive(n, batch)
  \/ \E e \in Event : Create(n, e)
  \/ FindConsensus(n)
  \/ WriteBlock(n)
  \/ NewSession(n)

Spec == Init /\ [][Next]_vars
-----------------------------------------------------------------------------
(* Every variable has its type, and what is in memory or marked is stored.  *)
TypeOK ==
  /\ stored \in [Node -> SUBSET Event]
  /\ number \in [Node -> [Event -> -1 .. MaxBatch]]
  /\ mark \in [Node -> [Event -> -1 .. LastBlock]]
  /\ blockOf \in [Node -> [Event -> -1 .. LastBlock]]
  /\ height \in [Node -> 0 .. LastBlock]
  /\ history \in [Node -> SUBSET Event]
  /\ result \in [Node -> [mergeEventHash : SUBSET Event,
                           replayerSet : SUBSET {Creator[e] : e \in Event}]]
  /\ sessions \in 1 .. MaxSessions
  /\ found \in [Node -> [1 .. LastBlock -> SUBSET {Creator[e] : e \in Event}]]
  /\ \A n \in Node : /\ history[n] \subseteq stored[n]
                     /\ result[n].mergeEventHash \subseteq history[n]
                     /\ \A e \in Event \ stored[n] :
                          number[n][e] = 0 /\ mark[n][e] = -1 /\ blockOf[n][e] = -1

(* Stored events on different sides of a fork have numbers that differ      *)
(* where they are compared, in whatever batches they came.                  *)
SidesDiffer ==
  \A n \in Node : \A ex \in Sides :
    {ex[1], ex[2]} \subseteq stored[n] => ~SameNumber(number[n][ex[1]], number[n][ex[2]])

(* Once two sides of a fork are in blocks of a node, the node has marked    *)
(* their creator's events, whichever blocks those are and wherever its      *)
(* sessions ended.                                                          *)
ForkKnown ==
  \A n \in Node : \A ex \in Sides :
    (\A e \in {ex[1], ex[2]} : blockOf[n][e] # -1) => \A e \in {ex[1], ex[2]} : mark[n][e] # -1

(* Nobody is marked of whom the node has not stored two events that follow *)
(* the same one: no peer is poisoned by the forks of another.               *)
OnlyForkersMarked ==
  \A n \in Node : \A e \in stored[n] :
    mark[n][e] # -1 =>
      \E x, y \in StoredBy(n, Creator[e]) : x # y /\ Tree[x] = Tree[y]

(* A marked event was made before the block at whose height it is marked.   *)
MadeBeforeMark ==
  \A n \in Node : \A e \in stored[n] : mark[n][e] # -1 => Basis[e] < mark[n][e]

(* Peers with the same blocks detected the same replayers in them.          *)
(* peerEvents.js: "once consensus has been reached on the replay, all peers *)
(* that have seen the appropriate block will know about the replay".        *)
SameBlocks(n, m, h) ==
  \A e \in Event : blockOf[n][e] \in 1 .. h \/ blockOf[m][e] \in 1 .. h
                    => blockOf[n][e] = blockOf[m][e]
AgreeOnReplayers ==
  \A n, m \in Node : \A h \in 1 .. LastBlock :
    h <= height[n] /\ h <= height[m] /\ SameBlocks(n, m, h) => found[n][h] = found[m][h]
=============================================================================
