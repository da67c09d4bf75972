------------------------------- MODULE Gossip -------------------------------
(***************************************************************************)
(* One node pulls history from another: the server's numbering of the      *)
(* events it stores and the partition of history it returns                *)
(* (lib/history.js, lib/blocks.js), and the client's cursor and batches    *)
(* (lib/worker/gossip.js, GossipPeer.js).  The server answers while its    *)
(* own work session stores events and writes blocks; the client also       *)
(* receives events from others.                                            *)
(*                                                                         *)
(* An event's localEventNumber is the place the server gave it; the cursor *)
(* is the number from which the client wants to go on.  The server may be  *)
(* a non-witness: the client then withholds what it has no commitment for. *)
(***************************************************************************)
EXTENDS Integers, FiniteSets, FiniteSetsExt, Ancestry

CONSTANTS
  Event,           (* the events                                             *)
  MergeEvent,      (* the merge events among them; the others are regular    *)
  Parent,          (* parentHash of an event                                 *)
  Creator,         (* the peer that created it                               *)
  Generation,      (* its generation on its creator's branch                 *)
  Basis,           (* its basisBlockHeight                                   *)
  Required,        (* its requiredBlockHeight at the server, -1 if unknown   *)
  BlockOf,         (* the height of its block                                *)
  LastBlock,       (* bound: the last block that is written                  *)
  Server, Client,  (* the two peers                                          *)
  Elsewhere,       (* merge events that the client may get from others       *)
  MaxEvents,       (* events in an answer                                    *)
  MaxSessions      (* bound: work sessions of the server                     *)

ASSUME GossipAssumption ==
  /\ IsFiniteSet(Event)
  /\ MergeEvent \subseteq Event
  /\ Parent \in [Event -> SUBSET Event]
  /\ \A e \in Event \ MergeEvent : Cardinality({m \in MergeEvent : e \in Parent[m]}) = 1
  /\ Generation \in [MergeEvent -> Nat \ {0}]
  /\ Basis \in [Event -> Nat]
  /\ Required \in [Event -> Nat \cup {-1}]
  /\ BlockOf \in [Event -> Nat \ {0}]
  /\ LastBlock \in Nat
  /\ Elsewhere \subseteq MergeEvent
  /\ MaxEvents \in Nat \ {0, 1}
  /\ MaxSessions \in Nat \ {0}

(* What is refused otherwise (peerEvents.js) or follows from the algorithm: *)
(* a regular event follows a merge event that is merged with it, by the     *)
(* same peer; merge events have the generation after that of the one they   *)
(* follow; and a block holds no event without its ancestors.  Here nobody   *)
(* forks, what the client made was made before it heard of others, and      *)
(* nobody passes on what the server made as a non-witness.                  *)
ASSUME Lineage ==
  /\ \A m \in MergeEvent : \A e \in Parent[m] \ MergeEvent :
       Parent[e] \subseteq Parent[m] \cap MergeEvent /\ Creator[e] = Creator[m]
  /\ \A m \in MergeEvent :
       \/ Generation[m] = 1
       \/ \E p \in Parent[m] \cap MergeEvent :
            Creator[p] = Creator[m] /\ Generation[p] = Generation[m] - 1
  /\ \A m, x \in MergeEvent :
       Creator[m] = Creator[x] /\ Generation[m] = Generation[x] => m = x
  /\ \A e \in Event : \A p \in Parent[e] : BlockOf[p] <= BlockOf[e]
  /\ \A e \in Event : Creator[e] = Client => \A p \in Parent[e] : Creator[p] = Client
  /\ \A m \in Elsewhere : Creator[m] = Server => Required[m] # -1

VARIABLES
  number,       (* server's storage: localEventNumber, -1: not stored        *)
  heightAt,     (* server's storage: meta.blockHeight, -1: no consensus      *)
  serverHeight, (* server's storage: the height of its last block            *)
  session,      (* what the server's work session is at                      *)
  nextNumber,   (* its nextLocalEventNumber                                  *)
  sessions,     (* sessions begun                                            *)
  rewound,      (* a session began with a number that was in use             *)
  known,        (* client: the events it has stored                          *)
  clientHeight, (* client: the height of its last block                      *)
  cursor,       (* client: where to go on with this server                   *)
  withheld,     (* client: a merge event kept aside, with its regular events *)
  request       (* the request under way                                     *)

serverVars == <<number, heightAt, serverHeight, session, nextNumber, sessions, rewound>>
clientVars == <<known, clientHeight, cursor, withheld>>
vars == <<serverVars, clientVars, request>>

Stored == {e \in Event : number[e] # -1}
Regular(m) == Parent[m] \ MergeEvent
BlockAt(h) == {e \in Event : BlockOf[e] = h}

(* Merge events that the server made while it was no witness.               *)
LocalNonWitness == {m \in MergeEvent : Creator[m] = Server /\ Required[m] = -1}

NoCursor == [requiredBlockHeight |-> 0, localEventNumber |-> 0]
Idle == [pc |-> "idle", basis |-> 0, heads |-> {}, from |-> 0,
         events |-> {}, cursor |-> NoCursor]
-----------------------------------------------------------------------------
(* The server's work session.                                               *)

(* Regular events that are stored without their merge event yet.            *)
Dangling == {e \in Stored \ MergeEvent : \E m \in MergeEvent \ Stored : e \in Parent[m]}

(* Numbers go on after those of the events without consensus; 0 and 1 are   *)
(* the genesis events'.                                                     *)
FirstFreeNumber == Max({1} \cup {number[e] : e \in {x \in Stored : heightAt[x] = -1}}) + 1

StartSession ==
  /\ session = "off"
  /\ sessions < MaxSessions
  /\ session' = "on"
  /\ sessions' = sessions + 1
  /\ nextNumber' = FirstFreeNumber
  /\ rewound' = (rewound \/ \E e \in Stored : number[e] >= nextNumber')
  /\ UNCHANGED <<number, heightAt, serverHeight, clientVars, request>>

(* An event of its own or of a peer is stored, the regular events of a      *)
(* merge event directly before it and after what else it merges.            *)
StoreEvent(e) ==
  /\ session = "on"
  /\ e \in Event \ Stored
  /\ Parent[e] \subseteq Stored
  /\ Basis[e] <= serverHeight /\ Required[e] <= serverHeight
  /\ \A m \in MergeEvent :
       /\ Dangling \cap Parent[m] # {} => e \in {m} \cup Regular(m)
       /\ e \in Regular(m) => Parent[m] \cap MergeEvent \subseteq Stored
  /\ number' = [number EXCEPT ![e] = nextNumber]
  /\ nextNumber' = nextNumber + 1
  /\ UNCHANGED <<heightAt, serverHeight, session, sessions, rewound, clientVars, request>>

FindConsensus ==
  /\ session = "on"
  /\ serverHeight < LastBlock
  /\ Dangling = {}
  /\ BlockAt(serverHeight + 1) \subseteq Stored
  /\ session' = "update"
  /\ UNCHANGED <<number, heightAt, serverHeight, nextNumber, sessions, rewound, clientVars, request>>

WrongUpdateEvent(e) ==
  /\ session = "update"
  /\ e \in BlockAt(serverHeight + 1)
  /\ heightAt[e] = -1
  /\ heightAt' = [heightAt EXCEPT ![e] = serverHeight + 1]
  /\ UNCHANGED <<number, serverHeight, session, nextNumber, sessions, rewound, clientVars, request>>

(* The events get their height before the block is there, an event after    *)
(* its parents: a request may come between.                                 *)
UpdateEvent(e) ==
  /\ session = "update"
  /\ e \in BlockAt(serverHeight + 1)
  /\ heightAt[e] = -1
  /\ \A p \in Parent[e] \cap BlockAt(serverHeight + 1) : heightAt[p] # -1
  /\ heightAt' = [heightAt EXCEPT ![e] = serverHeight + 1]
  /\ UNCHANGED <<number, serverHeight, session, nextNumber, sessions, rewound, clientVars, request>>

AddBlock ==
  /\ session = "update"
  /\ \A e \in BlockAt(serverHeight + 1) : heightAt[e] # -1
  /\ serverHeight' = serverHeight + 1
  /\ session' = "on"
  /\ UNCHANGED <<number, heightAt, nextNumber, sessions, rewound, clientVars, request>>

(* The session may run out of time before it has merged its own events.     *)
EndSession ==
  /\ session = "on"
  /\ \A e \in Dangling : Creator[e] = Server
  /\ session' = "off"
  /\ UNCHANGED <<number, heightAt, serverHeight, nextNumber, sessions, rewound, clientVars, request>>
-----------------------------------------------------------------------------
(* The client asks.                                                         *)

NonConsensus == {m \in known \cap MergeEvent : BlockOf[m] > clientHeight}

Later(m) == {x \in NonConsensus : Creator[x] = Creator[m] /\ Generation[x] > Generation[m]}

(* The latest merge event without consensus of some of the other peers, as  *)
(* many as may be named, and of some of these the one before it: the code   *)
(* may hold the latest one twice, as the order of the history falls out.    *)
PeerHeads ==
  LET others == {m \in NonConsensus : Creator[m] # Client}
      peers(ms) == {Creator[m] : m \in ms}
  IN {heads \in SUBSET {m \in others : Cardinality(Later(m)) < 2} :
        /\ \A m \in heads : Later(m) = {} \/ Later(m) \cap heads # {}
        /\ \/ peers(heads) = peers(others)
           \/ Cardinality(peers(heads)) = MaxEvents}

SendRequest ==
  /\ request.pc = "idle"
  /\ withheld = {}
  /\ \E heads \in PeerHeads :
       request' = [Idle EXCEPT !.pc = "heads", !.basis = clientHeight,
                               !.heads = heads, !.from = cursor.localEventNumber]
  /\ UNCHANGED <<serverVars, clientVars>>

(* A gossip cycle begins: a peer whose events the client cannot take yet is *)
(* no candidate.                                                            *)
Ask == cursor.requiredBlockHeight <= clientHeight /\ SendRequest

(* The candidates stay the same for the cycle's retries.                    *)
AskAgain == cursor.requiredBlockHeight > clientHeight /\ SendRequest

(* The server keeps the heads it knows.                                     *)
LookUpHeads ==
  /\ request.pc = "heads"
  /\ request' = [request EXCEPT !.pc = "events", !.heads = @ \cap Stored]
  /\ UNCHANGED <<serverVars, clientVars>>

(* The first k events of a set in the order of their numbers.               *)
FirstOf(k, es) ==
  {e \in es : Cardinality({x \in es : number[x] < number[e]}) < k}
LastOf(es) == CHOOSE e \in es : \A x \in es : number[x] <= number[e]

(* Events that the client may lack, from its cursor on, one more than fit.  *)
Records ==
  FirstOf(MaxEvents + 1,
    {e \in Stored : /\ heightAt[e] = -1 \/ heightAt[e] >= request.basis + 1
                    /\ number[e] >= request.from})

Partition == FirstOf(MaxEvents, Records)

(* Events that the client has, as its heads tell.                           *)
Skipped ==
  {m \in Partition \cap MergeEvent :
     \/ Creator[m] = Client
     \/ \E head \in request.heads :
          Creator[head] = Creator[m] /\ Generation[m] <= Generation[head]}

(* The ancestry of the childless merge events, as far as it is not skipped. *)
NewMergeEvents ==
  LET merges    == Partition \cap MergeEvent
      childless == {m \in merges : \A x \in merges : m \notin Parent[x]}
  IN AncestorsWithin(Parent, merges \ Skipped, childless)

(* A regular event goes with the merge event that comes next; it is kept    *)
(* when none does.                                                          *)
Filtered ==
  NewMergeEvents \cup
  {e \in Partition \ MergeEvent :
     LET later == {m \in Partition \cap MergeEvent : number[m] > number[e]}
     IN later = {} \/ FirstOf(1, later) \subseteq NewMergeEvents}

Acceptable(e) == Basis[e] <= request.basis /\ Required[e] <= request.basis

(* What can be sent: up to an event that the client cannot take yet, or to  *)
(* a merge event that only ends a batch; merge events come last.            *)
Sendable ==
  LET prefix == {e \in Filtered : \A x \in Filtered :
                   /\ number[x] <= number[e] => Acceptable(x)
                   /\ number[x] < number[e] => x \notin LocalNonWitness}
  IN {e \in prefix : \E m \in prefix \cap MergeEvent : number[e] <= number[m]}

WrongCursorAt(e) ==
  [requiredBlockHeight |-> Max({Basis[e], Required[e]}) + 1, localEventNumber |-> number[e]]
CursorAt(e) ==
  [requiredBlockHeight |-> Max({Basis[e], Required[e]}), localEventNumber |-> number[e]]
CursorAfter(e) ==
  [requiredBlockHeight |-> request.basis, localEventNumber |-> number[e] + 1]
SameCursor == [requiredBlockHeight |-> request.basis, localEventNumber |-> request.from]

(* The client goes on at the first event that was not sent, or after the    *)
(* last one.                                                                *)
NextCursor ==
  LET unsent == (Filtered \cup (Records \ Partition)) \ Sendable
  IN IF Records = {} THEN SameCursor
     ELSE IF unsent # {} THEN CursorAt(CHOOSE e \in FirstOf(1, unsent) : TRUE)
     ELSE IF Filtered # {} THEN CursorAfter(LastOf(Filtered))
     ELSE CursorAfter(LastOf(Records))

Answer ==
  /\ request.pc = "events"
  /\ request' = [request EXCEPT !.pc = "answer", !.events = Sendable, !.cursor = NextCursor]
  /\ UNCHANGED <<serverVars, clientVars>>

(* The request or the answer is lost, or the client runs out of time.       *)
Lose ==
  /\ request.pc # "idle"
  /\ request' = Idle
  /\ UNCHANGED <<serverVars, clientVars>>
-----------------------------------------------------------------------------
(* The client has an answer.                                                *)

Needed == request.events \ known

WrongStoredOf(kept) == Needed
StoredOf(kept) == Needed \ kept

(* The batch is stored and the cursor moves on.                             *)
Receive ==
  /\ request.pc = "answer"
  /\ known' = known \cup Needed
  /\ cursor' = request.cursor
  /\ request' = Idle
  /\ UNCHANGED <<serverVars, clientHeight, withheld>>

WrongWithholdCursor == request.cursor
WithholdCursor == cursor

(* It ends in a merge event of a non-witness for which no commitment has    *)
(* reached consensus: that is kept aside and the cursor stays.              *)
Withhold ==
  /\ request.pc = "answer"
  /\ \E m \in Needed \cap LocalNonWitness :
       LET kept == {m} \cup Regular(m)
       IN /\ \A e \in Needed : number[e] <= number[m]
          /\ known' = known \cup StoredOf(kept)
          /\ withheld' = kept \ known
  /\ cursor' = WithholdCursor
  /\ request' = Idle
  /\ UNCHANGED <<serverVars, clientHeight>>

(* The commitment reaches consensus, or the withheld event is dropped with  *)
(* the work session.                                                        *)
WriteWithheld ==
  /\ request.pc = "idle"
  /\ withheld # {}
  /\ known' = known \cup withheld
  /\ withheld' = {}
  /\ UNCHANGED <<serverVars, clientHeight, cursor, request>>

DropWithheld ==
  /\ request.pc = "idle"
  /\ withheld # {}
  /\ withheld' = {}
  /\ UNCHANGED <<serverVars, known, clientHeight, cursor, request>>

(* Another peer sends a merge event with its regular events.                *)
ReceiveElsewhere(m) ==
  /\ request.pc = "idle"
  /\ m \notin known
  /\ Parent[m] \cap MergeEvent \subseteq known
  /\ Basis[m] <= clientHeight /\ Required[m] <= clientHeight
  /\ known' = known \cup {m} \cup Regular(m)
  /\ UNCHANGED <<serverVars, clientHeight, cursor, withheld, request>>

ClientBlock ==
  /\ request.pc = "idle"
  /\ clientHeight < LastBlock
  /\ BlockAt(clientHeight + 1) \subseteq known
  /\ clientHeight' = clientHeight + 1
  /\ UNCHANGED <<serverVars, known, cursor, withheld, request>>

Init ==
  /\ number = [e \in Event |-> -1]
  /\ heightAt = [e \in Event |-> -1]
  /\ serverHeight = 0
  /\ session = "off"
  /\ nextNumber = 2
  /\ sessions = 0
  /\ rewound = FALSE
  /\ known = {e \in Event : Creator[e] = Client}
  /\ clientHeight = 0
  /\ cursor = NoCursor
  /\ withheld = {}
  /\ request = Idle

ServerStep ==
  \/ StartSession
  \/ \E e \in Event : StoreEvent(e)
  \/ FindConsensus
  \/ \E e \in Event : UpdateEvent(e)
  \/ AddBlock
  \/ EndSession

Next ==
  \/ ServerStep
  \/ Ask \/ AskAgain \/ LookUpHeads \/ Answer \/ Lose \/ Receive \/ Withhold
  \/ WriteWithheld \/ DropWithheld
  \/ \E m \in Elsewhere : ReceiveElsewhere(m)
  \/ ClientBlock

Spec == Init /\ [][Next]_vars

(* Of requests made again and again, one is answered again and again.       *)
Served == []<>(request.pc # "idle") => []<>(request.pc = "answer")

(* The client keeps asking and, as gossip cycles end, writes its blocks;    *)
(* not every request is lost; a withheld event that is offered again and    *)
(* again is committed to.                                                   *)
(* Nothing is assumed of the server's work session.                         *)
FairSpec ==
  /\ Spec
  /\ WF_vars(Ask)
  /\ Served
  /\ SF_vars(Receive \/ Withhold)
  /\ SF_vars(WriteWithheld)
  /\ SF_vars(ClientBlock)
-----------------------------------------------------------------------------
(* Properties.                                                              *)

Cursors == [requiredBlockHeight : Nat, localEventNumber : Nat]

(* The types; nothing is both stored by the client and withheld.            *)
TypeOK ==
  /\ number \in [Event -> Nat \cup {-1}]
  /\ heightAt \in [Event -> Nat \cup {-1}]
  /\ serverHeight \in Nat
  /\ session \in {"off", "on", "update"}
  /\ nextNumber \in Nat
  /\ sessions \in Nat
  /\ rewound \in BOOLEAN
  /\ known \subseteq Event
  /\ clientHeight \in Nat
  /\ cursor \in Cursors
  /\ withheld \subseteq Event \ known
  /\ request \in [pc : {"idle", "heads", "events", "answer"}, basis : Nat,
                  heads : SUBSET MergeEvent, from : Nat, events : SUBSET Event,
                  cursor : Cursors]

(* The server sends nothing that the client must refuse: of each event the  *)
(* parents come with it or are known, its heights are reached, a merge      *)
(* event of a non-witness comes last, and a regular event comes before one  *)
(* of its creator's (peerEvents.js refuses the batch and the client drops   *)
(* the peer otherwise).                                                     *)
BatchAcceptable ==
  rewound \/ \A e \in request.events :
    LET later == {x \in request.events : number[x] > number[e]} IN
    /\ Parent[e] \subseteq known \cup request.events
    /\ Basis[e] <= request.basis /\ Required[e] <= request.basis
    /\ e \in LocalNonWitness => later = {}
    /\ e \notin MergeEvent =>
         later # {} /\ \A x \in FirstOf(1, later) : Creator[x] = Creator[e]

Passed == {e \in Stored : number[e] < cursor.localEventNumber}

(* The cursor passes no event that the client lacks, while the server's     *)
(* numbers only grow.                                                       *)
NothingSkipped == rewound \/ Passed \subseteq known

(* What the server has stored gets to the client in the end.                *)
EventuallyReceived == <>[](rewound \/ Stored \cap MergeEvent \subseteq known)
=============================================================================
