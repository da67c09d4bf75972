# Verification of bedrock-ledger-consensus-continuity

TLA+ specifications of the Continuity2017 consensus plugin for bedrock ledger
nodes, the TLC runs that check them on small instances and the theorems that
TLAPS proves about them. Line numbers refer to the repository's `src/` tree.

## The system

A ledger node keeps a copy of a ledger. Its *work session* (a job that one
process runs at a time, five minutes by default) loops over: gossip with other
peers, look for consensus, write blocks, merge. Peers exchange *events*, a
directed acyclic graph linked by hashes: regular events hold operations or
configurations, *merge events* join what their creator knows. The witnesses for
a block, `3f+1` or one, reach consensus without voting messages: everybody
computes the votes from the shape of the graph.

| Component | State | Operations | Interacts with |
| --- | --- | --- | --- |
| continuity algorithm (`lib/continuity.js`) | none of its own; `_c` on each event, a support cache per block height | `findConsensus` | called by `worker/consensus.js` with the recent history |
| merging (`lib/worker/merge.js`) | the worker's head, pending regular events, commitment | `merge`, `_prepareNextMerge` | reads peer heads and the queue, creates events, writes the merge event |
| operation intake (`lib/operations.js`, `lib/cache/operations.js`) | redis: list of keys, documents, marks | `add`, `exists`, `write` | client requests, concurrently, in several processes |
| operation queue (`lib/cache/OperationQueue.js`, `lib/events.js` `create`) | redis: selected chunk; memory of one queue object | `hasNextChunk`, `getNextChunk`, `popChunk` | the work session, concurrent with intake |
| blocks (`lib/blocks.js`, `lib/worker/consensus.js`) | storage: blocks, block height of each event | `write`, `find` | worker; storage without transactions |
| worker (`lib/worker/Worker.js`, `pipeline.js`) | memory: history, heads, childless peers, commitment, next event number | `init`, `extendBlockchain`, `_addPeerEvents`, ... | everything below |
| gossip server (`lib/history.js`, `lib/server.js`) | storage: events and their local numbers | `partition` | requests of other peers, concurrent with the work session |
| gossip client (`lib/worker/gossip.js`, `GossipPeer.js`, `GossipPeerSelector.js`) | cursor, backoff and reputation of each peer | `runGossipCycle`, `success`, `fail`, selection | remote peers |
| peer event validation (`lib/peerEvents.js`) | none; pending batch | `addBatch`, `_validateEvents` | validation service, writer |
| peer directory (`lib/peers.js`) | storage: peers, reputation | `addNotifier`, `optionallyAdd`, `getPeerForCommitment` | notifications, gossip |
| witnesses (`lib/witnesses.js`) | none | `_getWitnesses` | consensus, merge |
| keys and signatures (`localPeers.js`, `signature.js`, ...), genesis, HTTP, configuration | | | left aside |

**What is hard.** Nothing but hashes is agreed on: two nodes look at different
parts of the graph and must not write different blocks. Witnesses may stop, lag
or fork. Requests interleave on shared redis connections. Each step of a work
session may fail, and neither redis nor the database groups the steps into
transactions, so the next session starts from whatever the last one left.

What makes each component correct:

* continuity: one consensus set per block, backed by a supermajority; decisions
  are computable from what the decider knows; the algorithm survives forks;
  consensus is reached when at most `f` witnesses stop.
* merging: the rules of the protocol leave the correct witnesses able to go on;
  what is merged may be merged by every other peer's rules too.
* commitments: storage, the session's memory and the cache that outlives it agree
  on what was committed to; nothing is merged that is not there.
* replays: who forks is found out from the blocks, and nobody else is.
* operations: accepted once, in order, in exactly one event, never dropped.
* blocks: an event is in one block, its ancestors are in the same or an earlier
  one, and a failed write is completed by the next session.
* gossip: what is sent can be accepted; what is skipped is already known;
  everything gets through in the end.

## Modules

### `Continuity`: the algorithm and the rules of merging

A *branch* is one witness's chain of merge events since the last block; a
witness that forked has several. `dag[b]` is the sequence of the events of
branch `b`, and an event is what `findConsensus` computes for it. What an event
knows of the graph is its *cut*: `clock[x]` is the generation of the latest event
of branch `x` among its ancestors. Its index, `mostRecentWitnessAncestors`, is
kept beside it (`voters`): the branches of the witnesses it has an event for. A
witness that is in the cut and not in the index is `false` there. The two differ
only for witnesses that forked, and there the index depends on which parents an
event had, and on what the code does with its own: it copies the index of the
tree parent and then sets the creator's own entry to the tree parent, over the
`false` that may be there (`continuity.js:569-576`). So the event after a
revoked one is evaluated again. Every value the code attaches to an event
depends only on its ancestors, so it is computed once, when the event is made; a
node that learns of the event later computes the same.

| Code | Model |
| --- | --- |
| `_computeMostRecentWitnessAncestors`, `_useMostRecentAncestorEvent` | `Seen`, `Agrees`, `MostRecent`, `Vote` |
| `_tallySupport`, `_chooseSupport`, `_getSupportSet` | `Backers`, `FPlusOneSupport`, `ChooseSupport`, `Throws` |
| `_findEndorsement`, `_computeProposalEndorsement`, `_hasEndorsedProposal` | `Endorsers`, fields `endorsers` and `endorsed`, `HasEndorsedProposal` |
| `_experiment` | `Experiment`; `Ended` for the events after which nothing follows |
| `_prepareNextMerge`, `merge`, `_validateNonTreeParentMergeEvent` | `Views`, `Parents`, `ThresholdWitnesses`, `MergeEmpty`, `MergeLocal` |

`_findEndorsement` walks forward from a proposal; the model accumulates the same
endorsers event by event. Gossip is the choice of the cut in `Views`: a witness
knows a part of the history that is closed under ancestry and contains what it
knew before. `Parents` are the sets of parents that an event with that cut may
have: no two of one witness, none but the tree parent of its own, and all of the
cut known to one of them. An event that decides ends its branch: whoever knows it
builds the block. So does an event whose evaluation throws (line 1055): in a node
that knows it `findConsensus` throws in every session before it merges. A
witness's first event since the last block has no threshold
here when its head is of generation 0 (`merge.js:30`); otherwise `BaseHeight`
gives the merge heights of the heads that the last block left. Heads before the
first event are assumed distinct, as they are after the first block.

Abstractions: forks start at the first event of the block (each side has its own
`y`), so sides with a common beginning in the block are not met; non-witnesses'
events and peer commitments, which carry no support, are left out, and with them
the ways by which a cut could be known through a non-witness only; a cut merges
all that its creator knows, where the code takes up to 16 parents.
One witness (where any event decides) is the subject of `Blocks`.

`DecidedByMoreThanF` asks for `f+1` creators in a decided set and not for a
supermajority: the threshold of `merge.js` does not hold for merge events with
local operations, so events that saw few others can come to support, propose and
decide a set of two out of four.

### `Consensus`: what the algorithm promises

`chosen` is empty, then a singleton, for ever. `Continuity` implements it under
the mapping `chosen <- {support of the deciding events}` in the instances where
it does (see below).

### `Operations`: from a request to an event

The redis structures, the connection state of each process (`watch`, `dirty`),
the requests under way with the process that serves each and the command it is
about to send, and the work session's event creation with the step it is at. One
redis transaction is one step; what the code awaits separately is separate. A
process has one connection (`cache.client`) for all of its requests and for the
work session if it runs there, and any EXEC or UNWATCH on it ends all of its
watches, as redis does: those of popped chunks, those of other requests, and
those by which the session counts the operations that peers send
(`Worker.js:336-349`, `CountPeerOperations`). `Fail` ends a session at any step
with its memory lost. Operation documents are identified by their hashes; the
sorting within an event and the counters themselves are left out.

Two history variables record what a shared connection does and are read by
properties only: `exposed`, the requests whose watch another command on their
connection has ended, and `unguarded`, the operations that such a request has
added. The properties hold for every operation but the unguarded ones. The code does
nothing to keep `unguarded` empty (see below).

### `Pipeline`: what the queue promises

Operations leave in the order of acceptance, each once, in chunks that fit in an
event and have one `basisBlockHeight`. A chunk is in storage before its event is,
and a failure loses the chunk whose turn it is or nothing. Redis, its
transactions, the requests and the steps of a session are not seen. `Operations`
implements it (`PassesThrough`), for as long as no operation is unguarded, under the
mapping `done <- Done`: what was accepted
and is not in the queue, less the chunk in work. A chunk that was selected and is
still in the queue, or that has been delivered and not popped, changes nothing.

### `Blocks`: from events to blocks, with failures

One node that follows a ledger with a single witness, so that which merge event
decides is plain (`continuity.js:623-626`) and everything else about writing a
block is not. `stored`, `heightOf` and `blocks` are the database and survive;
`history` (`historyMap`), `nextHeight`, `result`, `pending` and `batch` are the
worker's and end with the session. `pc` is what the session does next.

| Code | Model |
| --- | --- |
| `worker.init`, `_initRecentHistory` | `StartSession`, `RecentHistory` |
| `consensus.find`, `_getTails`, `_getAncestorHashes`, `_addNonConsensusAncestorHashes` | `FindConsensus`, `Tails`, `ConsensusMergeEvents`, `ParentHashes`, `NonConsensusAncestors` |
| `blocks.write`: `updateMany`, `blocks.add` | `UpdateEvent` per event in block order, `AddBlock` |
| `_updateConsensusState` | `UpdateConsensusState` |
| `addBatch`, `PeerEventWriter.flush`, `_addPeerEvents` | `Receive`, `WriteEvent` per event, `AddPeerEvents` |
| session out of time; error at any step | `Halt`, `Fail` |

A merge event can only be received with all of its regular events in the same
batch (`peerEvents.js:567-579`), and a batch holds nothing that is stored
(`_diff`, `gossip.js:253-275`): `Batches`. `LeftBehind` are the merge events that a
failed flush has cut off from their regular events. A peer that has such an event
announces it again and again, and each batch with it is refused; the model
lets other batches through, as other peers may send them.
The database is assumed to apply a bulk write one document at a time in the
order given. Configuration events, replayers and the node's own merge events
are left out.

### `Gossip`: one peer pulls from another

The server is a non-witness whose work session stores events (`number` is
`localEventNumber`), writes blocks, ends and begins again; the client has a
cursor, sends the heads it knows and stores batches. A request is read in two
steps, heads and then records, as the server awaits both
(`history.js:106-130`), and the server's session goes on between them.

| Code | Model |
| --- | --- |
| `_initRecentHistory` (numbering), `addBatch`, `_createLocalEventRecord` | `FirstFreeNumber`, `StartSession`, `StoreEvent` |
| `blocks.write` | `FindConsensus`, `UpdateEvent`, `AddBlock` |
| `refreshCandidates`, `selectPullPeers`, `_getNeeded`, `_getNonConsensusPeerHeads` | `Ask`, `AskAgain`, `PeerHeads` |
| `_getKnownPeerHeads`, `_getSortedEventSummaries` | `LookUpHeads`, `Records`, `Partition` |
| `_filterByPeerHeads` | `Skipped`, `NewMergeEvents`, `Filtered` |
| `_getAcceptableHistory`, the cursor | `Acceptable`, `Sendable`, `NextCursor` |
| `_gw`, `_diff`, `addBatch` | `Receive`, `Withhold`, `Lose` |
| `_writeWithheld`, caches that are cleared | `WriteWithheld`, `DropWithheld` |

The events, their parents, heights and blocks are constants; what peers refuse
otherwise (`peerEvents.js`) is the assumption `Lineage`: a regular event follows a
merge event that is merged with it, generations go on along a peer's branch,
blocks are closed under ancestry. A block's events get their heights in block
order, parents first (`_sortIntoBlockOrder`, `continuity.js:1522`). That matters:
in another order a client that is ahead of the server, and asks in the middle of
an update, would be sent a regular event whose merge event, being in a block that
the client has, is left out, and would refuse the batch (`WrongUpdateEvent`). The need for
the order was found by the proof of `BatchesAcceptable`. Abstractions: the
server does not become a witness (`history.js:435-447`) and no peer has forked;
whether a withheld event gets its commitment is a choice (`Commitments` has what
decides it); the regular events of a merge event are stored directly before it,
so the batch that a failed flush leaves half written is not met here. The client
does not restart. It names the latest head of as many peers as it may
(`gossip.maxEvents`) and, as the order of its history falls out, the one before it
or the latest twice (`Worker.js:582-599`): `PeerHeads` has all of these choices.

### `Commitments`: merge events of peers that are no witnesses

One peer, seen from inside, and merge events of others that come as they like.
An event may be stored when its creator is a witness, or follows a commitment
that reached consensus, or became a witness early enough for the event to be
needed; the model computes the set of heights that allow it and stores the
least, as the code does with `requiredBlockHeight`. What none allows and its
creator itself sends is held back until the local peer has committed to it and
the commitment is in a block. The commitment is known in storage (`own`), in the
session's memory (`worker`) and in a cache of the process (`kept`) that outlives
sessions; every handler changes two or three of them, at different moments, and
may fail between.

| Code | Model |
| --- | --- |
| `_checkParentHashCommitments`, `_getParentHashCommitments`, `_getWitnessConversions` | `CommitHeights`, `Conversions`, `RequiredHeights`, `Acceptable` |
| `addBatch`, `_addPeerEvents`, the writer's `flush` | `Receive`, `ReceiveFails`, `Withhold`, `ClearedFor`, `WithEvent` |
| `_prepareNextMerge`, `_addLocalMergeEvent` | `Merge`, `MayMerge`, `Candidates`, `AddLocalMergeEvent` |
| `blocks.write`, `_updateConsensusState`, `_writeWithheld` | `WriteBlock`, `UpdateConsensusState`, `UpdateFails` |
| `init`, `_initRecentHistory`, `getLatestParentHashCommitment`, `setWithheld` | `StartSession`, `LatestCommitment`, `FromCache`, `Restored`, `Needless` |
| end of a session, end of the process | `EndSession`, `Crash` |

Which events a block decides and which peers are its witnesses are choices; no
peer replays here. Three properties are stated but for sessions that begin with
`stale`: one that takes a withheld event from the cache which was stored
meanwhile, by a flush that failed after its write (see below).

### `Replays`: finding out who forks

Several nodes, each with its storage (`stored`, `number`, `mark`, `blockOf`), and
replayers whose events may come to any node at any time. Events come in batches
in any order of siblings; each node numbers replays in its own order of receipt.

| Code | Model |
| --- | --- |
| `_checkReplays`, `_getForkers`, `_getLatestReplays` | `Replays`, `Counted`, `NumberOf`, `Unprocessable` |
| `_validateTreeParent`, the refusal of late events | `Lineage`, `InheritedMark`, `TooLate` |
| `consensus.find`, `_findNewReplayers` | `FindConsensus`, `NewReplayers`, `DiffersFromStored` |
| `_markNewReplayers`, then the block, then `_updateConsensusState` | `Marked` in `FindConsensus`; `WriteBlock`, a step of its own |
| a new session; `getNonConsensusEvents` | `NewSession`, `NonConsensusEvents` |

Two misspelt names in the code shape the model. `_getLatestReplays` looks the
number of a creator up under a wrong name, so counting on from it gives NaN
(`NaN`, with JavaScript's comparisons and the database's). `_checkReplays` uses
`replayer.operationSet`, which does not exist, so an event of a replayer that
does not itself replay ends the batch's validation with a TypeError
(`Unprocessable`). That the fork is still found, `ForkKnown`, is because NaN
differs from everything. The lineage is given (`Tree`, `Line`); what the code
refuses to break it is the assumption `Lineage`. Which events decide a block is
given too, and replays of operations are left out.

`Ancestry` holds the operator the modules share, the ancestors within a set, as a
recursive function.

### Fault definitions

A definition named `Wrong...` is a mistake somebody could make in the definition
after it. It is used by no behaviour; putting it in place of that definition
makes a run fail, which shows that the property notices the mistake.

## Runs

| Run | Question | Bounds |
| --- | --- | --- |
| `Continuity_safety` | does one witness that stops after its first event, or stays silent, let the other three choose twice, leave a decided set, or decide for `f` or fewer? | `f = 1`, lag 1; the event bound is not reached: all behaviours end by deciding |
| `Continuity_conflict` | three scenarios. *prompt*: do three witnesses that merge fairly decide while the fourth may stop at any time? *plan*: what do proposals, endorsements and decisions rest on after a history on which support differs? *forks*: and with a fork, seen by some, of a witness that goes on, and a contributing merge? | 6 events each and gossip keeps up; 9 planned merges, then every order to 4 events each; 5 planned merges, then every order to 4 events each, 3 of the contributing and of the forked witness, 1 on the latter's other side |
| `Continuity_revoked` | does a revoked witness's lack of support remain? (violated) | the forks scenario |
| `Continuity_agreement` | do all decisions agree? (violated) | 14 planned merges, then every order |
| `Operations_queue` | do requests and a session that may fail once keep the operations' order, number and documents, and do they implement `Pipeline`? | three operations, two requests at a time and four in all, one or two processes, a limit of two for the queue (which overruns to three), chunks of two |
| `Operations_lost` | are operations marked as queued on their way to an event? (violated) | one failure |
| `Blocks_followed` | does a node whose sessions fail at any step write the blocks that everybody writes, each event once, and all of them in the end? | three blocks, ten events, two failures |
| `Blocks_included` | is every event that was marked for a block in it? (violated) | one failure |
| `Gossip_served` | is what is sent acceptable, is nothing skipped, does all of it arrive? | eight events in two blocks, two in an answer, two sessions of the server |
| `Commitments_kept` | is only merged what the rules allow and what is there, and do storage, memory and cache agree through failures and restarts? | three events of two peers, two blocks, three own merge events, two sessions, a look back of one generation (7 in the code) |
| `Replays_detected` | are forkers found, from whichever blocks, and nobody else? | two nodes, two replayers with ten events in all, two blocks, batches of two, one new session |
| `Replays_agreed` | do peers with the same blocks detect the same replayers? (violated) | the same, without new sessions |

Why the bounds are enough: with four witnesses `f = 1` is the least instance in
which thresholds `f+1 = 2` and `2f+1 = 3` differ and two `f+1` sets can tie. A
lag of one event is what makes views differ; the proposal, endorsement, decision
pattern takes four to six generations. In `forks` three correct witnesses know one side, the
other, or both, when the forked one goes on with any view of the history. Two
requests, of one process or of two, make every race for one operation, on one
connection and on several; one of the processes also runs the work session.
Three operations in the queue, one with another basis, and chunks of two make
every way to cut a chunk: at the maximum, at the basis, and not at all. `MCConflict` fixes the first merges because all interleavings of
fourteen merges of four witnesses are out of TLC's reach; the plan obeys the same
actions, guards included. In `Blocks` a block of an event with regular events
on both sides of a parent edge, one with a basis that must be waited for, and a
peer's branch across two blocks meet every case of `NonConsensusAncestors`; two
failures hit one block twice. In `Gossip`, two events in an answer cut batches
at merge and regular events alike, and make an overflow record; the events hold
a peer's own, a third party's committed to later, one of the client's, and one
beyond the client's height; of two blocks the client may have both while the
server is in the middle of writing the first. In `Commitments` two events of one peer are the least
with which a second commitment can follow a first, and three own merge events the
least for an event that commits, one that merges it, and one in between; the local
peer and another come and go as witnesses. In `Replays` one fork starts at the
genesis event and one later, one has three sides, one goes on after the fork; the
two nodes merge different sides, so each block meets sides decided, undecided and
unknown.

Fairness: `EventuallyDecides` assumes, in the scenario `prompt`, that each of three witnesses keeps
merging when the rules let it, which is what the work session's loop does
(`pipeline.js:104-148`), and nothing of the fourth; gossip keeps up, so a witness
that merges knows what there is. `EventuallyInEvent` assumes
weak fairness of the session's steps (sessions are scheduled for ever) and none
of the requests. `Blocks_followed` assumes the same of sessions, and strong
fairness of looking for consensus and of hearing from peers: a session may run
out of time before either, but not every session does. `Gossip_served` assumes
that the client goes on asking and that its gossip cycles end (ten retries,
`gossip.js:49`), that of requests without end some are answered, and that a
withheld event offered again and again is committed to at last; it assumes
nothing of the server's session, which may stop for ever.

### What the violated runs show

* **Two decisions for one block** (`Continuity_agreement`). No witness is faulty
  and all obey the merge rules. `w2` decides `{w1,w3,w4}` at its fourth event,
  which no other witness has yet received. The other three, with two sets at
  `f+1` support each, union them (`continuity.js:1037-1044`), which rejects their
  proposals, and `w1` decides `{w1,..,w4}` at its sixth. An endorsed
  proposal does not bind those that have seen it, so `f+1` of them
  (`continuity.js:925`) do not make a decision safe. Priority peers do not
  prevent it: the restriction at `merge.js:244-248` never bites, since the
  promise at line 247 is not awaited and is always true.
* **A revoked witness votes again** (`Continuity_revoked`). An event that shows its
  own creator's fork gets the support `false`, which is said to remain until
  consensus is reached (`continuity.js:751-754`). The creator's next event puts its
  tree parent in the place of the `false` (569-576), and does not look at the tree
  parent's index again (592-594). Unless another of its parents shows the fork once
  more, it is evaluated: if one set has `f+1` supporters, it supports that set
  (1025-1030), and counts for others again; if none has, the union of all
  support meets the tree parent's `false` (1055) and throws, in every node that
  knows the event. Both happen in the `forks` scenario. `OnlyOwnRevoked` says that
  at least nobody else's tally meets the `false`.
* **A failed chunk is dropped** (`Operations_lost`). The test that would resume
  it asks for `basisBlockHeight`, which a new queue does not have.
* **A torn block** (`Blocks_included`). A session fails after some merge events
  got their height and before the block is added. The next session loads only
  events without consensus, so a marked merge event comes back as the parent of
  an unmarked one and its own regular events do not. `WritesTrueBlock` and
  `EventuallyWritten` hold up to exactly that failure (`torn`). A failure at another
  step of writing a block, or between blocks, is made good by the next session; one
  in the middle of a flush is not always (see *A merge event left behind*).
* **Who forked, and when, is not agreed on** (`Replays_agreed`). The query that
  is said to compare with events that have reached consensus
  (`history.js:243-259`) compares with all that are stored, and the numbers
  depend on the order of receipt. Of two peers with the same blocks one marks a
  creator at a height and the other does not, and then one refuses what the
  other accepts.

### Known problems that no run shows as violated

Those in the model are excluded from the properties by a named condition; without
it TLC finds them at once.

* *An operation accepted twice* (`unguarded` in `Operations`). Requests of one
  process share a redis connection, and the EXEC of one ends the WATCH of the other,
  contrary to the comment in `cache/operations.js:45-47`. Two requests of one
  process with the same operation pass `exists` and the database check
  together, and both add it: it is in the queue twice and comes into two events.
  The EXEC that counts a peer's operations does the same to a request of the
  process that runs the work session. `AcceptedOnce`, `AtMostOneEvent`,
  `EventsInOrder` and `QueuedHaveDocuments` hold for all other operations.
* *A merge event left behind* (`LeftBehind` in `Blocks`). A flush that fails after a
  regular event was stored and before its merge event leaves the merge event out
  for ever: the regular event is not asked for again (`gossip.js:253-275`), and
  without it in the batch the merge event is refused (`peerEvents.js:567-579`). If
  the ledger needs it, the node stops following. The FIXME in
  `PeerEventWriter.js:77-78` asks for a transaction. `EventuallyWritten` is stated
  up to it, and `LeftBehindForEver` proves that it stays so.
* *Numbers that start again* (`rewound` in `Gossip`). A session that starts when
  every event has reached consensus numbers from 2 (`Worker.js:619`), so new
  events sort before those that clients have read up to, and their cursors pass
  them. `BatchAcceptable`, `NothingSkipped` and `EventuallyReceived` are stated
  up to that restart.
* *A withheld event withheld again* (`stale` in `Commitments`). `Worker.js:759`
  takes the event from the cache without asking whether it was stored meanwhile.
  It is then written and merged as if new.

Found by reading, outside the models:

* *The order [r2,m1,m2].* `history.js:456` says that it does not occur. A flush of
  peer events that fails after a regular event and before its merge event,
  followed by a session that stores another creator's event first, leaves it in
  the local numbers; clients refuse such batches (`peerEvents.js:497-510`).
* *A replayer's events that somebody merged.* `Worker.js:855-861` drops all events
  of a new replayer from the history while an undecided event may have one as
  its parent; `history.js:71-104` finds such parents again, not their parents
  (`NonConsensusParents` in `Replays`).
* *Deletion without an id.* `GossipPeer.js:45` calls the deletion without the
  peer's id, so peers that violated the protocol stay, without a backoff; a
  success that ends in the deletion does not store its cursor either.

## Proofs

`ContinuityProofs`, for any finite set of witnesses with `|Witness| = 3F+1`,
any branches, contributors, rule breakers and bounds:

* `TypeCorrect`, `SupportKnown`, `ProposalsHeld`, `RevokedTalliedByOwn`,
  `DecidedByMany`, `EndorsementsEarned`, `DecisionsAreFinal`, `AgreementChooses`.
  They hold also when revoked witnesses vote on.
* The argument is one inductive invariant: `TypeOK`, `CausallyClosed` (an event
  knows what its ancestors know), `IndexSound` (an index has one branch of a
  witness at most, nothing that could not be evaluated, and of what is revoked only
  the tree parent), `FailureEnds` (what throws ends its branch), and two of the properties.
  `CausallyClosed` is what makes support known: an event adopts the support of
  its voters, which are in its cut and so is what they know. `IndexSound`
  makes tallies safe: a revoked event has no branch of its creator in its index, so
  whoever merges it has none either, but for its creator's own next event.
  Steps append one event, so old events keep their values, and each conjunct is
  proved for the new event alone.
* `DecidedByMany` and `EndorsementsEarned` count witnesses and need `TallyInv`. `FewSupportThemselves` says
  that who supports the y events of no more than `f` witnesses is one of those: to
  be led away from one's own takes `f+1` votes for one set, of witnesses that all
  would have to be in it. A witness that goes on after a revoked event either
  follows `f+1` votes or throws, so it is no exception. So a decision, which needs `f+1` backers, rests on `f+1`
  creators although no threshold holds for merge events with local operations.
  `ProposalsBacked` follows a proposal from the `2f+1` that backed it to those that
  are noted as its endorsers, each of which has seen it; what has been seen stays
  seen because a branch's cuts only grow (`BranchGrows`).
* `AgreementChooses` is the refinement of `Consensus` up to agreement:
  `Spec /\ []Agreement => ChoosesOnce`. An event that decides ends its branch, so
  `chosen` only grows (`DecisionsAreFinal`), by one set at a time, and under
  `Agreement` never beyond one. `Agreement` alone is not a theorem: TLC refutes it in
  one instance (`Continuity_agreement`) and finds it in others (`ChoosesOnce` of
  `Continuity_safety`).

`AgreementProofs`, under the same assumptions, says when it does hold:

* `DecisionsLock`, `KeepingUpAgrees` and `KeepingUpChoosesOnce`: while
  `NobodyForked` and `KeptUp`, whatever knows as much as a decision supports its set
  and no other, decisions agree, and the algorithm implements `Consensus`. Both
  conditions are about the shape of the graph and not about support or decisions'
  outcome. `KeptUp` says that each event which a decision does not know was made
  by a witness that knew what the decision was made from; other decisions, which
  nobody merges, are exempt, so two witnesses may decide concurrently.
* The invariant `LockInv` adds to that of `ContinuityProofs` that merge heights rise
  along ancestry, that a decision is the last of its branch and nobody's ancestor,
  and that support and decision are what the event's own cut makes them. Given a
  decision, an event that knows as much is shown to support the decision's set by
  induction over its merge height: each of its voters is either in the decision's cut,
  where it votes as it did in the decision's own tally, or is outside, and then, by
  `KeptUp`, knows as much as the decision, is lower and supports the set already. So
  backers of the set stay and those of other sets only get fewer: no set gets `f+1`
  that had not, and the union of those that keep them is still the decided set. Of two decisions one knows as much as the other (`DecisionsCompare`).
* Where nobody forked the index of an event is all that it knows (`AllVote`).
* What breaks agreement between witnesses that obey
  the rules is that their views lag: in `Continuity_agreement` nobody forks,
  so it is `KeptUp` that fails: an event that one decision does not know was made
  without some of the events which that decision rests on. The code does not ensure
  `KeptUp`: the threshold of
  `merge.js:293` asks that `2f` others are ahead of one's head, not that one has their
  latest events. In the instance of
  `Continuity_safety`, with `Lag` 1, TLC reaches states with two decisions
  in which both conditions hold: the theorems are not about behaviours in which nothing
  is decided.

`OperationsProofs`, for any operations, requests, processes, limits and number
of failures:

* `TypeCorrect`.
* `AcceptsOnce`: whoever shares connections, an operation is accepted once unless
  it is unguarded. The invariant `AcceptInv` says
  that an operation in the queue is marked until its event has been written to
  storage (`WrittenFirst`, `AcceptedKnown`), and that a request which is not exposed
  and past its `exists` check watches its operation, and has a broken watch if the
  operation was accepted meanwhile (`AllGuarded`); so the transaction of a second
  request aborts.
* `EventsApart`, `KeepsOrder`, `FindsDocuments` and
  `NothingGoesMissing`. `OrderInv` divides what was accepted, in its order, into
  what is done, the chunk in work and the queue: the queue is the tail
  (`QueueIsTail`), a chunk is the stretch before it, or its head as long as it is
  not taken (`ChunkIsNext`), and events hold only what is done (`EventsFromDone`),
  all of it unless a session failed or an operation was added twice (`DoneInEvents`).
  Its parts are about positions in what was accepted; the properties of the
  operations at them also need that no operation was added twice.
* `OnlyFailuresLose`: `NoOperationLost`, which `Operations_lost`
  refutes, holds as long as no session has failed and no operation is unguarded
  (`Undisturbed`), since only accepted operations are marked (`MarkedAccepted`).
* `ImplementsPipeline`: `Spec => PassesThrough`. Each step after which no operation is
  unguarded is one of `Pipeline` or hidden (`StepPasses`). The mapping needs `OrderInv`, to know that
  the chunk in work is the next stretch of what was accepted (`ChunkAhead`), and
  `ChunkFits`: a chunk is not empty, fits in an event and has one basis, which is what
  the loop of `hasNextChunk` computes (`NextKeysFit`). That operations enter once is
  `AcceptsOnce`.
* `OverrunBounded`, for finitely many requests and whoever shares connections: the
  queue and the requests that have passed the check of its size stay below the
  maximum and the number of requests together (`RoomSeen`).

`BlocksProofs`, for any events and parents, any witness events and number of
failures:

* `TypeCorrect`, `NoEventInTwoBlocks`, `MemoryInSync`, `BlocksAreTrue`,
  `LeftBehindForEver`, and `OnlyTearsLose`: `AllIncluded`, which `Blocks_included` refutes, holds unless `torn`.
* The invariant relates memory to storage through the steps that let them
  differ: outside an update or a flush, the history is the stored merge events
  without height (`Remembers`); during an update the events of the block have no
  height or the block's, those no longer pending the block's (`Updating`); during
  a flush the batch is new to storage and memory (`Writing`). An event of a
  block has its height (`BlockHeights`), so two blocks share none. `OneBlock`
  alone is not inductive: that the block under way takes nothing from an earlier
  block is known only from the heights.
* `BlocksAreTrue` compares a node's blocks with `TrueBlock`, which is computed from
  the ledger's graph alone. It rests on `Lineage` (a regular event follows the
  merge event that its merge event follows; the witness's events are a chain and
  not ancestors of earlier ones) and on `LInv`: unless `torn`, only events of the
  next block have a height that no block has yet, and no merge event does outside
  of the update (`HeightsTrue`). So what a session finds in its recent history,
  walking from the witness's event over parents without consensus, is the next
  block, whatever else is stored and wherever the last session stopped.

`ReplaysProofs`, for any events, nodes, lineages, blocks, batches and sessions
that satisfy `ReplaysAssumption` and `Lineage`:

* `TypeCorrect`; `LateEventsRefused` (`MadeBeforeMark`); `NoPeerPoisoned`
  (`OnlyForkersMarked`); `ForksDetected`: of two events that one creator made
  after the same one, once both are in blocks, both are marked.
* `IInv` is enough for the first two: a mark is a block's height and every stored
  event's basis has been reached before that block. The others need `DInv`, which
  follows a fork from receipt to mark. Of two siblings that are stored one has a
  number other than 0 (`SiblingsNumbered`); such a number has siblings behind it
  (`ForkersNumbered`, which gives `OnlyForkersMarked`) and a stored event of the
  same creator with another number (`OtherNumber`, `SomeNumber` against NaN), so
  that a block which takes it finds its creator (`NumberedMarked`, and
  `ResultMarked` while the block is written); and the mark of that sibling reaches
  the one with number 0 (`SiblingMarks`, `LineMarks`). `OutsideMarked` is what
  makes a failure between the marks and the block harmless: what is stored, not in
  the history and in no block is marked. `OwnUnforked`: the nodes do not fork.
* `SidesAreNumbered` and `ForksKnown` carry this from the two events after a fork
  to all that follow on either side, by `SInv`: numbers are handed down a line
  (`SidesDiffer`), and once any of a creator's events is marked, all with the
  number 0 are (`MarkReachesAll`). The induction along a line is over the order of
  its events, which is well-founded since events are finite and no line turns back
  (`Lineage`).

`CommitmentsProofs`, for any events, peers, witness sets, look back and bounds:
all seven invariants of the run (`TypeCorrect`, `MergesWhatIsStored`,
`ServedTruly`, `MergesByTheRule`, `HeldBackStaysAway`, `CommitmentAsRecorded`,
`RemembersAsStored`).

* Storage comes first, and needs nothing of the memory but what a merge takes
  from it: heights are reached, own merge events are decided in order, and each
  stored event has evidence for its required height (`Evidence`): a witness, a
  commitment or a conversion. Evidence is kept by all later blocks, so whoever
  reached the height takes the event (`EvidenceAccepts`).
* `MemoryInv` says of each thing remembered what it has to do with storage: the
  commitment is the one of the last own event that commits (`CommitmentKnown`),
  what it is to is stored or withheld (`CommittedIsThere`), and what is withheld
  is what it is to, or was stale (`WithheldIsCommitted`). Two moments break the
  plain forms and are named: between a block and `_updateConsensusState` the
  memory does not know that block yet, and a stale cache (`stale`) is the case in
  which the last three theorems say nothing.

`AncestryProofs`: `AncestorsWithin(parent, set, from)`, a recursive function over
generations, is the least part of a finite `set` that holds `from` and is closed
under parents (`AncestorsClosed`, `AncestorsLeast`). That generations end after
`Cardinality(set)` steps is the only place where the recursion is unfolded.

`GossipProofs`, for any history that satisfies `Lineage`, any size of answers from
two on, any number of blocks and sessions:

* `TypeCorrect`; `NoneSkipped` (`NothingSkipped`); `BatchesAcceptable`
  (`BatchAcceptable`).
* The invariant has a part that always holds and a part, `Steady`, that holds
  until the server gives a number twice (`rewound`, see above). Always: heights are
  given parents first (`HeightsGiven`), the client has its own events and its
  blocks' (`ClientKnows`), and a request tells what the client still has
  (`RequestFits`), since heads and records are read at different times.
* `Steady`: numbers grow from parents to children (`NumbersGrow`), and between a
  regular event and its merge event stand only others of the same merge event
  (`MergedTogether`), so that wherever a batch is cut, the creator of the next merge
  event after a regular one is its own; a cursor is at most one past a
  stored event (`CursorsReached`), so that an event stored between the two reads is
  beyond it; and what an answer passes over is known or in it (`AnswerCovers`).
  What the heads skip is known because the client's knowledge is closed under
  parents (`ClosedUnderParents`) and generations go on without a gap.

Checked by TLC only: all liveness, which with ENABLED is out of the prover's reach.
Without a condition `DecisionLocks` and agreement are no theorems, since they do
not hold of every instance. Of the five violated properties three are proved up to
what violates them (`KeepingUpAgrees`, `OnlyFailuresLose`, `OnlyTearsLose`); for
`AgreeOnReplayers` and `RevocationLasts` no such condition is proved.

## Not modelled

* Replays of operations, which only refuse batches, and peer heads with forks.
* Peer commitments (`peerCommitment`), which allow a peer's first event, and the
  peer directory's flag of who needs one.
* Priority peers; the order of events within a block, but for parents first.
* Peer directory, reputation, backoff, selection and notification.
* The validation service and the event cache for gossip.
* Genesis, configuration changes, HTTP, keys, signatures, hashing: formats and
  I/O without a protocol of their own here; witness selection is another plugin.

## Plan

Done, in the order of importance: the algorithm (`Continuity`, `Consensus`), the
operations (`Operations`), the blocks (`Blocks`), gossip (`Gossip`), the rules for
peers that are no witnesses (`Commitments`), the detection of replayers
(`Replays`), and the proofs above. To come:

1. Proofs: which rule of merging would ensure `KeptUp`, so that it need not be a
   condition, and what is left of it when up to `f` witnesses fork.
2. `Peers`: intake limits, reputation, backoff, deletion and the selection of
   peers, as a state machine of one node.
3. Failed flushes on the gossip server; the validation service's limit.
4. Block order and priority peers as pure operators, checked against reference
   definitions over small histories.
