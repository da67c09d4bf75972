----------------------------- MODULE Operations -----------------------------
(***************************************************************************)
(* Local operations on their way from a client to a ledger event: the      *)
(* requests that add them to the redis queue (lib/operations.js,           *)
(* lib/cache/operations.js) and the work session that takes them off the   *)
(* queue in chunks and makes an event of each chunk (lib/events.js create, *)
(* lib/cache/OperationQueue.js).                                           *)
(*                                                                         *)
(* The commands of a redis transaction are executed together; everything   *)
(* else the code awaits is a step of its own.  A process has one redis     *)
(* connection, which all its requests and its work session share: a WATCH  *)
(* is in force until the next EXEC or UNWATCH on the connection, whoever   *)
(* sends it, and an EXEC does nothing if a watched key was changed.  So a  *)
(* request may go on without the watch it has set.  History variables hold *)
(* such requests, and the operations that they have added.                 *)
(***************************************************************************)
EXTENDS Integers, SequencesExt

CONSTANTS
  Operation,        (* the operations clients may submit                     *)
  NoOperation,      (* the operation of no request                           *)
  Basis,            (* the basisBlockHeight of an operation                  *)
  Request,          (* the requests that may be under way at a time          *)
  Submits,          (* the operations a request may submit                   *)
  Process,
  NoProcess,        (* the process of no request                             *)
  Serves,           (* the processes that may serve a request                *)
  WorkProcess,      (* the process that runs the work session                *)
  MaxOperations,    (* operations in an event (continuityConstants.js)       *)
  MaxQueueSize,     (* operations in the queue (config.js)                   *)
  MaxSubmissions,   (* bound: requests made in all                           *)
  MaxFailures       (* bound: work sessions that fail                        *)

ASSUME OperationsAssumption ==
  /\ NoOperation \notin Operation
  /\ Basis \in [Operation -> Nat]
  /\ IsFiniteSet(Request)
  /\ Submits \in [Request -> SUBSET Operation]
  /\ NoProcess \notin Process
  /\ Serves \in [Request -> SUBSET Process]
  /\ WorkProcess \in Process
  /\ MaxOperations \in Nat \ {0}
  /\ MaxQueueSize \in Nat \ {0}
  /\ MaxSubmissions \in Nat
  /\ MaxFailures \in Nat

VARIABLES
  opList,       (* redis: keys of the queued operations, oldest first        *)
  chunkList,    (* redis: keys of the operations selected for an event       *)
  opDoc,        (* redis: the operation documents                            *)
  opHash,       (* redis: marks of the operations that are queued            *)
  watch,        (* redis: the marks watched on the connection of a process   *)
  dirty,        (* redis: whether one of those has changed                   *)
  exposed,      (* history: requests whose watch another has ended           *)
  request,      (* the requests under way                                    *)
  session,      (* the event creation under way                              *)
  written,      (* storage: the operations written                           *)
  events,       (* storage: the operations of each event written             *)
  accepted,     (* history: the operations accepted, in that order           *)
  unguarded,    (* history: those of them that an exposed request has added  *)
  submissions,  (* the requests made                                         *)
  failures

redis == <<opList, chunkList, opDoc, opHash>>
connections == <<watch, dirty, exposed>>
storage == <<written, events>>
admission == <<accepted, unguarded>>
vars == <<redis, connections, request, session, storage, admission, submissions, failures>>

NoBasis == -1

Idle == [pc |-> "idle", op |-> NoOperation, process |-> NoProcess]

(* Each definition whose name starts with `Wrong' is a fault the code might *)
(* have, put in place of the definition after it to see that a property     *)
(* below notices it.  No behaviour of the specification uses one.           *)
WrongNewSession == [pc |-> "idle", opKeys |-> << >>, basis |-> 0, chunkCached |-> FALSE]
NewSession == [pc |-> "idle", opKeys |-> << >>, basis |-> NoBasis, chunkCached |-> FALSE]

TypeOK ==
  /\ opList \in Seq(Operation)
  /\ chunkList \in Seq(Operation)
  /\ opDoc \subseteq Operation
  /\ opHash \subseteq Operation
  /\ watch \in [Process -> SUBSET Operation]
  /\ dirty \in [Process -> BOOLEAN]
  /\ exposed \subseteq Request
  /\ request \in [Request -> [pc : {"idle", "exists", "unwatch", "database", "size", "exec"},
                              op : Operation \cup {NoOperation},
                              process : Process \cup {NoProcess}]]
  /\ \A r \in Request : request[r].pc # "idle" =>
       request[r].op # NoOperation /\ request[r].process # NoProcess
  /\ session \in [pc : {"idle", "get", "write", "add", "pop"}, opKeys : Seq(Operation),
                  basis : Nat \cup {NoBasis}, chunkCached : BOOLEAN]
  /\ written \subseteq Operation
  /\ events \in Seq(Seq(Operation))
  /\ accepted \in Seq(Operation)
  /\ unguarded \subseteq Operation
  /\ submissions \in 0 .. MaxSubmissions /\ failures \in 0 .. MaxFailures
-----------------------------------------------------------------------------
(* Redis connections.                                                       *)

(* An EXEC or UNWATCH of process p ends all watches on its connection, those *)
(* of requests that still count on them included.                           *)
EndWatches(p) ==
  /\ watch' = [watch EXCEPT ![p] = {}]
  /\ exposed' = exposed \cup {r \in Request : request[r].process = p}

Unwatch(p) == EndWatches(p) /\ dirty' = [dirty EXCEPT ![p] = FALSE]

(* An EXEC of process p that changes the marks of ops.                      *)
WrongExec(p, ops) == EndWatches(p) /\ dirty' = [dirty EXCEPT ![p] = FALSE]
Exec(p, ops) ==
  /\ EndWatches(p)
  /\ dirty' = [q \in Process |-> q # p /\ (dirty[q] \/ watch[q] \cap ops # {})]
-----------------------------------------------------------------------------
(* A request to add an operation.                                           *)

WrongAnswer(r) == request' = [request EXCEPT ![r].op = NoOperation]
Answer(r) == request' = [request EXCEPT ![r] = Idle]
GoTo(r, pc) == request' = [request EXCEPT ![r].pc = pc]

Watch(r, op, p) ==
  /\ request[r].pc = "idle"
  /\ submissions < MaxSubmissions
  /\ submissions' = submissions + 1
  /\ request' = [request EXCEPT ![r] = [pc |-> "exists", op |-> op, process |-> p]]
  /\ watch' = [watch EXCEPT ![p] = @ \cup {op}]
  /\ exposed' = exposed \ {r}
  /\ UNCHANGED <<redis, dirty, session, storage, admission, failures>>

Exists(r) ==
  /\ request[r].pc = "exists"
  /\ GoTo(r, IF request[r].op \in opHash THEN "unwatch" ELSE "database")
  /\ UNCHANGED <<redis, connections, session, storage, admission, submissions, failures>>

(* The operation is queued: the request ends with a DuplicateError.         *)
RejectQueued(r) ==
  /\ request[r].pc = "unwatch"
  /\ Unwatch(request[r].process)
  /\ Answer(r)
  /\ UNCHANGED <<redis, session, storage, admission, submissions, failures>>

(* An operation found in storage also ends the request, the watch stays.    *)
CheckDatabase(r) ==
  /\ request[r].pc = "database"
  /\ IF request[r].op \in written THEN Answer(r) ELSE GoTo(r, "size")
  /\ UNCHANGED <<redis, connections, session, storage, admission, submissions, failures>>

WrongQueueFull == Len(opList) > MaxQueueSize
QueueFull == Len(opList) >= MaxQueueSize

CheckQueueSize(r) ==
  /\ request[r].pc = "size"
  /\ IF QueueFull THEN Answer(r) ELSE GoTo(r, "exec")
  /\ UNCHANGED <<redis, connections, session, storage, admission, submissions, failures>>

(* The transaction of cache/operations.js add.                              *)
WrongPush(op) == /\ opList' = <<op>> \o opList
                 /\ opDoc' = opDoc \cup {op}
                 /\ opHash' = opHash \cup {op}
Push(op) == /\ opList' = Append(opList, op)
            /\ opDoc' = opDoc \cup {op}
            /\ opHash' = opHash \cup {op}

Enqueue(r) ==
  LET op == request[r].op
      p  == request[r].process
  IN /\ request[r].pc = "exec"
     /\ ~dirty[p]
     /\ Push(op)
     /\ Exec(p, {op})
     /\ accepted' = Append(accepted, op)
     /\ unguarded' = IF r \in exposed THEN unguarded \cup {op} ELSE unguarded
     /\ Answer(r)
     /\ UNCHANGED <<chunkList, session, storage, submissions, failures>>

(* The transaction is aborted: the request ends with a DuplicateError.      *)
RejectWatched(r) ==
  /\ request[r].pc = "exec"
  /\ dirty[request[r].process]
  /\ Unwatch(request[r].process)
  /\ Answer(r)
  /\ UNCHANGED <<redis, session, storage, admission, submissions, failures>>
-----------------------------------------------------------------------------
(* The work session creates an event.                                       *)

(* The oldest operations with the basis of the first of them.               *)
WrongNextKeys ==
  SubSeq(opList, 1, IF Len(opList) < MaxOperations THEN Len(opList) ELSE MaxOperations)
NextKeys ==
  LET next == SubSeq(opList, 1, IF Len(opList) < MaxOperations THEN Len(opList)
                                                               ELSE MaxOperations)
      same == {n \in 1 .. Len(next) : \A i \in 1 .. n : Basis[next[i]] = Basis[next[1]]}
  IN SubSeq(next, 1, Cardinality(same))

(* hasNextChunk: a chunk left in redis is taken up again if its basis is    *)
(* known, otherwise the next one is selected; the session ends when the     *)
(* queue is empty, and with an error if the transaction is aborted.         *)
HasNextChunk ==
  /\ session.pc = "idle"
  /\ IF chunkList # << >> /\ session.basis # NoBasis
     THEN /\ session' = [session EXCEPT !.pc = "get", !.opKeys = chunkList, !.chunkCached = TRUE]
          /\ UNCHANGED connections
     ELSE /\ session' = IF dirty[WorkProcess] \/ opList = << >> THEN NewSession
                        ELSE [session EXCEPT !.pc = "get", !.opKeys = NextKeys,
                                             !.basis = Basis[opList[1]]]
          /\ Exec(WorkProcess, {})
  /\ UNCHANGED <<redis, request, storage, admission, submissions, failures>>

(* What is left in the queue once the operations keys are taken from it.    *)
WrongRemaining(keys) == SubSeq(opList, MaxOperations + 1, Len(opList))
Remaining(keys) == SubSeq(opList, Len(keys) + 1, Len(opList))

(* getNextChunk: the session ends with an error if the transaction is       *)
(* aborted or a document is missing.                                        *)
GetChunk ==
  /\ session.pc = "get"
  /\ Exec(WorkProcess, {})
  /\ IF session.chunkCached \/ dirty[WorkProcess]
     THEN UNCHANGED <<opList, chunkList>>
     ELSE /\ opList' = Remaining(session.opKeys)
          /\ chunkList' = chunkList \o session.opKeys
  /\ session' = IF dirty[WorkProcess] \/ ~(ToSet(session.opKeys) \subseteq opDoc)
                THEN NewSession
                ELSE [session EXCEPT !.pc = "write"]
  /\ UNCHANGED <<opDoc, opHash, request, storage, admission, submissions, failures>>

WriteOperations ==
  /\ session.pc = "write"
  /\ written' = written \cup ToSet(session.opKeys)
  /\ session' = [session EXCEPT !.pc = "add"]
  /\ UNCHANGED <<redis, connections, request, events, admission, submissions, failures>>

(* The operations of an event are sorted by hash: the order of an event's   *)
(* sequence here has no meaning.                                            *)
AddEvent ==
  /\ session.pc = "add"
  /\ events' = Append(events, session.opKeys)
  /\ session' = [session EXCEPT !.pc = "pop"]
  /\ UNCHANGED <<redis, connections, request, written, admission, submissions, failures>>

(* popChunk: nobody looks whether the transaction was aborted.              *)
PopChunk ==
  /\ session.pc = "pop"
  /\ IF dirty[WorkProcess]
     THEN Unwatch(WorkProcess) /\ UNCHANGED redis
     ELSE /\ Exec(WorkProcess, ToSet(session.opKeys))
          /\ chunkList' = << >>
          /\ opDoc' = opDoc \ ToSet(session.opKeys)
          /\ opHash' = opHash \ ToSet(session.opKeys)
          /\ UNCHANGED opList
  /\ session' = NewSession
  /\ UNCHANGED <<request, storage, admission, submissions, failures>>

(* The session counts the operations that peers send, in a transaction that *)
(* nobody waits for.                                                        *)
CountPeerOperations ==
  /\ Exec(WorkProcess, {})
  /\ UNCHANGED <<redis, request, session, storage, admission, submissions, failures>>

(* A step of the session fails, or its process stops: its memory is gone.   *)
Fail ==
  /\ session.pc # "idle"
  /\ failures < MaxFailures
  /\ failures' = failures + 1
  /\ session' = NewSession
  /\ UNCHANGED <<redis, connections, request, storage, admission, submissions>>

Init ==
  /\ opList = << >> /\ chunkList = << >> /\ opDoc = {} /\ opHash = {}
  /\ watch = [p \in Process |-> {}] /\ dirty = [p \in Process |-> FALSE]
  /\ exposed = {}
  /\ request = [r \in Request |-> Idle]
  /\ session = NewSession
  /\ written = {} /\ events = << >>
  /\ accepted = << >> /\ unguarded = {} /\ submissions = 0 /\ failures = 0

Add(r) == \/ \E op \in Submits[r], p \in Serves[r] : Watch(r, op, p)
          \/ Exists(r) \/ RejectQueued(r) \/ CheckDatabase(r) \/ CheckQueueSize(r)
          \/ Enqueue(r) \/ RejectWatched(r)

Work == \/ HasNextChunk \/ GetChunk \/ WriteOperations \/ AddEvent \/ PopChunk

Next == (\E r \in Request : Add(r)) \/ Work \/ CountPeerOperations \/ Fail

Spec == Init /\ [][Next]_vars

(* Work sessions keep being run (ledgerConsensus schedules them).           *)
FairSpec == Spec /\ WF_vars(Work)
-----------------------------------------------------------------------------
(* Properties.                                                              *)

Queued(op) == op \in ToSet(opList) \cup ToSet(chunkList)
InEvent(op) == \E n \in DOMAIN events : op \in ToSet(events[n])

(* An operation is accepted once, however many requests submit it and       *)
(* whatever happens while one of them looks for it in storage, unless one   *)
(* of them added it after another command on its connection had ended its   *)
(* watch.                                                                   *)
AcceptedOnce ==
  \A i, j \in DOMAIN accepted :
    i # j /\ accepted[i] = accepted[j] => accepted[i] \in unguarded

(* An operation that was not added in that way is not put in two events,    *)
(* nor twice in one: a session that failed is not repeated by the next.     *)
AtMostOneEvent ==
  \A m, n \in DOMAIN events :
    \A i \in DOMAIN events[m], j \in DOMAIN events[n] :
      <<m, i>> # <<n, j>> /\ events[m][i] = events[n][j] => events[m][i] \in unguarded

(* Events hold such operations in the order in which they were accepted.    *)
EventsInOrder ==
  \A i, j \in DOMAIN accepted :
    i < j /\ accepted[i] \notin unguarded /\ accepted[j] \notin unguarded =>
      \A m, n \in DOMAIN events :
        accepted[i] \in ToSet(events[m]) /\ accepted[j] \in ToSet(events[n]) => m <= n

(* The work session finds their documents when they are in the queue.       *)
QueuedHaveDocuments == ToSet(opList) \ unguarded \subseteq opDoc \cap opHash

(* Each request checks the size of the queue before it adds to it: requests *)
(* under way together exceed the limit, by less than their number.          *)
QueueOverrun == Len(opList) < MaxQueueSize + Cardinality(Request)

(* Nothing was lost to a failure or to an operation that was accepted twice. *)
Undisturbed == failures = 0 /\ unguarded = {}

(* Then an accepted operation is queued, or about to be in an event, or in  *)
(* one.                                                                     *)
AccountedFor == Undisturbed => \A op \in ToSet(accepted) : Queued(op) \/ InEvent(op)

(* An operation that is marked as queued, so that it is refused when it is  *)
(* submitted again, is on its way to an event or in one.                    *)
NoOperationLost == \A op \in opHash : Queued(op) \/ InEvent(op)

(* The operations taken from the queue; all but those of a chunk in work,   *)
(* which is neither in an event nor lost, have left the pipeline.           *)
Taken == Len(accepted) - Len(opList)
InWork == session.pc \in {"write", "add"}
Done == IF InWork THEN Taken - Len(session.opKeys) ELSE Taken

(* The queue implements the pipeline, for as long as no exposed request has *)
(* added an operation: redis, the transactions on it and the steps of a     *)
(* session are not seen but by what gets to storage, and when.              *)
Abstract == INSTANCE Pipeline WITH done <- Done
PassesThrough == Abstract!Init /\ [][unguarded' = {} => Abstract!Step]_(Abstract!pipeline)

(* In the end every operation accepted while nothing is lost is in an event. *)
EventuallyInEvent ==
  []Undisturbed => \A op \in Operation : (op \in ToSet(accepted)) ~> InEvent(op)
=============================================================================
