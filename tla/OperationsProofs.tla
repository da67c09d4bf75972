-------------------------- MODULE OperationsProofs --------------------------
(***************************************************************************)
(* Theorems about the way of operations into events, for any operations,   *)
(* requests, processes and limits.                                         *)
(***************************************************************************)
EXTENDS Operations, SequenceTheorems, FiniteSetTheorems, TLAPS

RequestRecord ==
  [pc : {"idle", "exists", "unwatch", "database", "size", "exec"},
   op : Operation \cup {NoOperation}, process : Process \cup {NoProcess}]

SessionRecord ==
  [pc : {"idle", "get", "write", "add", "pop"}, opKeys : Seq(Operation),
   basis : Nat \cup {NoBasis}, chunkCached : BOOLEAN]
-----------------------------------------------------------------------------
LEMMA ToSetType ==
  ASSUME NEW S, NEW s \in Seq(S)
  PROVE  ToSet(s) \subseteq S
BY DEF ToSet

LEMMA RestType ==
  ASSUME NEW S, NEW s \in Seq(S), NEW m \in Nat
  PROVE  SubSeq(s, m + 1, Len(s)) \in Seq(S)
<1>1. Len(s) \in Nat /\ \A i \in m + 1 .. Len(s) : s[i] \in S
  OBVIOUS
<1> QED BY <1>1, SubSeqProperties

(* The next chunk is the beginning of the queue.                            *)
LEMMA NextKeysFirst ==
  ASSUME opList \in Seq(Operation)
  PROVE  /\ NextKeys \in Seq(Operation) /\ Len(NextKeys) <= Len(opList)
         /\ \A i \in 1 .. Len(NextKeys) : NextKeys[i] = opList[i]
<1> DEFINE m == IF Len(opList) < MaxOperations THEN Len(opList) ELSE MaxOperations
           next == SubSeq(opList, 1, m)
           same == {n \in 1 .. Len(next) :
                      \A i \in 1 .. n : Basis[next[i]] = Basis[next[1]]}
<1>1. m \in Nat /\ m <= Len(opList) /\ Len(opList) \in Nat
  BY OperationsAssumption
<1>2. \A i \in 1 .. m : opList[i] \in Operation
  BY <1>1
<1>3. /\ next \in Seq(Operation) /\ Len(next) = IF 1 <= m THEN m - 1 + 1 ELSE 0
      /\ \A i \in 1 .. m - 1 + 1 : next[i] = opList[1 + i - 1]
  <2> HIDE DEF m
  <2> QED BY <1>1, <1>2, SubSeqProperties
<1>4. Len(next) = m /\ \A i \in 1 .. Len(next) : next[i] = opList[i]
  <2> HIDE DEF next, m
  <2> QED BY <1>1, <1>3
<1> HIDE DEF m, next
<1>5. IsFiniteSet(1 .. Len(next)) /\ Cardinality(1 .. Len(next)) = Len(next)
  <2>1. 1 \in Int /\ Len(next) \in Int
    BY <1>1, <1>4
  <2>2. /\ IsFiniteSet(1 .. Len(next))
        /\ Cardinality(1 .. Len(next)) = IF 1 > Len(next) THEN 0 ELSE Len(next) - 1 + 1
    BY <2>1, FS_Interval
  <2> QED BY <1>1, <1>4, <2>2
<1>6. same \in SUBSET (1 .. Len(next))
  OBVIOUS
<1> HIDE DEF same
<1>7. IsFiniteSet(same) /\ Cardinality(same) <= Len(next)
  BY <1>5, <1>6, FS_Subset
<1> DEFINE c == Cardinality(same)
<1>8. c \in Nat
  BY <1>7, FS_CardinalityType
<1>9. c <= m
  BY <1>4, <1>7
<1> HIDE DEF c
<1>10. \A i \in 1 .. c : next[i] \in Operation
  BY <1>1, <1>3, <1>4, <1>8, <1>9
<1>11. /\ SubSeq(next, 1, c) \in Seq(Operation)
       /\ Len(SubSeq(next, 1, c)) = IF 1 <= c THEN c - 1 + 1 ELSE 0
       /\ \A i \in 1 .. c - 1 + 1 : SubSeq(next, 1, c)[i] = next[1 + i - 1]
  BY <1>8, <1>10, SubSeqProperties
<1>12. /\ Len(SubSeq(next, 1, c)) = c
       /\ \A i \in 1 .. c : SubSeq(next, 1, c)[i] = opList[i]
  BY <1>1, <1>4, <1>8, <1>9, <1>11
<1>13. NextKeys = SubSeq(next, 1, c)
  BY DEF NextKeys, c, same, next, m
<1> QED BY <1>1, <1>8, <1>9, <1>11, <1>12, <1>13
-----------------------------------------------------------------------------
(* A request that is under way has an operation and a process.              *)
HaveOperation ==
  \A r \in Request : request[r].pc # "idle" =>
    request[r].op # NoOperation /\ request[r].process # NoProcess

(* Every variable keeps its type.                                           *)
LEMMA InitTypeOK == Init => TypeOK
BY OperationsAssumption DEF Init, TypeOK, Idle, NewSession, NoBasis

LEMMA GoToType ==
  ASSUME request \in [Request -> RequestRecord], HaveOperation, NEW r \in Request,
         NEW pc \in {"idle", "exists", "unwatch", "database", "size", "exec"},
         request[r].pc # "idle", GoTo(r, pc)
  PROVE  request' \in [Request -> RequestRecord] /\ HaveOperation'
<1>1. [request[r] EXCEPT !.pc = pc] \in RequestRecord
  BY DEF RequestRecord
<1>2. /\ [request[r] EXCEPT !.pc = pc].op = request[r].op
      /\ [request[r] EXCEPT !.pc = pc].process = request[r].process
  BY DEF RequestRecord
<1> QED BY <1>1, <1>2 DEF GoTo, HaveOperation

LEMMA AnswerType ==
  ASSUME request \in [Request -> RequestRecord], HaveOperation, NEW r \in Request, Answer(r)
  PROVE  request' \in [Request -> RequestRecord] /\ HaveOperation'
<1>1. Idle \in RequestRecord /\ Idle.pc = "idle"
  BY DEF RequestRecord, Idle
<1> QED BY <1>1 DEF Answer, HaveOperation

LEMMA StepTypeOK ==
  ASSUME TypeOK, [Next]_vars
  PROVE  TypeOK'
<1> USE OperationsAssumption
    DEF TypeOK, RequestRecord, SessionRecord, HaveOperation, admission
<1>1. ASSUME NEW r \in Request, NEW op \in Submits[r], NEW p \in Serves[r], Watch(r, op, p)
      PROVE  TypeOK'
  <2>1. op \in Operation /\ p \in Process
    OBVIOUS
  <2>2. request' \in [Request -> RequestRecord] /\ HaveOperation'
    BY <1>1, <2>1 DEF Watch
  <2>3. watch' \in [Process -> SUBSET Operation] /\ submissions' \in 0 .. MaxSubmissions
    BY <1>1, <2>1 DEF Watch
  <2> QED BY <1>1, <2>2, <2>3 DEF Watch, redis, storage
<1>2. ASSUME NEW r \in Request, Exists(r)
      PROVE  TypeOK'
  <2>1. request' \in [Request -> RequestRecord] /\ HaveOperation'
    BY <1>2, GoToType DEF Exists
  <2> QED BY <1>2, <2>1 DEF Exists, redis, connections, storage
<1>3. ASSUME NEW r \in Request, RejectQueued(r)
      PROVE  TypeOK'
  BY <1>3, AnswerType DEF RejectQueued, Unwatch, EndWatches, redis, storage
<1>4. ASSUME NEW r \in Request, CheckDatabase(r)
      PROVE  TypeOK'
  <2>1. request' \in [Request -> RequestRecord] /\ HaveOperation'
    BY <1>4, AnswerType, GoToType DEF CheckDatabase
  <2> QED BY <1>4, <2>1 DEF CheckDatabase, redis, connections, storage
<1>5. ASSUME NEW r \in Request, CheckQueueSize(r)
      PROVE  TypeOK'
  <2>1. request' \in [Request -> RequestRecord] /\ HaveOperation'
    BY <1>5, AnswerType, GoToType DEF CheckQueueSize
  <2> QED BY <1>5, <2>1 DEF CheckQueueSize, redis, connections, storage
<1>6. ASSUME NEW r \in Request, Enqueue(r)
      PROVE  TypeOK'
  <2>1. request[r].op \in Operation
    BY <1>6 DEF Enqueue
  <2>2. request' \in [Request -> RequestRecord] /\ HaveOperation'
    BY <1>6, AnswerType DEF Enqueue
  <2>3. /\ opList' \in Seq(Operation) /\ accepted' \in Seq(Operation)
        /\ opDoc' \subseteq Operation /\ opHash' \subseteq Operation
        /\ unguarded' \subseteq Operation
    BY <1>6, <2>1 DEF Enqueue, Push
  <2>4. /\ watch' \in [Process -> SUBSET Operation] /\ dirty' \in [Process -> BOOLEAN]
        /\ exposed' \subseteq Request
    BY <1>6 DEF Enqueue, Exec, EndWatches
  <2> QED BY <1>6, <2>2, <2>3, <2>4 DEF Enqueue, storage
<1>7. ASSUME NEW r \in Request, RejectWatched(r)
      PROVE  TypeOK'
  BY <1>7, AnswerType DEF RejectWatched, Unwatch, EndWatches, redis, storage
<1>8. ASSUME NEW ops, Exec(WorkProcess, ops)
      PROVE  /\ watch' \in [Process -> SUBSET Operation] /\ dirty' \in [Process -> BOOLEAN]
             /\ exposed' \subseteq Request
  BY <1>8 DEF Exec, EndWatches
<1>9. NewSession \in SessionRecord
  BY DEF NewSession
<1>10. CASE HasNextChunk
  <2>1. CASE chunkList # << >> /\ session.basis # NoBasis
    <3>1. session' = [session EXCEPT !.pc = "get", !.opKeys = chunkList, !.chunkCached = TRUE]
      BY <1>10, <2>1 DEF HasNextChunk
    <3> QED BY <1>10, <2>1, <3>1 DEF HasNextChunk, redis, storage, connections
  <2>2. CASE ~(chunkList # << >> /\ session.basis # NoBasis)
    <3>1. Exec(WorkProcess, {})
      BY <1>10, <2>2 DEF HasNextChunk
    <3>2. CASE session' = NewSession
      BY <1>8, <1>9, <1>10, <3>1, <3>2 DEF HasNextChunk, redis, storage
    <3>3. CASE /\ opList # << >>
               /\ session' = [session EXCEPT !.pc = "get", !.opKeys = NextKeys,
                                             !.basis = Basis[opList[1]]]
      <4>1. Basis[opList[1]] \in Nat
        BY <3>3
      <4>2. session' \in SessionRecord
        BY <3>3, <4>1, NextKeysFirst
      <4> QED BY <1>8, <1>10, <3>1, <4>2 DEF HasNextChunk, redis, storage
    <3> QED BY <1>10, <2>2, <3>2, <3>3 DEF HasNextChunk
  <2> QED BY <2>1, <2>2
<1>11. CASE GetChunk
  <2>1. opList' \in Seq(Operation) /\ chunkList' \in Seq(Operation)
    <3>1. session.opKeys \in Seq(Operation)
      OBVIOUS
    <3>2. Len(session.opKeys) \in Nat
      BY <3>1
    <3>3. Remaining(session.opKeys) \in Seq(Operation)
      BY <3>2, RestType DEF Remaining
    <3>4. chunkList \o session.opKeys \in Seq(Operation)
      BY <3>1
    <3>5. \/ opList' = opList /\ chunkList' = chunkList
          \/ /\ opList' = Remaining(session.opKeys)
             /\ chunkList' = chunkList \o session.opKeys
      BY <1>11 DEF GetChunk
    <3> QED BY <3>3, <3>4, <3>5
  <2>2. session' \in SessionRecord
    BY <1>9, <1>11 DEF GetChunk
  <2>3. /\ watch' \in [Process -> SUBSET Operation] /\ dirty' \in [Process -> BOOLEAN]
        /\ exposed' \subseteq Request
    BY <1>8, <1>11 DEF GetChunk
  <2> QED BY <1>11, <2>1, <2>2, <2>3 DEF GetChunk, storage
<1>12. CASE WriteOperations
  BY <1>12, ToSetType DEF WriteOperations, redis, connections
<1>13. CASE AddEvent
  <2>1. events' \in Seq(Seq(Operation))
    BY <1>13 DEF AddEvent
  <2>2. session' \in SessionRecord
    BY <1>13 DEF AddEvent
  <2> QED BY <1>13, <2>1, <2>2 DEF AddEvent, redis, connections
<1>14. CASE PopChunk
  <2>1. /\ watch' \in [Process -> SUBSET Operation] /\ dirty' \in [Process -> BOOLEAN]
        /\ exposed' \subseteq Request
    BY <1>8, <1>14 DEF PopChunk, Unwatch, EndWatches
  <2>2. /\ opList' \in Seq(Operation) /\ chunkList' \in Seq(Operation)
        /\ opDoc' \subseteq Operation /\ opHash' \subseteq Operation
    <3>1. CASE dirty[WorkProcess]
      BY <1>14, <3>1 DEF PopChunk, redis
    <3>2. CASE ~dirty[WorkProcess]
      <4>1. /\ opList' = opList /\ chunkList' = << >>
            /\ opDoc' \subseteq opDoc /\ opHash' \subseteq opHash
        BY <1>14, <3>2 DEF PopChunk
      <4> QED BY <4>1
    <3> QED BY <3>1, <3>2
  <2>3. session' \in SessionRecord
    BY <1>9, <1>14 DEF PopChunk
  <2>4. UNCHANGED <<request, written, events, accepted, unguarded, submissions, failures>>
    BY <1>14 DEF PopChunk, storage
  <2> QED BY <2>1, <2>2, <2>3, <2>4
<1>15. CASE Fail
  BY <1>9, <1>15 DEF Fail, redis, connections, storage
<1>16. CASE CountPeerOperations
  BY <1>8, <1>16 DEF CountPeerOperations, redis, storage
<1>17. CASE UNCHANGED vars
  BY <1>17 DEF vars, redis, connections, storage
<1> QED BY <1>1, <1>2, <1>3, <1>4, <1>5, <1>6, <1>7, <1>10, <1>11, <1>12, <1>13, <1>14,
           <1>15, <1>16, <1>17 DEF Next, Add, Work

(* The type invariant holds in every reachable state.                       *)
THEOREM TypeCorrect == Spec => []TypeOK
BY InitTypeOK, StepTypeOK, PTL DEF Spec
-----------------------------------------------------------------------------
(* What a session is about to remove from the queue is in storage.          *)
WrittenFirst == session.pc \in {"add", "pop"} => ToSet(session.opKeys) \subseteq written

(* An accepted operation is marked as queued until it is in storage.        *)
AcceptedKnown == ToSet(accepted) \subseteq opHash \cup written

(* A request that goes on though its operation has been accepted meanwhile  *)
(* finds it in storage or its transaction aborted.                          *)
Noticed(r) ==
  request[r].op \in ToSet(accepted) =>
    \/ dirty[request[r].process]
    \/ request[r].pc = "database" /\ request[r].op \in written

(* That is so, and the mark of its operation is watched, until it is        *)
(* answered or another command ends its watch.                              *)
Guarded(r) ==
  r \notin exposed =>
    /\ request[r].pc \in {"exists", "database", "size", "exec"} =>
         request[r].op \in watch[request[r].process]
    /\ request[r].pc \in {"database", "size", "exec"} => Noticed(r)

AllGuarded == \A r \in Request : Guarded(r)

AcceptInv == /\ TypeOK
             /\ WrittenFirst
             /\ AcceptedKnown
             /\ AllGuarded
             /\ AcceptedOnce

LEMMA InitAcceptInv == Init => AcceptInv
<1>1. SUFFICES ASSUME Init
               PROVE  AcceptInv
  OBVIOUS
<1>2. TypeOK
  BY <1>1, InitTypeOK
<1>3. WrittenFirst /\ AllGuarded
  BY <1>1 DEF Init, WrittenFirst, AllGuarded, Guarded, Idle, NewSession
<1>4. AcceptedKnown /\ AcceptedOnce
  BY <1>1 DEF Init, AcceptedKnown, AcceptedOnce, ToSet
<1> QED BY <1>2, <1>3, <1>4 DEF AcceptInv

LEMMA AppendSet ==
  ASSUME NEW S, NEW s \in Seq(S), NEW x \in S
  PROVE  ToSet(Append(s, x)) = ToSet(s) \cup {x}
<1>1. /\ Len(s) \in Nat /\ DOMAIN s = 1 .. Len(s)
      /\ DOMAIN Append(s, x) = 1 .. Len(s) + 1
      /\ \A i \in 1 .. Len(s) : Append(s, x)[i] = s[i]
      /\ Append(s, x)[Len(s) + 1] = x
  OBVIOUS
<1>2. \A i \in 1 .. Len(s) + 1 : i \in 1 .. Len(s) \/ i = Len(s) + 1
  BY <1>1
<1> QED BY <1>1, <1>2 DEF ToSet

(* What a step leaves to a request that stays guarded.                      *)
Kept(q) ==
  \/ q \in exposed' \/ request'[q].pc = "idle"
  \/ /\ q \notin exposed /\ request'[q] = request[q]
     /\ watch[request[q].process] \subseteq watch'[request[q].process]
     /\ dirty[request[q].process] => dirty'[request[q].process]

LEMMA StaysGuarded ==
  ASSUME AllGuarded, NEW q \in Request, Kept(q), written \subseteq written',
         \/ q \in exposed' \/ request'[q].pc = "idle"
         \/ request[q].op \in ToSet(accepted') =>
              request[q].op \in ToSet(accepted) \/ dirty'[request[q].process]
  PROVE  Guarded(q)'
<1>1. CASE q \in exposed'
  BY <1>1 DEF Guarded
<1>2. CASE request'[q].pc = "idle"
  BY <1>2 DEF Guarded
<1>3. CASE q \notin exposed' /\ request'[q].pc # "idle"
  <2>1. /\ request'[q] = request[q]
        /\ watch[request[q].process] \subseteq watch'[request[q].process]
        /\ dirty[request[q].process] => dirty'[request[q].process]
        /\ q \notin exposed /\ Guarded(q)
    BY <1>3 DEF Kept, AllGuarded
  <2>2. request[q].op \in ToSet(accepted') =>
          request[q].op \in ToSet(accepted) \/ dirty'[request[q].process]
    BY <1>3
  <2>3. request[q].pc \in {"exists", "database", "size", "exec"} =>
          request'[q].op \in watch'[request'[q].process]
    BY <2>1 DEF Guarded
  <2>4. request[q].pc \in {"database", "size", "exec"} => Noticed(q)'
    BY <2>1, <2>2 DEF Guarded, Noticed
  <2> QED BY <2>1, <2>3, <2>4 DEF Guarded
<1> QED BY <1>1, <1>2, <1>3

(* Whoever uses the connection of a process, a request of that process is   *)
(* exposed and the others are left alone.                                   *)
LEMMA OthersKept ==
  ASSUME TypeOK, NEW p \in Process, NEW ops, Exec(p, ops) \/ Unwatch(p),
         NEW q \in Request, request'[q] = request[q]
  PROVE  /\ Kept(q)
         /\ q \notin exposed' /\ request[q].pc # "idle" /\ Exec(p, ops) =>
              dirty'[request[q].process]
                = (dirty[request[q].process] \/ watch[request[q].process] \cap ops # {})
<1>1. CASE request[q].pc = "idle"
  BY <1>1 DEF Kept
<1>2. CASE q \in exposed \/ request[q].process = p
  BY <1>2 DEF Kept, Exec, Unwatch, EndWatches, TypeOK
<1>3. CASE request[q].pc # "idle" /\ q \notin exposed /\ request[q].process # p
  <2>1. request[q].process \in Process
    BY <1>3 DEF TypeOK
  <2> DEFINE c == request[q].process
  <2>2. watch'[c] = watch[c]
    BY <1>3, <2>1 DEF Exec, Unwatch, EndWatches, TypeOK
  <2>3. Exec(p, ops) => dirty'[c] = (dirty[c] \/ watch[c] \cap ops # {})
    BY <1>3, <2>1 DEF Exec
  <2>4. Unwatch(p) => dirty'[c] = dirty[c]
    BY <1>3, <2>1 DEF Unwatch, TypeOK
  <2>5. dirty[c] => dirty'[c]
    BY <2>3, <2>4
  <2> QED BY <1>3, <2>2, <2>3, <2>5 DEF Kept
<1> QED BY <1>1, <1>2, <1>3

(* A request that answers, or moves on without any other effect than on its *)
(* own connection, does not disturb the others.                             *)
LEMMA StepAcceptInv ==
  ASSUME AcceptInv, [Next]_vars
  PROVE  AcceptInv'
<1>1. TypeOK /\ TypeOK'
  BY StepTypeOK DEF AcceptInv
<1> USE OperationsAssumption, <1>1 DEF admission
<1>2. AllGuarded
  BY DEF AcceptInv
<1>3. ASSUME NEW r \in Request, Guarded(r)', \A q \in Request \ {r} : Kept(q),
             UNCHANGED <<redis, session, storage, accepted, unguarded>>
      PROVE  AcceptInv'
  <2>1. WrittenFirst' /\ AcceptedKnown' /\ AcceptedOnce'
    BY <1>3 DEF AcceptInv, WrittenFirst, AcceptedKnown, AcceptedOnce, redis, storage
  <2>2. ASSUME NEW q \in Request \ {r} PROVE Guarded(q)'
    BY <1>2, <1>3, <2>2, StaysGuarded DEF storage
  <2>3. AllGuarded'
    BY <1>3, <2>2 DEF AllGuarded
  <2> QED BY <2>1, <2>3 DEF AcceptInv
<1>4. ASSUME NEW r \in Request, NEW op \in Submits[r], NEW p \in Serves[r], Watch(r, op, p)
      PROVE  AcceptInv'
  <2>1. op \in Operation /\ p \in Process
    OBVIOUS
  <2>2. /\ request'[r] = [pc |-> "exists", op |-> op, process |-> p]
        /\ watch' = [watch EXCEPT ![p] = @ \cup {op}] /\ exposed' = exposed \ {r}
        /\ dirty' = dirty
        /\ \A q \in Request \ {r} : request'[q] = request[q]
        /\ UNCHANGED <<redis, session, storage, accepted, unguarded>>
    BY <1>4 DEF Watch, TypeOK
  <2>3. op \in watch'[p]
    BY <2>1, <2>2 DEF TypeOK
  <2>4. Guarded(r)'
    BY <2>2, <2>3 DEF Guarded
  <2>5. ASSUME NEW q \in Request \ {r} PROVE Kept(q)
    <3>1. CASE q \in exposed \/ request[q].pc = "idle"
      BY <2>2, <3>1 DEF Kept
    <3>2. CASE q \notin exposed /\ request[q].pc # "idle"
      <4>1. request[q].process \in Process
        BY <3>2 DEF TypeOK
      <4>2. watch[request[q].process] \subseteq watch'[request[q].process]
        BY <2>2, <4>1 DEF TypeOK
      <4> QED BY <2>2, <3>2, <4>2 DEF Kept
    <3> QED BY <3>1, <3>2
  <2> QED BY <1>3, <2>2, <2>4, <2>5
<1>5. ASSUME NEW r \in Request, NEW pc \in {"unwatch", "database", "size", "exec"},
             GoTo(r, pc), request[r].pc # "idle",
             UNCHANGED <<redis, connections, session, storage, accepted, unguarded>>,
             pc # "unwatch" /\ r \notin exposed =>
               /\ request[r].pc \in {"exists", "database", "size"}
               /\ request[r].pc = "exists" => pc = "database" /\ request[r].op \notin opHash
               /\ request[r].pc = "database" => request[r].op \notin written
      PROVE  AcceptInv'
  <2>1. request[r] \in RequestRecord
    BY DEF TypeOK, RequestRecord
  <2>2. request' = [request EXCEPT ![r] = [request[r] EXCEPT !.pc = pc]]
    BY <1>5 DEF GoTo, TypeOK
  <2>3. /\ request'[r].pc = pc /\ request'[r].op = request[r].op
        /\ request'[r].process = request[r].process
        /\ \A q \in Request \ {r} : request'[q] = request[q]
    BY <2>1, <2>2 DEF RequestRecord, TypeOK
  <2>4. UNCHANGED <<watch, dirty, exposed, opHash, written>>
    BY <1>5 DEF connections, redis, storage
  <2>5. Guarded(r)'
    <3>1. CASE r \in exposed \/ pc = "unwatch"
      BY <2>3, <2>4, <3>1 DEF Guarded
    <3>2. CASE r \notin exposed /\ pc # "unwatch"
      <4>1. /\ Guarded(r) /\ request[r].pc \in {"exists", "database", "size"}
            /\ request[r].op \in watch[request[r].process]
        BY <1>2, <1>5, <3>2 DEF AllGuarded, Guarded
      <4>2. Noticed(r)'
        <5>1. CASE request[r].pc = "exists"
          BY <1>5, <2>3, <2>4, <3>2, <5>1 DEF AcceptInv, AcceptedKnown, Noticed
        <5>2. CASE request[r].pc \in {"database", "size"}
          <6>1. Noticed(r)
            BY <3>2, <4>1, <5>2 DEF Guarded
          <6> QED BY <1>5, <2>3, <2>4, <3>2, <5>2, <6>1 DEF Noticed
        <5> QED BY <4>1, <5>1, <5>2
      <4> QED BY <2>3, <2>4, <4>1, <4>2 DEF Guarded
    <3> QED BY <3>1, <3>2
  <2>6. \A q \in Request \ {r} : Kept(q)
    BY <2>3, <2>4 DEF Kept
  <2> QED BY <1>3, <1>5, <2>5, <2>6
<1>6. ASSUME NEW r \in Request, Answer(r),
             UNCHANGED <<redis, session, storage, accepted, unguarded>>,
             UNCHANGED connections \/ (request[r].pc # "idle" /\ Unwatch(request[r].process))
      PROVE  AcceptInv'
  <2>1. request'[r].pc = "idle" /\ \A q \in Request \ {r} : request'[q] = request[q]
    BY <1>6 DEF Answer, Idle, TypeOK
  <2>2. Guarded(r)'
    BY <2>1 DEF Guarded
  <2>3. ASSUME NEW q \in Request \ {r} PROVE Kept(q)
    <3>1. CASE UNCHANGED connections
      BY <2>1, <3>1 DEF Kept, connections
    <3>2. CASE request[r].pc # "idle" /\ Unwatch(request[r].process)
      <4>1. request[r].process \in Process
        BY <3>2 DEF TypeOK
      <4> QED BY <2>1, <3>2, <4>1, OthersKept
    <3> QED BY <1>6, <3>1, <3>2
  <2> QED BY <1>3, <1>6, <2>2, <2>3
<1>7. ASSUME NEW r \in Request, Exists(r) \/ CheckDatabase(r) \/ CheckQueueSize(r)
      PROVE  AcceptInv'
  <2>1. UNCHANGED <<redis, connections, session, storage, accepted, unguarded>>
    BY <1>7 DEF Exists, CheckDatabase, CheckQueueSize
  <2>2. CASE Answer(r)
    BY <1>6, <2>1, <2>2
  <2>3. CASE ~Answer(r)
    <3>1. \/ /\ request[r].pc = "exists" /\ GoTo(r, "unwatch")
          \/ /\ request[r].pc = "exists" /\ GoTo(r, "database") /\ request[r].op \notin opHash
          \/ request[r].pc = "database" /\ GoTo(r, "size") /\ request[r].op \notin written
          \/ request[r].pc = "size" /\ GoTo(r, "exec")
      BY <1>7, <2>3 DEF Exists, CheckDatabase, CheckQueueSize
    <3> QED BY <1>5, <2>1, <3>1
  <2> QED BY <2>2, <2>3
<1>8. ASSUME NEW r \in Request, RejectQueued(r) \/ RejectWatched(r)
      PROVE  AcceptInv'
  BY <1>6, <1>8 DEF RejectQueued, RejectWatched
<1>9. ASSUME NEW r \in Request, Enqueue(r)
      PROVE  AcceptInv'
  <2> DEFINE op == request[r].op
             p  == request[r].process
  <2>1. /\ op \in Operation /\ p \in Process /\ accepted' = Append(accepted, op)
        /\ unguarded' = IF r \in exposed THEN unguarded \cup {op} ELSE unguarded
        /\ opHash' = opHash \cup {op} /\ Exec(p, {op}) /\ Answer(r)
        /\ UNCHANGED <<session, written>>
    BY <1>9 DEF Enqueue, Push, storage, TypeOK
  <2>2. r \notin exposed => op \notin ToSet(accepted)
    <3>1. ~dirty[p] /\ request[r].pc = "exec"
      BY <1>9 DEF Enqueue
    <3> QED BY <1>2, <3>1 DEF AllGuarded, Guarded, Noticed
  <2> HIDE DEF op, p
  <2>3. ToSet(accepted') = ToSet(accepted) \cup {op}
    BY <2>1, AppendSet DEF TypeOK
  <2>4. WrittenFirst' /\ AcceptedKnown'
    BY <2>1, <2>3 DEF AcceptInv, WrittenFirst, AcceptedKnown
  <2>5. AcceptedOnce'
    <3> SUFFICES ASSUME NEW i \in DOMAIN accepted', NEW j \in DOMAIN accepted',
                        i # j, accepted'[i] = accepted'[j]
                 PROVE  accepted'[i] \in unguarded'
      BY DEF AcceptedOnce
    <3> DEFINE n == Len(accepted) + 1
    <3>1. /\ \A k \in DOMAIN accepted' : k \in DOMAIN accepted \/ k = n
          /\ accepted'[n] = op
          /\ \A k \in DOMAIN accepted : accepted'[k] = accepted[k] /\ accepted[k] \in ToSet(accepted)
      <4>1. accepted \in Seq(Operation) /\ op \in Operation /\ accepted' = Append(accepted, op)
        BY <2>1 DEF TypeOK
      <4>2. /\ Len(accepted) \in Nat /\ DOMAIN accepted = 1 .. Len(accepted)
            /\ DOMAIN accepted' = 1 .. Len(accepted) + 1
            /\ \A k \in 1 .. Len(accepted) : accepted'[k] = accepted[k]
            /\ accepted'[Len(accepted) + 1] = op
        BY ONLY <4>1
      <4>3. \A k \in DOMAIN accepted : accepted[k] \in ToSet(accepted)
        BY DEF ToSet
      <4> QED BY ONLY <4>2, <4>3 DEF n
    <3>2. unguarded \subseteq unguarded'
      BY <2>1
    <3> HIDE DEF n
    <3>3. CASE i \in DOMAIN accepted /\ j \in DOMAIN accepted
      BY <3>1, <3>2, <3>3 DEF AcceptInv, AcceptedOnce
    <3>4. CASE i = n \/ j = n
      <4>1. accepted'[i] = op /\ op \in ToSet(accepted)
        BY <3>1, <3>4
      <4> QED BY <2>1, <2>2, <4>1
    <3> QED BY <3>1, <3>3, <3>4
  <2>6. ASSUME NEW q \in Request PROVE Guarded(q)'
    <3>1. CASE q = r
      BY <2>1, <3>1 DEF Answer, Idle, Guarded, TypeOK
    <3>2. CASE q # r
      <4>1. request'[q] = request[q]
        BY <2>1, <3>2 DEF Answer, TypeOK
      <4>2. Kept(q)
        BY <2>1, <4>1, OthersKept
      <4>3. CASE q \in exposed' \/ request[q].pc \in {"idle", "exists", "unwatch"}
        <5>1. CASE q \in exposed' \/ request[q].pc \in {"idle", "unwatch"}
          BY <4>1, <5>1 DEF Guarded
        <5>2. CASE q \notin exposed' /\ request[q].pc = "exists"
          <6>1. /\ q \notin exposed /\ Guarded(q)
                /\ watch[request[q].process] \subseteq watch'[request[q].process]
            BY <1>2, <4>1, <4>2, <5>2 DEF Kept, AllGuarded
          <6> QED BY <4>1, <5>2, <6>1 DEF Guarded
        <5> QED BY <4>3, <5>1, <5>2
      <4>4. CASE q \notin exposed' /\ request[q].pc \in {"database", "size", "exec"}
        <5>1. /\ dirty'[request[q].process]
                   = (dirty[request[q].process] \/ watch[request[q].process] \cap {op} # {})
          BY <2>1, <4>1, <4>4, OthersKept
        <5>2. request[q].op \in watch[request[q].process]
          BY <1>2, <4>1, <4>2, <4>4 DEF Kept, AllGuarded, Guarded
        <5>3. request[q].op \in ToSet(accepted') =>
                request[q].op \in ToSet(accepted) \/ dirty'[request[q].process]
          BY <2>3, <5>1, <5>2
        <5> QED BY <1>2, <2>1, <4>2, <5>3, StaysGuarded
      <4> QED BY <4>3, <4>4 DEF TypeOK
    <3> QED BY <3>1, <3>2
  <2> QED BY <2>4, <2>5, <2>6 DEF AcceptInv, AllGuarded
<1>10. ASSUME UNCHANGED <<request, accepted, unguarded>>, AcceptedKnown', WrittenFirst',
              written \subseteq written',
              UNCHANGED connections \/ (\E ops : Exec(WorkProcess, ops)) \/ Unwatch(WorkProcess)
       PROVE  AcceptInv'
  <2>1. ASSUME NEW q \in Request PROVE Kept(q)
    <3>1. CASE UNCHANGED connections
      BY <1>10, <3>1 DEF Kept, connections
    <3>2. CASE (\E ops : Exec(WorkProcess, ops)) \/ Unwatch(WorkProcess)
      BY <1>10, <3>2, OthersKept
    <3> QED BY <1>10, <3>1, <3>2
  <2>2. AllGuarded'
    BY <1>2, <1>10, <2>1, StaysGuarded DEF AllGuarded
  <2>3. AcceptedOnce'
    BY <1>10 DEF AcceptInv, AcceptedOnce
  <2> QED BY <1>10, <2>2, <2>3 DEF AcceptInv
<1>11. CASE HasNextChunk
  <2>1. session'.pc \in {"idle", "get"}
    <3>1. session \in SessionRecord
      BY DEF TypeOK, SessionRecord
    <3>2. \/ session' = NewSession
          \/ session' = [session EXCEPT !.pc = "get", !.opKeys = chunkList, !.chunkCached = TRUE]
          \/ session' = [session EXCEPT !.pc = "get", !.opKeys = NextKeys,
                                        !.basis = Basis[opList[1]]]
      BY <1>11 DEF HasNextChunk
    <3>3. CASE session' = NewSession
      BY <3>3 DEF NewSession
    <3>4. CASE session' # NewSession
      BY <3>1, <3>2, <3>4 DEF SessionRecord
    <3> QED BY <3>3, <3>4
  <2>2. WrittenFirst' /\ AcceptedKnown'
    BY <1>11, <2>1 DEF HasNextChunk, WrittenFirst, AcceptInv, AcceptedKnown, redis, storage
  <2>3. Exec(WorkProcess, {}) \/ UNCHANGED connections
    BY <1>11 DEF HasNextChunk
  <2>4. UNCHANGED <<request, accepted, unguarded, written>>
    BY <1>11 DEF HasNextChunk, storage
  <2> QED BY <1>10, <2>2, <2>3, <2>4
<1>12. CASE GetChunk
  <2>1. session'.pc \in {"idle", "write"}
    BY <1>12 DEF GetChunk, NewSession, TypeOK
  <2>2. WrittenFirst' /\ AcceptedKnown'
    BY <1>12, <2>1 DEF GetChunk, WrittenFirst, AcceptInv, AcceptedKnown, storage
  <2> QED BY <1>10, <1>12, <2>2 DEF GetChunk, storage
<1>13. CASE WriteOperations
  <2>1. session'.opKeys = session.opKeys /\ written' = written \cup ToSet(session.opKeys)
    BY <1>13 DEF WriteOperations, TypeOK
  <2>2. WrittenFirst' /\ AcceptedKnown'
    BY <1>13, <2>1 DEF WriteOperations, WrittenFirst, AcceptInv, AcceptedKnown, redis
  <2> QED BY <1>10, <1>13, <2>1, <2>2 DEF WriteOperations
<1>14. CASE AddEvent
  <2>1. session'.opKeys = session.opKeys /\ session.pc = "add"
    BY <1>14 DEF AddEvent, TypeOK
  <2>2. WrittenFirst' /\ AcceptedKnown'
    BY <1>14, <2>1 DEF AddEvent, WrittenFirst, AcceptInv, AcceptedKnown, redis
  <2> QED BY <1>10, <1>14, <2>2 DEF AddEvent
<1>15. CASE PopChunk
  <2>1. ToSet(session.opKeys) \subseteq written
    BY <1>15 DEF PopChunk, AcceptInv, WrittenFirst
  <2>2. opHash \ ToSet(session.opKeys) \subseteq opHash'
    BY <1>15 DEF PopChunk, redis
  <2>3. WrittenFirst' /\ AcceptedKnown'
    BY <1>15, <2>1, <2>2
       DEF PopChunk, WrittenFirst, AcceptInv, AcceptedKnown, storage, NewSession
  <2>4. Unwatch(WorkProcess) \/ Exec(WorkProcess, ToSet(session.opKeys))
    BY <1>15 DEF PopChunk
  <2> QED BY <1>10, <1>15, <2>3, <2>4 DEF PopChunk, storage
<1>16. CASE Fail
  <2>1. WrittenFirst' /\ AcceptedKnown'
    BY <1>16 DEF Fail, WrittenFirst, AcceptInv, AcceptedKnown, redis, storage, NewSession
  <2> QED BY <1>10, <1>16, <2>1 DEF Fail, storage
<1>17. CASE CountPeerOperations
  <2>1. WrittenFirst' /\ AcceptedKnown'
    BY <1>17 DEF CountPeerOperations, WrittenFirst, AcceptInv, AcceptedKnown, redis, storage
  <2> QED BY <1>10, <1>17, <2>1 DEF CountPeerOperations, storage
<1>18. CASE UNCHANGED vars
  <2>1. UNCHANGED <<redis, connections, request, session, storage, accepted, unguarded>>
    BY <1>18 DEF vars
  <2>2. WrittenFirst' /\ AcceptedKnown'
    BY <2>1 DEF WrittenFirst, AcceptInv, AcceptedKnown, redis, storage
  <2> QED BY <1>10, <2>1, <2>2 DEF storage
<1> QED BY <1>4, <1>7, <1>8, <1>9, <1>11, <1>12, <1>13, <1>14, <1>15, <1>16, <1>17, <1>18
        DEF Next, Add, Work

(* The check of the queue, the check of storage and the transaction of      *)
(* operations.add accept no operation twice, however they interleave with   *)
(* each other and with the work session and whoever shares a connection,    *)
(* except one that a request adds after its watch has been ended.           *)
THEOREM AcceptsOnce == Spec => []AcceptedOnce
<1>1. AcceptInv => AcceptedOnce
  BY DEF AcceptInv
<1> QED BY <1>1, InitAcceptInv, StepAcceptInv, PTL DEF Spec
-----------------------------------------------------------------------------
(* The queue and the chunk in work are stretches of what was accepted.      *)

(* The keys are the operations of a sequence after the k-th.                *)
Stretch(ops, k, keys) ==
  /\ k \in Nat /\ k + Len(keys) <= Len(ops)
  /\ \A i \in 1 .. Len(keys) : keys[i] = ops[k + i]

(* The queue is the end of what was accepted.                               *)
QueueIsTail == Stretch(accepted, Taken, opList)

(* A chunk is the beginning of the queue until it is taken, then the last   *)
(* that was taken.  None is left over from an earlier session's.            *)
ChunkIsNext ==
  /\ session.pc = "idle" => session = NewSession
  /\ session.pc # "idle" => ~session.chunkCached
  /\ session.pc = "get" => /\ Stretch(accepted, Taken, session.opKeys)
                           /\ Len(session.opKeys) <= Len(opList)
  /\ session.pc \in {"write", "add", "pop"} =>
       Stretch(accepted, Taken - Len(session.opKeys), session.opKeys)
  /\ InWork => ToSet(session.opKeys) \subseteq ToSet(chunkList)

(* Events hold what was accepted and is not in work any more; all of it     *)
(* unless something was lost.                                               *)
EventsFromDone ==
  \A m \in DOMAIN events : \A op \in ToSet(events[m]) :
    \E i \in 1 .. Done : accepted[i] = op
DoneInEvents == Undisturbed => \A i \in 1 .. Done : InEvent(accepted[i])

OrderInv == /\ QueueIsTail /\ ChunkIsNext /\ EventsFromDone /\ DoneInEvents
            /\ AtMostOneEvent /\ EventsInOrder /\ QueuedHaveDocuments

LEMMA StretchAppend ==
  ASSUME NEW S, NEW ops \in Seq(S), NEW x \in S, NEW k, NEW keys \in Seq(S), Stretch(ops, k, keys)
  PROVE  /\ Stretch(Append(ops, x), k, keys)
         /\ k + Len(keys) = Len(ops) => Stretch(Append(ops, x), k, Append(keys, x))
<1>1. /\ Len(ops) \in Nat /\ Len(keys) \in Nat /\ k \in Nat
      /\ Len(Append(ops, x)) = Len(ops) + 1 /\ Append(ops, x)[Len(ops) + 1] = x
      /\ Len(Append(keys, x)) = Len(keys) + 1 /\ Append(keys, x)[Len(keys) + 1] = x
      /\ \A i \in 1 .. Len(ops) : Append(ops, x)[i] = ops[i]
      /\ \A i \in 1 .. Len(keys) : Append(keys, x)[i] = keys[i]
  BY DEF Stretch
<1>2. Stretch(Append(ops, x), k, keys)
  BY <1>1 DEF Stretch
<1>3. ASSUME k + Len(keys) = Len(ops), NEW i \in 1 .. Len(keys) + 1
      PROVE  Append(keys, x)[i] = Append(ops, x)[k + i]
  <2>1. CASE i = Len(keys) + 1
    <3>1. k + i = Len(ops) + 1
      BY <1>1, <1>3, <2>1
    <3> QED BY <1>1, <2>1, <3>1
  <2>2. CASE i \in 1 .. Len(keys)
    BY <1>1, <2>2 DEF Stretch
  <2> QED BY <1>1, <1>3, <2>1, <2>2
<1> QED BY <1>1, <1>2, <1>3 DEF Stretch

LEMMA StretchRest ==
  ASSUME NEW S, NEW ops \in Seq(S), NEW k, NEW keys \in Seq(S), Stretch(ops, k, keys),
         NEW l \in Nat, l <= Len(keys)
  PROVE  LET rest == SubSeq(keys, l + 1, Len(keys)) IN
         /\ Len(rest) = Len(keys) - l /\ Stretch(ops, k + l, rest)
         /\ ToSet(rest) \subseteq ToSet(keys)
<1> DEFINE rest == SubSeq(keys, l + 1, Len(keys))
<1>1. Len(keys) \in Nat /\ k \in Nat
  BY DEF Stretch
<1>2. \A i \in l + 1 .. Len(keys) : keys[i] \in S
  BY <1>1
<1>3. /\ rest \in Seq(S)
      /\ Len(rest) = IF l + 1 <= Len(keys) THEN Len(keys) - (l + 1) + 1 ELSE 0
      /\ \A i \in 1 .. Len(keys) - (l + 1) + 1 : rest[i] = keys[l + 1 + i - 1]
  BY <1>1, <1>2, SubSeqProperties
<1> HIDE DEF rest
<1>4. Len(rest) = Len(keys) - l
  BY <1>1, <1>3
<1>5. \A i \in 1 .. Len(rest) : l + i \in 1 .. Len(keys) /\ rest[i] = keys[l + i]
  BY <1>1, <1>3, <1>4
<1>6. Stretch(ops, k + l, rest)
  BY <1>1, <1>4, <1>5 DEF Stretch
<1>7. ToSet(rest) \subseteq ToSet(keys)
  <2>1. DOMAIN rest = 1 .. Len(rest) /\ DOMAIN keys = 1 .. Len(keys)
    BY <1>3
  <2>2. \A i \in DOMAIN rest : \E j \in DOMAIN keys : rest[i] = keys[j]
    BY <1>5, <2>1
  <2> QED BY <2>2 DEF ToSet
<1> QED BY <1>4, <1>6, <1>7 DEF rest

LEMMA ConcatHolds ==
  ASSUME NEW S, NEW s \in Seq(S), NEW t \in Seq(S)
  PROVE  ToSet(t) \subseteq ToSet(s \o t)
<1>1. /\ Len(s) \in Nat /\ Len(t) \in Nat /\ DOMAIN t = 1 .. Len(t)
      /\ DOMAIN (s \o t) = 1 .. Len(s) + Len(t)
      /\ \A i \in 1 .. Len(t) : (s \o t)[Len(s) + i] = t[i]
  OBVIOUS
<1>2. \A i \in 1 .. Len(t) : Len(s) + i \in 1 .. Len(s) + Len(t)
  BY <1>1
<1> QED BY <1>1, <1>2 DEF ToSet

LEMMA InitOrderInv == Init => OrderInv
<1> SUFFICES ASSUME Init PROVE OrderInv
  OBVIOUS
<1>1. /\ opList = << >> /\ accepted = << >> /\ events = << >> /\ session = NewSession
      /\ session.pc = "idle" /\ Len(accepted) = 0 /\ Len(opList) = 0
      /\ DOMAIN events = {} /\ DOMAIN accepted = {} /\ ToSet(opList) = {}
  BY DEF Init, NewSession, ToSet
<1>2. Taken = 0 /\ Done = 0 /\ ~InWork
  BY <1>1 DEF Taken, Done, InWork
<1>3. QueueIsTail
  BY <1>1, <1>2 DEF QueueIsTail, Stretch
<1> QED BY <1>1, <1>2, <1>3 DEF OrderInv, ChunkIsNext, EventsFromDone, DoneInEvents,
           AtMostOneEvent, EventsInOrder, QueuedHaveDocuments

(* An operation that is accepted twice was added by an exposed request.     *)
LEMMA OncePlaced ==
  ASSUME TypeOK, AcceptedOnce, NEW i \in 1 .. Len(accepted), NEW j \in 1 .. Len(accepted),
         accepted[i] = accepted[j], accepted[i] \notin unguarded
  PROVE  i = j
BY DEF AcceptedOnce, TypeOK

(* The numbers are what they should be.                                     *)
LEMMA Counts ==
  ASSUME TypeOK, OrderInv
  PROVE  /\ Len(accepted) \in Nat /\ Len(opList) \in Nat /\ Len(session.opKeys) \in Nat
         /\ session.opKeys \in Seq(Operation)
         /\ Taken \in Nat /\ Taken + Len(opList) = Len(accepted)
         /\ Done \in Nat /\ Done <= Taken /\ Taken <= Len(accepted)
         /\ DOMAIN accepted = 1 .. Len(accepted)
         /\ InWork => Done + Len(session.opKeys) = Taken
         /\ ~InWork => Done = Taken
<1>1. /\ Len(accepted) \in Nat /\ Len(opList) \in Nat /\ Len(session.opKeys) \in Nat
      /\ session.opKeys \in Seq(Operation) /\ DOMAIN accepted = 1 .. Len(accepted)
  BY DEF TypeOK
<1>2. Taken \in Nat
  BY DEF OrderInv, QueueIsTail, Stretch
<1>3. InWork => Taken - Len(session.opKeys) \in Nat
  BY DEF OrderInv, ChunkIsNext, InWork, Stretch
<1>4. Taken + Len(opList) = Len(accepted) /\ Taken <= Len(accepted)
  BY <1>1, <1>2 DEF Taken
<1>5. InWork => Done = Taken - Len(session.opKeys) /\ Done \in Nat
  BY <1>3 DEF Done
<1>6. ~InWork => Done = Taken
  BY DEF Done
<1> DEFINE l == Len(session.opKeys)
<1>7. l \in Nat
  BY <1>1
<1> HIDE DEF l
<1>8. CASE InWork
  <2>1. Done = Taken - l /\ Done \in Nat
    BY <1>5, <1>8 DEF l
  <2>2. Done + l = Taken /\ Done <= Taken
    BY <1>2, <1>7, <2>1
  <2> QED BY <1>1, <1>2, <1>4, <1>8, <2>1, <2>2 DEF l
<1>9. CASE ~InWork
  <2>1. Done <= Taken
    BY <1>2, <1>6, <1>9
  <2> QED BY <1>1, <1>2, <1>4, <1>6, <1>9, <2>1
<1> QED BY <1>8, <1>9

(* A step without a new event.                                              *)
LEMMA NoNewEvent ==
  ASSUME TypeOK, TypeOK', OrderInv, AcceptedOnce', UNCHANGED events,
         unguarded \subseteq unguarded', Len(accepted) <= Len(accepted'),
         \A i \in 1 .. Len(accepted) : accepted'[i] = accepted[i],
         Done' \in Nat, Done <= Done'
  PROVE  EventsFromDone' /\ AtMostOneEvent' /\ EventsInOrder'
<1>1. EventsFromDone'
  <2> SUFFICES ASSUME NEW m \in DOMAIN events, NEW op \in ToSet(events[m])
               PROVE  \E i \in 1 .. Done' : accepted'[i] = op
    BY DEF EventsFromDone
  <2>1. PICK i \in 1 .. Done : accepted[i] = op
    BY DEF OrderInv, EventsFromDone
  <2>2. i \in 1 .. Done' /\ i \in 1 .. Len(accepted)
    BY Counts
  <2> QED BY <2>1, <2>2
<1>2. AtMostOneEvent'
  BY DEF OrderInv, AtMostOneEvent
<1>3. EventsInOrder'
  <2> SUFFICES ASSUME NEW i \in DOMAIN accepted', NEW j \in DOMAIN accepted', i < j,
                      accepted'[i] \notin unguarded', accepted'[j] \notin unguarded',
                      NEW m \in DOMAIN events, NEW n \in DOMAIN events,
                      accepted'[i] \in ToSet(events[m]), accepted'[j] \in ToSet(events[n])
               PROVE  m <= n
    BY DEF EventsInOrder
  <2>1. DOMAIN accepted' = 1 .. Len(accepted') /\ Len(accepted') \in Nat
    BY DEF TypeOK
  <2>2. ASSUME NEW k \in DOMAIN accepted', accepted'[k] \notin unguarded',
               NEW l \in DOMAIN events, accepted'[k] \in ToSet(events[l])
        PROVE  k \in DOMAIN accepted /\ accepted[k] = accepted'[k]
    <3>1. PICK o \in 1 .. Done : accepted[o] = accepted'[k]
      BY <2>2 DEF OrderInv, EventsFromDone
    <3>2. o \in 1 .. Len(accepted) /\ o \in 1 .. Len(accepted')
      BY <2>1, Counts
    <3>3. accepted'[o] = accepted'[k]
      BY <3>1, <3>2
    <3>4. o = k
      BY <2>1, <2>2, <3>2, <3>3 DEF AcceptedOnce
    <3> QED BY <3>2, <3>3, <3>4, Counts
  <2>3. /\ i \in DOMAIN accepted /\ accepted[i] \in ToSet(events[m])
        /\ j \in DOMAIN accepted /\ accepted[j] \in ToSet(events[n])
    BY <2>2
  <2> QED BY <2>3 DEF OrderInv, EventsInOrder
<1> QED BY <1>1, <1>2, <1>3

(* A chunk becomes an event.                                                *)
LEMMA NewEvent ==
  ASSUME TypeOK, TypeOK', OrderInv, AcceptedOnce, AddEvent
  PROVE  OrderInv'
<1> DEFINE keys == session.opKeys
           new == Len(events) + 1
<1>1. /\ InWork /\ ~InWork' /\ session'.pc = "pop" /\ session'.opKeys = keys /\ ~session'.chunkCached
      /\ session.pc = "add"
      /\ UNCHANGED <<opList, chunkList, opDoc, opHash, accepted, unguarded, failures>>
  BY DEF AddEvent, InWork, redis, admission, TypeOK, OrderInv, ChunkIsNext
<1>2. Taken' = Taken /\ Done' = Taken
  BY <1>1 DEF Taken, Done
<1>3. /\ Len(events) \in Nat /\ DOMAIN events = 1 .. Len(events)
      /\ DOMAIN events' = 1 .. new /\ events'[new] = keys
      /\ \A m \in DOMAIN events : events'[m] = events[m]
  <2>1. events \in Seq(Seq(Operation)) /\ keys \in Seq(Operation) /\ events' = Append(events, keys)
    BY Counts DEF AddEvent, TypeOK
  <2> HIDE DEF keys
  <2> QED BY ONLY <2>1 DEF new
<1>4. \A m \in DOMAIN events' : m \in DOMAIN events \/ m = new
  BY <1>3
<1>5. Stretch(accepted, Done, keys) /\ Done + Len(keys) = Taken /\ Done \in Nat
  BY <1>1, Counts DEF OrderInv, ChunkIsNext, InWork, Done
<1>6. \A op \in ToSet(keys) : \E i \in Done + 1 .. Taken : accepted[i] = op
  <2> SUFFICES ASSUME NEW op \in ToSet(keys) PROVE \E i \in Done + 1 .. Taken : accepted[i] = op
    OBVIOUS
  <2>1. PICK i \in 1 .. Len(keys) : keys[i] = op
    BY Counts DEF ToSet
  <2>2. Done + i \in Done + 1 .. Taken /\ accepted[Done + i] = op
    BY <1>5, <2>1, Counts DEF Stretch
  <2> QED BY <2>2
<1>7. \A i \in Done + 1 .. Taken : accepted[i] \in ToSet(keys)
  <2> SUFFICES ASSUME NEW i \in Done + 1 .. Taken PROVE accepted[i] \in ToSet(keys)
    OBVIOUS
  <2>1. i - Done \in 1 .. Len(keys)
    BY <1>5, Counts
  <2>2. keys[i - Done] = accepted[Done + (i - Done)] /\ Done + (i - Done) = i
    BY <1>5, <2>1, Counts DEF Stretch
  <2>3. i - Done \in DOMAIN keys
    BY <2>1, Counts
  <2> QED BY <2>2, <2>3 DEF ToSet
<1>8. \A i, j \in DOMAIN accepted :
        accepted[i] = accepted[j] /\ accepted[i] \notin unguarded => i = j
  BY DEF AcceptedOnce
<1> HIDE DEF keys, new
<1>9. EventsFromDone'
  <2> SUFFICES ASSUME NEW m \in DOMAIN events', NEW op \in ToSet(events'[m])
               PROVE  \E i \in 1 .. Taken : accepted[i] = op
    BY <1>1, <1>2 DEF EventsFromDone
  <2>1. CASE m \in DOMAIN events
    <3>1. PICK i \in 1 .. Done : accepted[i] = op
      BY <1>3, <2>1 DEF OrderInv, EventsFromDone
    <3> QED BY <3>1, Counts
  <2>2. CASE m = new
    <3>1. PICK i \in Done + 1 .. Taken : accepted[i] = op
      BY <1>3, <1>6, <2>2
    <3> QED BY <1>5, <3>1, Counts
  <2> QED BY <1>4, <2>1, <2>2
<1>10. DoneInEvents'
  <2> SUFFICES ASSUME Undisturbed, NEW i \in 1 .. Taken PROVE InEvent(accepted[i])'
    BY <1>1, <1>2 DEF DoneInEvents, InEvent, Undisturbed
  <2>1. CASE i \in 1 .. Done
    <3>1. InEvent(accepted[i])
      BY <2>1 DEF OrderInv, DoneInEvents
    <3>2. PICK m \in DOMAIN events : accepted[i] \in ToSet(events[m])
      BY <3>1 DEF InEvent
    <3>3. m \in DOMAIN events' /\ accepted[i] \in ToSet(events'[m])
      BY <1>3, <3>2 DEF new
    <3> QED BY <1>1, <3>3 DEF InEvent
  <2>2. CASE i \in Done + 1 .. Taken
    <3>1. new \in DOMAIN events' /\ accepted[i] \in ToSet(events'[new])
      BY <1>3, <1>7, <2>2 DEF new
    <3> QED BY <1>1, <3>1 DEF InEvent
  <2> QED BY <1>5, <2>1, <2>2, Counts
<1>11. \A m \in DOMAIN events : ToSet(events[m]) \cap ToSet(keys) \subseteq unguarded
  <2> SUFFICES ASSUME NEW m \in DOMAIN events, NEW op \in ToSet(events[m]), op \in ToSet(keys),
                      op \notin unguarded
               PROVE  FALSE
    OBVIOUS
  <2>1. PICK i \in 1 .. Done : accepted[i] = op
    BY DEF OrderInv, EventsFromDone
  <2>2. PICK j \in Done + 1 .. Taken : accepted[j] = op
    BY <1>6
  <2>3. i \in DOMAIN accepted /\ j \in DOMAIN accepted /\ i # j
    BY <1>5, Counts
  <2> QED BY <1>8, <2>1, <2>2, <2>3
<1>12. \A i, j \in DOMAIN keys : keys[i] = keys[j] /\ keys[i] \notin unguarded => i = j
  <2> SUFFICES ASSUME NEW i \in DOMAIN keys, NEW j \in DOMAIN keys, keys[i] = keys[j],
                      keys[i] \notin unguarded
               PROVE  i = j
    OBVIOUS
  <2>1. i \in 1 .. Len(keys) /\ j \in 1 .. Len(keys) /\ Len(keys) \in Nat
    BY Counts DEF keys
  <2>2. Taken \in Nat /\ Taken <= Len(accepted) /\ Len(accepted) \in Nat
    BY Counts
  <2>3. Done + i \in 1 .. Len(accepted) /\ Done + j \in 1 .. Len(accepted)
    <3> HIDE DEF Done, Taken
    <3> QED BY <1>5, <2>1, <2>2
  <2>4. accepted[Done + i] = keys[i] /\ accepted[Done + j] = keys[j]
    BY <1>5, <2>1 DEF Stretch
  <2>5. /\ Done + i \in DOMAIN accepted /\ Done + j \in DOMAIN accepted
        /\ accepted[Done + i] = accepted[Done + j] /\ accepted[Done + i] \notin unguarded
    BY <2>3, <2>4, Counts
  <2>6. Done + i = Done + j
    BY <1>8, <2>5
  <2> QED BY <1>5, <2>1, <2>6
<1>13. AtMostOneEvent'
  <2> SUFFICES ASSUME NEW m \in DOMAIN events', NEW n \in DOMAIN events',
                      NEW i \in DOMAIN events'[m], NEW j \in DOMAIN events'[n],
                      <<m, i>> # <<n, j>>, events'[m][i] = events'[n][j]
               PROVE  events'[m][i] \in unguarded
    BY <1>1 DEF AtMostOneEvent
  <2>1. events'[m][i] \in ToSet(events'[m]) /\ events'[m][i] \in ToSet(events'[n])
    BY DEF ToSet
  <2>2. CASE m \in DOMAIN events /\ n \in DOMAIN events
    BY <1>3, <2>2 DEF OrderInv, AtMostOneEvent
  <2>3. CASE m = new /\ n = new
    BY <1>3, <1>12, <2>3
  <2>4. CASE (m = new /\ n \in DOMAIN events) \/ (m \in DOMAIN events /\ n = new)
    BY <1>3, <1>11, <2>1, <2>4
  <2> QED BY <1>4, <2>2, <2>3, <2>4
<1>14. EventsInOrder'
  <2> SUFFICES ASSUME NEW i \in DOMAIN accepted, NEW j \in DOMAIN accepted, i < j,
                      accepted[i] \notin unguarded, accepted[j] \notin unguarded,
                      NEW m \in DOMAIN events', NEW n \in DOMAIN events',
                      accepted[i] \in ToSet(events'[m]), accepted[j] \in ToSet(events'[n])
               PROVE  m <= n
    BY <1>1 DEF EventsInOrder
  <2>1. CASE m \in DOMAIN events /\ n \in DOMAIN events
    BY <1>3, <2>1 DEF OrderInv, EventsInOrder
  <2>2. CASE n = new
    BY <1>3, <1>4, <2>2 DEF new
  <2>3. CASE m = new /\ n \in DOMAIN events
    <3>1. PICK k \in Done + 1 .. Taken : accepted[k] = accepted[i]
      BY <1>3, <1>6, <2>3
    <3>2. PICK l \in 1 .. Done : accepted[l] = accepted[j]
      BY <1>3, <2>3 DEF OrderInv, EventsFromDone
    <3>3. k \in DOMAIN accepted /\ l \in DOMAIN accepted
      BY <1>5, Counts
    <3>4. k = i /\ l = j
      BY <1>8, <3>1, <3>2, <3>3
    <3> QED BY <1>5, <3>1, <3>2, <3>4, Counts
  <2> QED BY <1>4, <2>1, <2>2, <2>3
<1>15. QueueIsTail' /\ QueuedHaveDocuments'
  BY <1>1, <1>2 DEF OrderInv, QueueIsTail, QueuedHaveDocuments
<1>16. ChunkIsNext'
  BY <1>1, <1>2, <1>5 DEF OrderInv, ChunkIsNext, keys
<1> QED BY <1>9, <1>10, <1>13, <1>14, <1>15, <1>16 DEF OrderInv

(* Steps of requests.                                                       *)
LEMMA AnsweredOrder ==
  ASSUME OrderInv, UNCHANGED <<redis, session, storage, admission, failures>>
  PROVE  OrderInv'
<1>1. UNCHANGED <<opList, chunkList, opDoc, opHash, session, events, accepted, unguarded, failures>>
  BY DEF redis, storage, admission
<1>2. Taken' = Taken /\ InWork' = InWork /\ Done' = Done
  BY <1>1 DEF Taken, InWork, Done
<1>3. \A op : InEvent(op)' = InEvent(op)
  BY <1>1 DEF InEvent
<1>4. (QueueIsTail /\ ChunkIsNext /\ EventsFromDone)'
  BY <1>1, <1>2 DEF OrderInv, QueueIsTail, ChunkIsNext, EventsFromDone
<1>5. DoneInEvents'
  BY <1>1, <1>2 DEF OrderInv, DoneInEvents, InEvent, Undisturbed
<1>6. (AtMostOneEvent /\ EventsInOrder /\ QueuedHaveDocuments)'
  BY <1>1 DEF OrderInv, AtMostOneEvent, EventsInOrder, QueuedHaveDocuments
<1> QED BY <1>4, <1>5, <1>6 DEF OrderInv

LEMMA EnqueuedOrder ==
  ASSUME TypeOK, TypeOK', OrderInv, AcceptedOnce', NEW r \in Request, Enqueue(r)
  PROVE  OrderInv'
<1> DEFINE op == request[r].op
<1>1. /\ op \in Operation
      /\ opList' = Append(opList, op) /\ accepted' = Append(accepted, op)
      /\ opDoc' = opDoc \cup {op} /\ opHash' = opHash \cup {op}
      /\ unguarded \subseteq unguarded'
      /\ UNCHANGED <<chunkList, session, events, failures>>
  BY DEF Enqueue, Push, TypeOK, storage
<1> HIDE DEF op
<1>2. /\ opList \in Seq(Operation) /\ accepted \in Seq(Operation)
      /\ Len(opList') = Len(opList) + 1 /\ Len(accepted') = Len(accepted) + 1
      /\ \A i \in 1 .. Len(accepted) : accepted'[i] = accepted[i]
  BY <1>1 DEF TypeOK
<1>3. Taken' = Taken /\ (InWork' <=> InWork) /\ Done' = Done
  <2>1. (Len(accepted) + 1) - (Len(opList) + 1) = Len(accepted) - Len(opList)
    BY Counts
  <2>2. Taken' = Taken
    BY <1>2, <2>1 DEF Taken
  <2>3. InWork' <=> InWork
    BY <1>1 DEF InWork
  <2> QED BY <1>1, <2>2, <2>3 DEF Done
<1>4. QueueIsTail'
  <2>1. Stretch(accepted, Taken, opList) /\ Taken + Len(opList) = Len(accepted)
    BY Counts DEF OrderInv, QueueIsTail
  <2>2. Stretch(Append(accepted, op), Taken, Append(opList, op))
    BY <1>1, <1>2, <2>1, StretchAppend
  <2> QED BY <1>1, <1>3, <2>2 DEF QueueIsTail
<1>5. ChunkIsNext'
  <2>1. ASSUME NEW k, Stretch(accepted, k, session.opKeys)
        PROVE  Stretch(accepted', k, session.opKeys)
    BY <1>1, <1>2, <2>1, StretchAppend, Counts
  <2>2. Len(session.opKeys) <= Len(opList) => Len(session.opKeys) <= Len(opList')
    BY <1>2, Counts
  <2> QED BY <1>1, <1>3, <2>1, <2>2 DEF OrderInv, ChunkIsNext
<1>6. EventsFromDone' /\ AtMostOneEvent' /\ EventsInOrder'
  BY <1>1, <1>2, <1>3, Counts, NoNewEvent
<1>7. DoneInEvents'
  <2>1. \A i \in 1 .. Done : accepted'[i] = accepted[i]
    BY <1>2, Counts
  <2>2. Undisturbed' => Undisturbed
    BY <1>1 DEF Undisturbed
  <2> QED BY <1>1, <1>3, <2>1, <2>2 DEF OrderInv, DoneInEvents, InEvent
<1>8. QueuedHaveDocuments'
  BY <1>1, <1>2, AppendSet DEF OrderInv, QueuedHaveDocuments
<1> QED BY <1>4, <1>5, <1>6, <1>7, <1>8 DEF OrderInv

(* Steps of the work session that leave the queue and the events alone.     *)
LEMMA SessionOrder ==
  ASSUME TypeOK, TypeOK', OrderInv, AcceptedOnce',
         UNCHANGED <<opList, accepted, unguarded, events>>,
         ChunkIsNext', QueuedHaveDocuments', Done' \in Nat, Done <= Done',
         failures' # failures => failures' # 0, Done' = Done \/ ~Undisturbed'
  PROVE  OrderInv'
<1>1. Taken' = Taken
  BY DEF Taken
<1>2. QueueIsTail'
  BY <1>1 DEF OrderInv, QueueIsTail
<1>3. EventsFromDone' /\ AtMostOneEvent' /\ EventsInOrder'
  BY Counts, NoNewEvent
<1>4. DoneInEvents'
  BY DEF OrderInv, DoneInEvents, InEvent, Undisturbed
<1> QED BY <1>2, <1>3, <1>4 DEF OrderInv

LEMMA ChosenOrder ==
  ASSUME TypeOK, TypeOK', OrderInv, AcceptedOnce', HasNextChunk
  PROVE  OrderInv'
<1>1. /\ UNCHANGED <<opList, chunkList, opDoc, opHash, events, accepted, unguarded, failures>>
      /\ session = NewSession /\ session.pc = "idle"
      /\ session' = NewSession \/ session' = [session EXCEPT !.pc = "get", !.opKeys = NextKeys,
                                                              !.basis = Basis[opList[1]]]
  BY DEF HasNextChunk, redis, storage, admission, OrderInv, ChunkIsNext, NewSession
<1>2. Taken' = Taken /\ ~InWork /\ Done = Taken
  BY <1>1, Counts DEF Taken, InWork
<1>3. CASE session' = NewSession
  <2>1. session'.pc = "idle" /\ ~InWork'
    BY <1>3 DEF NewSession, InWork
  <2>2. ChunkIsNext'
    BY <1>3, <2>1 DEF ChunkIsNext
  <2>3. Done' = Done
    BY <1>2, <2>1 DEF Done
  <2> QED BY <1>1, <2>2, <2>3, SessionOrder, Counts DEF OrderInv, QueuedHaveDocuments
<1>4. CASE session' # NewSession
  <2>1. /\ session'.pc = "get" /\ session'.opKeys = NextKeys /\ ~session'.chunkCached
    BY <1>1, <1>4 DEF NewSession
  <2>2. ~InWork' /\ Done' = Done
    BY <1>2, <2>1 DEF InWork, Done
  <2>3. /\ Len(NextKeys) \in Nat /\ Len(NextKeys) <= Len(opList)
        /\ \A i \in 1 .. Len(NextKeys) : NextKeys[i] = opList[i]
    BY NextKeysFirst DEF TypeOK
  <2>4. Stretch(accepted, Taken, NextKeys)
    <3>1. Stretch(accepted, Taken, opList)
      BY DEF OrderInv, QueueIsTail
    <3>2. Taken \in Nat /\ Taken + Len(NextKeys) <= Len(accepted)
      BY <2>3, Counts
    <3>3. \A i \in 1 .. Len(NextKeys) : i \in 1 .. Len(opList)
      BY <2>3, Counts
    <3> QED BY <2>3, <3>1, <3>2, <3>3 DEF Stretch
  <2>5. ChunkIsNext'
    BY <1>1, <1>2, <2>1, <2>2, <2>3, <2>4 DEF ChunkIsNext
  <2> QED BY <1>1, <2>2, <2>5, SessionOrder, Counts DEF OrderInv, QueuedHaveDocuments
<1> QED BY <1>3, <1>4

LEMMA TakenOrder ==
  ASSUME TypeOK, TypeOK', OrderInv, AcceptedOnce', GetChunk
  PROVE  OrderInv'
<1> DEFINE keys == session.opKeys
           l == Len(keys)
<1>1. /\ session.pc = "get" /\ ~session.chunkCached
      /\ UNCHANGED <<opDoc, opHash, events, accepted, unguarded, failures>>
  BY DEF GetChunk, storage, admission, OrderInv, ChunkIsNext
<1>2. /\ Stretch(accepted, Taken, keys) /\ l \in Nat /\ l <= Len(opList)
      /\ ~InWork /\ Done = Taken
  BY <1>1, Counts DEF OrderInv, ChunkIsNext, InWork
<1>3. CASE dirty[WorkProcess]
  <2>1. opList' = opList /\ session' = NewSession /\ session'.pc = "idle" /\ ~InWork'
    BY <1>3 DEF GetChunk, NewSession, InWork
  <2>2. ChunkIsNext'
    BY <2>1 DEF ChunkIsNext
  <2>3. Done' = Done
    BY <1>1, <1>2, <2>1 DEF Done, Taken
  <2> QED BY <1>1, <2>1, <2>2, <2>3, SessionOrder, Counts DEF OrderInv, QueuedHaveDocuments
<1>4. CASE ~dirty[WorkProcess]
  <2>1. opList' = SubSeq(opList, l + 1, Len(opList)) /\ chunkList' = chunkList \o keys
    BY <1>1, <1>4 DEF GetChunk, Remaining
  <2>2. /\ Len(opList') = Len(opList) - l /\ Stretch(accepted, Taken + l, opList')
        /\ ToSet(opList') \subseteq ToSet(opList)
    BY <1>2, <2>1, StretchRest DEF OrderInv, QueueIsTail, TypeOK
  <2>3. ToSet(keys) \subseteq ToSet(opList)
    <3> SUFFICES ASSUME NEW i \in 1 .. l PROVE keys[i] \in ToSet(opList)
      BY Counts DEF ToSet
    <3>1. keys[i] = accepted[Taken + i] /\ opList[i] = accepted[Taken + i] /\ i \in 1 .. Len(opList)
      BY <1>2, Counts DEF OrderInv, QueueIsTail, Stretch
    <3> QED BY <3>1 DEF ToSet, TypeOK
  <2>4. Taken' = Taken + l
    BY <1>1, <1>2, <2>2, Counts DEF Taken
  <2>5. QueueIsTail' /\ QueuedHaveDocuments'
    BY <1>1, <2>2, <2>4 DEF OrderInv, QueueIsTail, QueuedHaveDocuments
  <2>6. CASE ToSet(keys) \subseteq opDoc
    <3>1. session' = [session EXCEPT !.pc = "write"]
      BY <1>4, <2>6 DEF GetChunk
    <3>2. session'.pc = "write" /\ session'.opKeys = keys /\ ~session'.chunkCached /\ InWork'
      BY <1>1, <3>1 DEF TypeOK, InWork
    <3>3. Done' = Done
      <4>1. Done' = Taken' - l
        BY <3>2 DEF Done
      <4> QED BY <1>2, <2>4, <4>1, Counts
    <3>4. ToSet(keys) \subseteq ToSet(chunkList')
      <4>1. chunkList \in Seq(Operation) /\ keys \in Seq(Operation)
        BY Counts DEF TypeOK
      <4> QED BY <2>1, <4>1, ConcatHolds
    <3> HIDE DEF keys, l
    <3>5. Taken' - Len(session'.opKeys) = Taken
      BY <1>2, <2>4, <3>2, Counts DEF l
    <3>6. ChunkIsNext'
      BY <1>1, <1>2, <3>2, <3>4, <3>5 DEF ChunkIsNext
    <3>7. EventsFromDone' /\ AtMostOneEvent' /\ EventsInOrder'
      BY <1>1, <3>3, Counts, NoNewEvent
    <3>8. DoneInEvents'
      BY <1>1, <3>3 DEF OrderInv, DoneInEvents, InEvent, Undisturbed
    <3> QED BY <2>5, <3>6, <3>7, <3>8 DEF OrderInv
  <2>7. CASE ~(ToSet(keys) \subseteq opDoc)
    <3>1. session' = NewSession /\ session'.pc = "idle" /\ ~InWork'
      BY <2>7 DEF GetChunk, NewSession, InWork
    <3>2. Done' \in Nat /\ Done <= Done'
      <4>1. Done' = Taken'
        BY <3>1 DEF Done
      <4> HIDE DEF l
      <4> QED BY <1>2, <2>4, <4>1, Counts
    <3>3. unguarded # {}
      BY <2>3, <2>7 DEF OrderInv, QueuedHaveDocuments
    <3>4. ChunkIsNext'
      BY <3>1 DEF ChunkIsNext
    <3>5. EventsFromDone' /\ AtMostOneEvent' /\ EventsInOrder'
      BY <1>1, <3>2, Counts, NoNewEvent
    <3>6. DoneInEvents'
      BY <1>1, <3>3 DEF DoneInEvents, Undisturbed
    <3> QED BY <2>5, <3>4, <3>5, <3>6 DEF OrderInv
  <2> QED BY <2>6, <2>7
<1> QED BY <1>3, <1>4

LEMMA WrittenOrder ==
  ASSUME TypeOK, TypeOK', OrderInv, AcceptedOnce', WriteOperations
  PROVE  OrderInv'
<1>1. /\ session.pc = "write" /\ session'.pc = "add"
      /\ session'.opKeys = session.opKeys /\ session'.chunkCached = session.chunkCached
      /\ UNCHANGED <<opList, chunkList, opDoc, opHash, events, accepted, unguarded, failures>>
  BY DEF WriteOperations, redis, admission, TypeOK
<1>2. Taken' = Taken /\ InWork /\ InWork' /\ Done' = Done
  BY <1>1 DEF Taken, InWork, Done
<1>3. ChunkIsNext' /\ QueuedHaveDocuments'
  BY <1>1, <1>2 DEF OrderInv, ChunkIsNext, QueuedHaveDocuments
<1> QED BY <1>1, <1>2, <1>3, SessionOrder, Counts

LEMMA PoppedOrder ==
  ASSUME TypeOK, TypeOK', OrderInv, AcceptedOnce', PopChunk
  PROVE  OrderInv'
<1> DEFINE keys == session.opKeys
<1>1. /\ session.pc = "pop" /\ session' = NewSession /\ session'.pc = "idle"
      /\ UNCHANGED <<opList, events, accepted, unguarded, failures>>
      /\ opDoc \ ToSet(keys) \subseteq opDoc' /\ opHash \ ToSet(keys) \subseteq opHash'
  BY DEF PopChunk, redis, storage, admission, NewSession
<1>2. Taken' = Taken /\ ~InWork /\ ~InWork' /\ Done' = Done
  BY <1>1 DEF Taken, InWork, Done
<1>3. Stretch(accepted, Taken - Len(keys), keys)
  BY <1>1 DEF OrderInv, ChunkIsNext
<1>4. ToSet(keys) \cap ToSet(opList) \subseteq unguarded
  <2>1. keys \in Seq(Operation) /\ opList \in Seq(Operation)
    BY Counts DEF TypeOK
  <2> HIDE DEF keys
  <2>2. ASSUME NEW i \in 1 .. Len(keys), NEW j \in 1 .. Len(opList), keys[i] = opList[j],
               keys[i] \notin unguarded
        PROVE  FALSE
    <3>1. /\ Len(keys) \in Nat /\ Len(opList) \in Nat /\ Len(accepted) \in Nat
          /\ Taken \in Nat /\ Taken - Len(keys) \in Nat /\ Taken + Len(opList) = Len(accepted)
          /\ DOMAIN accepted = 1 .. Len(accepted)
      BY <1>3, <2>1, Counts DEF Stretch
    <3>2. Taken - Len(keys) + i \in 1 .. Len(accepted) /\ Taken + j \in 1 .. Len(accepted)
      BY <3>1
    <3>3. /\ accepted[Taken - Len(keys) + i] = accepted[Taken + j]
          /\ accepted[Taken - Len(keys) + i] \notin unguarded
      BY <1>3, <2>2 DEF Stretch, OrderInv, QueueIsTail
    <3>4. Taken - Len(keys) + i = Taken + j
      BY <1>1, <3>1, <3>2, <3>3 DEF AcceptedOnce
    <3> QED BY <3>1, <3>4
  <2> QED BY <2>1, <2>2 DEF ToSet
<1>5. QueuedHaveDocuments'
  BY <1>1, <1>4 DEF OrderInv, QueuedHaveDocuments
<1>6. ChunkIsNext'
  BY <1>1, <1>2 DEF ChunkIsNext
<1> QED BY <1>1, <1>2, <1>5, <1>6, SessionOrder, Counts

LEMMA FailedOrder ==
  ASSUME TypeOK, TypeOK', OrderInv, AcceptedOnce', Fail
  PROVE  OrderInv'
<1>1. /\ session' = NewSession /\ session'.pc = "idle" /\ failures' # 0
      /\ UNCHANGED <<opList, chunkList, opDoc, opHash, events, accepted, unguarded>>
  BY DEF Fail, redis, storage, admission, NewSession, TypeOK
<1>2. ~InWork' /\ Done' = Taken /\ Taken' = Taken
  BY <1>1 DEF Taken, InWork, Done
<1>3. ChunkIsNext'
  BY <1>1, <1>2 DEF ChunkIsNext
<1>4. QueuedHaveDocuments' /\ ~Undisturbed'
  BY <1>1 DEF OrderInv, QueuedHaveDocuments, Undisturbed
<1> QED BY <1>1, <1>2, <1>3, <1>4, SessionOrder, Counts

LEMMA StepOrderInv ==
  ASSUME AcceptInv, OrderInv, [Next]_vars
  PROVE  OrderInv'
<1>1. TypeOK /\ TypeOK' /\ AcceptedOnce /\ AcceptedOnce'
  BY StepTypeOK, StepAcceptInv DEF AcceptInv
<1>2. ASSUME NEW r \in Request, Add(r)
      PROVE  OrderInv'
  <2>1. CASE Enqueue(r)
    BY <1>1, <2>1, EnqueuedOrder
  <2>2. CASE ~Enqueue(r)
    <3>1. UNCHANGED <<redis, session, storage, admission, failures>>
      BY <1>2, <2>2 DEF Add, Watch, Exists, RejectQueued, CheckDatabase, CheckQueueSize,
                        RejectWatched
    <3> QED BY <3>1, AnsweredOrder
  <2> QED BY <2>1, <2>2
<1>3. CASE HasNextChunk
  BY <1>1, <1>3, ChosenOrder
<1>4. CASE GetChunk
  BY <1>1, <1>4, TakenOrder
<1>5. CASE WriteOperations
  BY <1>1, <1>5, WrittenOrder
<1>6. CASE AddEvent
  BY <1>1, <1>6, NewEvent
<1>7. CASE PopChunk
  BY <1>1, <1>7, PoppedOrder
<1>8. CASE Fail
  BY <1>1, <1>8, FailedOrder
<1>9. CASE CountPeerOperations \/ UNCHANGED vars
  <2>1. UNCHANGED <<redis, session, storage, admission, failures>>
    BY <1>9 DEF CountPeerOperations, vars
  <2> QED BY <2>1, AnsweredOrder
<1> QED BY <1>2, <1>3, <1>4, <1>5, <1>6, <1>7, <1>8, <1>9 DEF Next, Work

LEMMA OrderKept == Spec => [](TypeOK /\ OrderInv)
<1>1. AcceptInv => TypeOK
  BY DEF AcceptInv
<1> QED BY <1>1, InitAcceptInv, StepAcceptInv, InitOrderInv, StepOrderInv, PTL DEF Spec

(* No operation but one that an exposed request has added is put in two     *)
(* events or twice in one, whichever steps of event creation fail.          *)
THEOREM EventsApart == Spec => []AtMostOneEvent
<1>1. OrderInv => AtMostOneEvent
  BY DEF OrderInv
<1> QED BY <1>1, OrderKept, PTL

(* Events hold the other operations in the order of their acceptance.       *)
THEOREM KeepsOrder == Spec => []EventsInOrder
<1>1. OrderInv => EventsInOrder
  BY DEF OrderInv
<1> QED BY <1>1, OrderKept, PTL

(* Their documents are there when their chunk is taken.                     *)
THEOREM FindsDocuments == Spec => []QueuedHaveDocuments
<1>1. OrderInv => QueuedHaveDocuments
  BY DEF OrderInv
<1> QED BY <1>1, OrderKept, PTL

(* Unless a session fails or an exposed request adds an operation, what has *)
(* been accepted is in the queue, in the chunk in work or in an event.      *)
THEOREM NothingGoesMissing == Spec => []AccountedFor
<1>1. TypeOK /\ OrderInv => AccountedFor
  <2> SUFFICES ASSUME TypeOK, OrderInv, Undisturbed, NEW op \in ToSet(accepted)
               PROVE  Queued(op) \/ InEvent(op)
    BY DEF AccountedFor
  <2> DEFINE keys == session.opKeys
  <2>1. PICK i \in 1 .. Len(accepted) : accepted[i] = op
    BY Counts DEF ToSet
  <2>2. CASE i <= Done
    <3>1. i \in 1 .. Done
      BY <2>1, <2>2, Counts
    <3> QED BY <2>1, <3>1 DEF OrderInv, DoneInEvents
  <2>3. CASE Done < i /\ i <= Taken
    <3>1. /\ InWork /\ Done + Len(keys) = Taken /\ Done \in Nat /\ Len(keys) \in Nat
          /\ keys \in Seq(Operation)
      BY <2>1, <2>3, Counts
    <3>2. Stretch(accepted, Done, keys) /\ ToSet(keys) \subseteq ToSet(chunkList)
      BY <3>1 DEF OrderInv, ChunkIsNext, InWork, Done
    <3> HIDE DEF keys
    <3>3. i - Done \in 1 .. Len(keys) /\ Done + (i - Done) = i
      BY <2>1, <2>3, <3>1, Counts
    <3>4. keys[i - Done] = op
      BY <2>1, <3>2, <3>3 DEF Stretch
    <3>5. op \in ToSet(keys)
      BY <3>1, <3>3, <3>4 DEF ToSet
    <3> QED BY <3>2, <3>5 DEF Queued
  <2>4. CASE Taken < i
    <3> DEFINE n == i - Taken
    <3>1. /\ i \in Nat /\ Taken \in Nat /\ Len(opList) \in Nat
          /\ Taken + Len(opList) = Len(accepted) /\ i <= Len(accepted)
      BY <2>1, Counts
    <3> HIDE DEF keys
    <3>2. n \in 1 .. Len(opList) /\ Taken + n = i
      <4> HIDE DEF Taken
      <4> QED BY <2>4, <3>1
    <3> HIDE DEF n
    <3>3. opList[n] = op
      BY <2>1, <3>2 DEF OrderInv, QueueIsTail, Stretch
    <3>4. op \in ToSet(opList)
      BY <3>2, <3>3 DEF ToSet, TypeOK
    <3> QED BY <3>4 DEF Queued
  <2> QED BY <2>1, <2>2, <2>3, <2>4, Counts
<1> QED BY <1>1, OrderKept, PTL

(* Only accepted operations are marked as queued.                           *)
MarkedAccepted == opHash \subseteq ToSet(accepted)

LEMMA StepMarked ==
  ASSUME TypeOK, MarkedAccepted, [Next]_vars
  PROVE  MarkedAccepted'
<1>1. CASE UNCHANGED <<opHash, accepted>>
  BY <1>1 DEF MarkedAccepted
<1>2. ASSUME NEW r \in Request, Enqueue(r)
      PROVE  MarkedAccepted'
  <2> DEFINE op == request[r].op
  <2>1. /\ opHash' = opHash \cup {op} /\ accepted' = Append(accepted, op)
        /\ request[r].pc = "exec"
    BY <1>2 DEF Enqueue, Push
  <2>2. accepted \in Seq(Operation) /\ op \in Operation
    BY <2>1 DEF TypeOK
  <2> HIDE DEF op
  <2>3. /\ Len(accepted') = Len(accepted) + 1 /\ Len(accepted) \in Nat
        /\ \A i \in 1 .. Len(accepted) : accepted'[i] = accepted[i]
        /\ accepted'[Len(accepted) + 1] = op
    BY <2>1, <2>2
  <2>4. ToSet(accepted) \cup {op} \subseteq ToSet(accepted')
    <3>1. DOMAIN accepted = 1 .. Len(accepted) /\ DOMAIN accepted' = 1 .. Len(accepted')
      BY <2>1, <2>2
    <3> QED BY <2>3, <3>1 DEF ToSet
  <2> QED BY <2>1, <2>4 DEF MarkedAccepted
<1>3. ASSUME Work PROVE opHash' \subseteq opHash /\ accepted' = accepted
  BY <1>3 DEF Work, HasNextChunk, GetChunk, WriteOperations, AddEvent, PopChunk, redis, admission
<1>4. CASE Work
  BY <1>3, <1>4 DEF MarkedAccepted
<1>5. ASSUME NEW r \in Request, Add(r), ~Enqueue(r)
      PROVE  UNCHANGED <<opHash, accepted>>
  BY <1>5 DEF Add, Watch, Exists, RejectQueued, CheckDatabase, CheckQueueSize, RejectWatched, redis,
              admission
<1>6. ASSUME CountPeerOperations \/ Fail \/ UNCHANGED vars PROVE UNCHANGED <<opHash, accepted>>
  BY <1>6 DEF CountPeerOperations, Fail, vars, redis, admission
<1> QED BY <1>1, <1>2, <1>4, <1>5, <1>6 DEF Next

(* Under the same condition the mark that has an operation refused as       *)
(* queued tells the truth: it is on its way to an event or in one.          *)
THEOREM OnlyFailuresLose == Spec => [](Undisturbed => NoOperationLost)
<1>1. Init => MarkedAccepted
  BY DEF Init, MarkedAccepted
<1>2. MarkedAccepted /\ AccountedFor => (Undisturbed => NoOperationLost)
  BY DEF MarkedAccepted, AccountedFor, NoOperationLost
<1>3. Spec => []TypeOK
  BY TypeCorrect
<1>4. Spec => []MarkedAccepted
  BY <1>1, <1>3, StepMarked, PTL DEF Spec
<1> QED BY <1>2, <1>4, NothingGoesMissing, PTL
-----------------------------------------------------------------------------
(* The queue implements the pipeline.                                       *)

(* A chunk fits in an event and its operations have the same basis.         *)
ChunkFits ==
  session.pc # "idle" =>
    /\ Len(session.opKeys) \in 1 .. MaxOperations
    /\ \A i \in 1 .. Len(session.opKeys) : Basis[session.opKeys[i]] = Basis[session.opKeys[1]]

(* A set of the first numbers, as many as it has elements.                  *)
LEMMA FirstNumbers ==
  ASSUME NEW m \in Nat, NEW same \in SUBSET (1 .. m), 1 \in same,
         \A n \in same : \A i \in 1 .. n : i \in same
  PROVE  /\ Cardinality(same) \in Nat /\ Cardinality(same) > 0
         /\ Cardinality(same) <= m /\ Cardinality(same) \in same
<1> DEFINE c == Cardinality(same)
<1>1. /\ IsFiniteSet(1 .. m) /\ Cardinality(1 .. m) = m
  <2>1. /\ IsFiniteSet(1 .. m) /\ Cardinality(1 .. m) = IF 1 > m THEN 0 ELSE m - 1 + 1
    BY FS_Interval
  <2> QED BY <2>1
<1>2. IsFiniteSet(same) /\ c <= m /\ c \in Nat
  BY <1>1, FS_Subset, FS_CardinalityType
<1>3. c # 0
  BY <1>2, FS_EmptySet
<1>4. ASSUME c \notin same PROVE FALSE
  <2>1. same \in SUBSET (1 .. c - 1)
    <3> SUFFICES ASSUME NEW n \in same PROVE n \in 1 .. c - 1
      OBVIOUS
    <3>1. n \in Nat /\ n >= 1
      OBVIOUS
    <3>2. CASE c <= n
      <4>1. c \in 1 .. n
        BY <1>2, <1>3, <3>1, <3>2
      <4> QED BY <1>4, <4>1
    <3>3. CASE ~(c <= n)
      <4> HIDE DEF c
      <4> QED BY <1>2, <3>1, <3>3
    <3> QED BY <3>2, <3>3
  <2> HIDE DEF c
  <2>2. IsFiniteSet(1 .. c - 1) /\ Cardinality(1 .. c - 1) = c - 1
    <3>1. c - 1 \in Int
      BY <1>2
    <3>2. IsFiniteSet(1 .. c - 1) /\ Cardinality(1 .. c - 1) = IF 1 > c - 1 THEN 0 ELSE c - 1 - 1 + 1
      BY <3>1, FS_Interval
    <3> QED BY <1>2, <1>3, <3>2
  <2>3. Cardinality(same) <= Cardinality(1 .. c - 1)
    BY <2>1, <2>2, FS_Subset
  <2>4. c <= c - 1
    BY <2>2, <2>3 DEF c
  <2> QED BY <1>2, <2>4
<1> HIDE DEF c
<1>5. c > 0 /\ c <= m /\ c \in Nat /\ c \in same
  BY <1>2, <1>3, <1>4
<1> QED BY <1>5 DEF c

LEMMA NextKeysFit ==
  ASSUME opList \in Seq(Operation), opList # << >>
  PROVE  /\ Len(NextKeys) \in 1 .. MaxOperations
         /\ \A i \in 1 .. Len(NextKeys) : Basis[NextKeys[i]] = Basis[NextKeys[1]]
<1> DEFINE m == IF Len(opList) < MaxOperations THEN Len(opList) ELSE MaxOperations
           next == SubSeq(opList, 1, m)
           same == {n \in 1 .. Len(next) :
                      \A i \in 1 .. n : Basis[next[i]] = Basis[next[1]]}
<1>1. m \in Nat /\ m >= 1 /\ m <= Len(opList) /\ m <= MaxOperations
  BY OperationsAssumption
<1>2. \A i \in 1 .. m : opList[i] \in Operation
  BY <1>1
<1>3. Len(next) = m
  <2> HIDE DEF m
  <2>1. Len(next) = IF 1 <= m THEN m - 1 + 1 ELSE 0
    BY <1>1, <1>2, SubSeqProperties
  <2> QED BY <1>1, <2>1
<1> HIDE DEF m, next
<1>4. same \in SUBSET (1 .. m) /\ 1 \in same
  BY <1>1, <1>3
<1>5. \A n \in same : \A i \in 1 .. n : i \in same
  <2> SUFFICES ASSUME NEW n \in same, NEW i \in 1 .. n PROVE i \in same
    OBVIOUS
  <2>1. i \in 1 .. Len(next) /\ \A j \in 1 .. i : j \in 1 .. n
    BY <1>1, <1>3
  <2> QED BY <2>1
<1>6. \A n \in same : \A i \in 1 .. n : Basis[next[i]] = Basis[next[1]]
  OBVIOUS
<1> HIDE DEF same
<1> DEFINE c == Cardinality(same)
<1>7. c \in Nat /\ c > 0 /\ c <= m /\ c \in same
  BY <1>1, <1>4, <1>5, FirstNumbers
<1> HIDE DEF c
<1>8. \A i \in 1 .. c : next[i] \in Operation
  <2>1. \A i \in 1 .. m : next[i] = opList[i]
    <3>1. \A i \in 1 .. m - 1 + 1 : next[i] = opList[1 + i - 1]
      BY <1>1, <1>2, SubSeqProperties DEF next
    <3> QED BY <1>1, <3>1
  <2> QED BY <1>1, <1>2, <1>7, <2>1
<1>9. /\ Len(SubSeq(next, 1, c)) = IF 1 <= c THEN c - 1 + 1 ELSE 0
      /\ \A i \in 1 .. c - 1 + 1 : SubSeq(next, 1, c)[i] = next[1 + i - 1]
  BY <1>7, <1>8, SubSeqProperties
<1>10. /\ Len(SubSeq(next, 1, c)) = c
       /\ \A i \in 1 .. c : SubSeq(next, 1, c)[i] = next[i]
  BY <1>7, <1>9
<1>11. NextKeys = SubSeq(next, 1, c)
  BY DEF NextKeys, c, same, next, m
<1>12. c \in 1 .. MaxOperations /\ 1 \in 1 .. c
  BY <1>1, <1>7, OperationsAssumption
<1>13. \A i \in 1 .. c : Basis[next[i]] = Basis[next[1]]
  BY <1>6, <1>7
<1> QED BY <1>10, <1>11, <1>12, <1>13

LEMMA StepChunkFits ==
  ASSUME TypeOK, OrderInv, ChunkFits, [Next]_vars
  PROVE  ChunkFits'
<1>1. CASE session' = NewSession
  <2>1. session'.pc = "idle"
    BY <1>1 DEF NewSession
  <2> QED BY <2>1 DEF ChunkFits
<1>2. CASE session' = session
  BY <1>2 DEF ChunkFits
<1>3. CASE session.pc # "idle" /\ session'.opKeys = session.opKeys
  BY <1>3 DEF ChunkFits
<1>4. CASE HasNextChunk
  <2>1. /\ session = NewSession
        /\ session' # NewSession => /\ opList # << >>
                                    /\ session' = [session EXCEPT !.pc = "get", !.opKeys = NextKeys,
                                                                  !.basis = Basis[opList[1]]]
    BY <1>4 DEF HasNextChunk, OrderInv, ChunkIsNext, NewSession
  <2>2. ASSUME session' # NewSession PROVE ChunkFits'
    <3>1. session'.opKeys = NextKeys /\ opList # << >> /\ opList \in Seq(Operation)
      BY <2>1, <2>2 DEF TypeOK
    <3> QED BY <3>1, NextKeysFit DEF ChunkFits
  <2> QED BY <1>1, <2>2
<1>5. CASE GetChunk \/ WriteOperations \/ AddEvent
  <2>1. session' = NewSession \/ (session.pc # "idle" /\ session'.opKeys = session.opKeys)
    BY <1>5 DEF GetChunk, WriteOperations, AddEvent, TypeOK
  <2> QED BY <1>1, <1>3, <2>1
<1>6. CASE (\E r \in Request : Add(r)) \/ CountPeerOperations \/ UNCHANGED vars
  <2>1. session' = session
    BY <1>6 DEF vars, CountPeerOperations, Add, Watch, Exists, RejectQueued, CheckDatabase, CheckQueueSize,
                Enqueue, RejectWatched
  <2> QED BY <1>2, <2>1
<1>7. CASE PopChunk \/ Fail
  BY <1>1, <1>7 DEF PopChunk, Fail
<1> QED BY <1>4, <1>5, <1>6, <1>7 DEF Next, Work

(* The chunk in work is the one whose turn it is.                           *)
LEMMA ChunkAhead ==
  ASSUME TypeOK, OrderInv, ChunkFits, InWork
  PROVE  /\ Len(session.opKeys) \in 1 .. MaxOperations
         /\ Done + Len(session.opKeys) = Taken
         /\ Abstract!Oldest(Len(session.opKeys)) = session.opKeys
         /\ Abstract!Chunk(Len(session.opKeys))
<1> DEFINE keys == session.opKeys
           n == Len(keys)
<1>1. /\ keys \in Seq(Operation) /\ n \in 1 .. MaxOperations
      /\ \A i \in 1 .. n : Basis[keys[i]] = Basis[keys[1]]
  BY Counts DEF ChunkFits, InWork
<1>2. Done + n = Taken /\ Done \in Nat /\ Done + n <= Len(accepted) /\ accepted \in Seq(Operation)
  BY Counts DEF TypeOK
<1>3. \A i \in 1 .. n : keys[i] = accepted[Done + i]
  <2>1. Stretch(accepted, Taken - Len(session.opKeys), session.opKeys)
    BY DEF OrderInv, ChunkIsNext, InWork
  <2> QED BY <2>1 DEF Stretch, Done
<1>4. n \in Nat /\ n >= 1 /\ MaxOperations \in Nat
  BY <1>1, OperationsAssumption
<1> HIDE DEF keys, n
<1>5. SubSeq(accepted, Done + 1, Done + n) = keys
  <2> DEFINE first == Done + 1
             last == Done + n
             sub == SubSeq(accepted, first, last)
  <2>1. first \in Int /\ last \in Int
    BY <1>2, <1>4
  <2>2. \A i \in first .. last : accepted[i] \in Operation
    BY <1>2, <1>4
  <2> HIDE DEF first, last
  <2>3. /\ sub \in Seq(Operation)
        /\ Len(sub) = IF first <= last THEN last - first + 1 ELSE 0
        /\ \A i \in 1 .. last - first + 1 : sub[i] = accepted[first + i - 1]
    BY <2>1, <2>2, SubSeqProperties
  <2> HIDE DEF sub
  <2>4. Len(sub) = n /\ \A i \in 1 .. n : sub[i] = accepted[Done + i]
    BY <1>2, <1>4, <2>3 DEF first, last
  <2>5. Len(sub) = Len(keys) /\ \A i \in 1 .. Len(sub) : sub[i] = keys[i]
    BY <1>3, <2>4 DEF n
  <2>6. sub = keys
    BY <1>1, <2>3, <2>5, SeqEqual
  <2> QED BY <2>6 DEF sub, first, last
<1>6. \A op \in ToSet(keys) : Basis[op] = Basis[accepted[Done + 1]]
  <2>1. keys[1] = accepted[Done + 1]
    BY <1>3, <1>4
  <2>2. DOMAIN keys = 1 .. n
    BY <1>1 DEF n
  <2> QED BY <1>1, <2>1, <2>2 DEF ToSet
<1>7. Abstract!Oldest(n) = keys
  BY <1>5 DEF Abstract!Oldest
<1>8. Abstract!Chunk(n)
  BY <1>2, <1>6, <1>7 DEF Abstract!Chunk, ToSet, Abstract!ToSet
<1> QED BY <1>1, <1>2, <1>7, <1>8 DEF keys, n

(* A step of the queue that changes nothing of the pipeline.                *)
Hidden == UNCHANGED <<accepted, written, events, failures>> /\ Done' = Done

LEMMA SameDone ==
  ASSUME UNCHANGED <<opList, accepted, written, events, failures>>,
         session' = session \/ (~InWork /\ ~InWork')
  PROVE  Hidden
<1>1. Taken' = Taken
  BY DEF Taken
<1>2. Done' = Done
  BY <1>1 DEF Done, InWork
<1> QED BY <1>2 DEF Hidden

LEMMA StepHidden ==
  ASSUME Hidden
  PROVE  UNCHANGED Abstract!pipeline
BY DEF Hidden, Abstract!pipeline

LEMMA StepPasses ==
  ASSUME AcceptInv, AcceptInv', OrderInv, OrderInv', ChunkFits, [Next]_vars
  PROVE  [unguarded' = {} => Abstract!Step]_(Abstract!pipeline)
<1> SUFFICES ASSUME unguarded' = {}
             PROVE  [Abstract!Step]_(Abstract!pipeline)
  OBVIOUS
<1> DEFINE keys == session.opKeys
           n == Len(keys)
<1>1. TypeOK /\ TypeOK' /\ AcceptedOnce'
  BY DEF AcceptInv
<1>2. ASSUME NEW r \in Request, Enqueue(r) PROVE Abstract!Step
  <2>1. /\ request[r].op \in Operation
        /\ accepted' = Append(accepted, request[r].op) /\ opList' = Append(opList, request[r].op)
        /\ UNCHANGED <<session, written, events, failures>>
    BY <1>1, <1>2 DEF Enqueue, Push, storage, TypeOK
  <2>2. Taken' = Taken
    <3>1. Len(accepted') = Len(accepted) + 1 /\ Len(opList') = Len(opList) + 1
      BY <1>1, <2>1 DEF TypeOK
    <3>2. (Len(accepted) + 1) - (Len(opList) + 1) = Len(accepted) - Len(opList)
      BY <1>1, Counts
    <3> QED BY <3>1, <3>2 DEF Taken
  <2>3. Done' = Done
    BY <2>1, <2>2 DEF Done, InWork
  <2>4. request[r].op \notin ToSet(accepted)
    <3> SUFFICES ASSUME request[r].op \in ToSet(accepted) PROVE FALSE
      OBVIOUS
    <3>1. PICK i \in DOMAIN accepted : accepted[i] = request[r].op
      BY DEF ToSet
    <3>2. accepted \in Seq(Operation) /\ request[r].op \in Operation
      BY <1>1, <2>1 DEF TypeOK
    <3>3. /\ Len(accepted) + 1 \in DOMAIN accepted' /\ i \in DOMAIN accepted'
          /\ accepted'[Len(accepted) + 1] = request[r].op /\ accepted'[i] = request[r].op
          /\ i # Len(accepted) + 1
      BY <2>1, <3>1, <3>2
    <3> QED BY <1>1, <3>3 DEF AcceptedOnce
  <2>5. Abstract!Accept(request[r].op)
    BY <2>1, <2>3, <2>4 DEF Abstract!Accept, ToSet, Abstract!ToSet
  <2> QED BY <2>1, <2>5 DEF Abstract!Step
<1>3. ASSUME NEW r \in Request, Add(r), ~Enqueue(r) PROVE Hidden
  BY <1>3 DEF Add, Watch, Exists, RejectQueued, CheckDatabase, CheckQueueSize, RejectWatched,
              redis, storage, admission, Hidden, Done, Taken, InWork
<1>4. ASSUME CountPeerOperations \/ UNCHANGED vars PROVE Hidden
  BY <1>4, SameDone DEF CountPeerOperations, vars, redis, storage, admission
<1>5. ASSUME HasNextChunk PROVE Hidden
  <2>1. session.pc = "idle"
    BY <1>5 DEF HasNextChunk
  <2>2. session'.pc \in {"idle", "get"}
    <3>1. NewSession.pc = "idle"
      BY DEF NewSession
    <3>2. \/ session' = [session EXCEPT !.pc = "get", !.opKeys = chunkList, !.chunkCached = TRUE]
          \/ session' = NewSession
          \/ session' = [session EXCEPT !.pc = "get", !.opKeys = NextKeys, !.basis = Basis[opList[1]]]
      BY <1>5 DEF HasNextChunk
    <3> QED BY <1>1, <3>1, <3>2 DEF TypeOK
  <2>3. ~InWork /\ ~InWork'
    BY <2>1, <2>2 DEF InWork
  <2> QED BY <1>5, <2>3, SameDone DEF HasNextChunk, redis, storage, admission
<1>6. ASSUME GetChunk PROVE Hidden
  <2>1. /\ session.pc = "get" /\ ~session.chunkCached /\ ~InWork
        /\ UNCHANGED <<accepted, unguarded, written, events, failures>>
    BY <1>6 DEF GetChunk, storage, admission, OrderInv, ChunkIsNext, InWork
  <2>2. CASE dirty[WorkProcess]
    <3>1. session' = NewSession /\ opList' = opList /\ NewSession.pc = "idle"
      BY <1>6, <2>2 DEF GetChunk, NewSession
    <3>2. ~InWork'
      BY <3>1 DEF InWork
    <3> QED BY <2>1, <3>1, <3>2, SameDone
  <2>3. CASE ~dirty[WorkProcess] /\ session' # NewSession
    <3>1. session'.pc = "write" /\ session'.opKeys = keys /\ opList' = Remaining(keys)
      BY <1>1, <1>6, <2>1, <2>3 DEF GetChunk, TypeOK
    <3>2. n \in Nat /\ Len(opList) \in Nat /\ opList \in Seq(Operation) /\ n <= Len(opList)
          /\ Stretch(accepted, Taken, opList) /\ Len(accepted) \in Nat
          /\ accepted \in Seq(Operation)
      BY <1>1, <2>1, Counts DEF OrderInv, ChunkIsNext, QueueIsTail, TypeOK
    <3>3. Len(opList') = Len(opList) - n
      <4> HIDE DEF n
      <4>1. opList' = SubSeq(opList, n + 1, Len(opList))
        BY <3>1 DEF Remaining, n
      <4> QED BY <3>2, <4>1, StretchRest
    <3>4. Taken' - n = Taken
      <4> HIDE DEF n
      <4> QED BY <2>1, <3>2, <3>3 DEF Taken
    <3>5. InWork' /\ Done' = Taken' - n
      BY <3>1 DEF InWork, Done
    <3>6. Done = Taken
      BY <2>1 DEF Done
    <3> QED BY <2>1, <3>4, <3>5, <3>6 DEF Hidden
  <2>4. CASE ~dirty[WorkProcess] /\ session' = NewSession
    <3>1. ~(ToSet(keys) \subseteq opDoc)
      BY <1>6, <2>4 DEF GetChunk, NewSession
    <3>2. ToSet(keys) \subseteq ToSet(opList)
      <4> SUFFICES ASSUME NEW i \in 1 .. n PROVE keys[i] \in ToSet(opList)
        BY <1>1, Counts DEF ToSet
      <4>1. keys[i] = opList[i] /\ i \in 1 .. Len(opList)
        BY <1>1, <2>1, Counts DEF OrderInv, ChunkIsNext, QueueIsTail, Stretch
      <4> QED BY <1>1, <4>1 DEF ToSet, TypeOK
    <3> QED BY <2>1, <3>1, <3>2 DEF OrderInv, QueuedHaveDocuments
  <2> QED BY <2>2, <2>3, <2>4
<1>7. CASE WriteOperations
  <2>1. /\ InWork /\ InWork' /\ session'.opKeys = keys /\ written' = written \cup ToSet(keys)
        /\ UNCHANGED <<accepted, opList, events, failures>>
    BY <1>1, <1>7 DEF WriteOperations, redis, admission, TypeOK, InWork
  <2>2. Done' = Done
    BY <2>1 DEF Done, Taken
  <2>3. Abstract!Store(n)
    BY <1>1, <2>1, <2>2, ChunkAhead DEF Abstract!Store, ToSet, Abstract!ToSet
  <2>4. n \in 1 .. MaxOperations
    BY <1>1, <2>1, ChunkAhead
  <2> QED BY <2>3, <2>4 DEF Abstract!Step
<1>8. CASE AddEvent
  <2>1. /\ InWork /\ ~InWork' /\ events' = Append(events, keys) /\ session.pc = "add"
        /\ UNCHANGED <<accepted, opList, written, failures>>
    BY <1>1, <1>8 DEF AddEvent, redis, admission, TypeOK, InWork
  <2>2. Done' = Done + n
    <3>1. Done' = Taken
      BY <2>1 DEF Done, Taken
    <3> QED BY <1>1, <2>1, <3>1, ChunkAhead
  <2>3. ToSet(keys) \subseteq written
    BY <2>1 DEF AcceptInv, WrittenFirst
  <2>4. Abstract!Deliver(n)
    BY <1>1, <2>1, <2>2, <2>3, ChunkAhead DEF Abstract!Deliver, ToSet, Abstract!ToSet
  <2>5. n \in 1 .. MaxOperations
    BY <1>1, <2>1, ChunkAhead
  <2> QED BY <2>4, <2>5 DEF Abstract!Step
<1>9. ASSUME PopChunk PROVE Hidden
  <2>1. session.pc = "pop" /\ session'.pc = "idle" /\ opList' = opList
    BY <1>9 DEF PopChunk, NewSession, redis
  <2>2. ~InWork /\ ~InWork'
    BY <2>1 DEF InWork
  <2> QED BY <1>9, <2>1, <2>2, SameDone DEF PopChunk, storage, admission
<1>10. CASE Fail
  <2>1. /\ session'.pc = "idle" /\ failures' = failures + 1
        /\ UNCHANGED <<accepted, opList, written, events>>
    BY <1>10 DEF Fail, NewSession, redis, storage, admission
  <2>2. ~InWork' /\ Done' = Taken /\ Done \in Nat /\ MaxOperations \in Nat
    BY <1>1, <2>1, Counts, OperationsAssumption DEF Done, Taken, InWork
  <2>3. CASE InWork
    <3>1. Abstract!Fail(n)
      BY <1>1, <2>1, <2>2, <2>3, ChunkAhead DEF Abstract!Fail
    <3>2. n \in 0 .. MaxOperations
      <4>1. n \in 1 .. MaxOperations
        BY <1>1, <2>3, ChunkAhead
      <4> HIDE DEF n
      <4> QED BY <2>2, <4>1
    <3> QED BY <3>1, <3>2 DEF Abstract!Step
  <2>4. CASE ~InWork
    <3>1. Done' = Done + 0
      BY <1>1, <2>2, <2>4, Counts
    <3>2. Abstract!Fail(0)
      BY <2>1, <3>1 DEF Abstract!Fail
    <3>3. 0 \in 0 .. MaxOperations
      BY <2>2
    <3> QED BY <3>2, <3>3 DEF Abstract!Step
  <2> QED BY <2>3, <2>4
<1> QED BY <1>2, <1>3, <1>4, <1>5, <1>6, <1>7, <1>8, <1>9, <1>10, StepHidden DEF Next, Work

(* Whatever requests and sessions do, and whoever shares a connection, what *)
(* can be seen of the operations accepted, stored and put in events is what *)
(* the pipeline does, until an exposed request adds an operation.           *)
THEOREM ImplementsPipeline == Spec => PassesThrough
<1>1. Init => Abstract!Init
  <2> SUFFICES ASSUME Init PROVE Abstract!Init
    OBVIOUS
  <2>1. Len(accepted) = 0 /\ Len(opList) = 0 /\ session.pc = "idle"
    BY DEF Init, NewSession
  <2>2. Done = 0
    BY <2>1 DEF Done, Taken, InWork
  <2> QED BY <2>2 DEF Init, Abstract!Init
<1>2. Init => ChunkFits
  BY DEF Init, NewSession, ChunkFits
<1>3. AcceptInv => TypeOK
  BY DEF AcceptInv
<1>4. Spec => [](AcceptInv /\ OrderInv /\ ChunkFits)
  BY <1>2, <1>3, InitAcceptInv, StepAcceptInv, InitOrderInv, StepOrderInv, StepChunkFits,
     PTL DEF Spec
<1> QED BY <1>1, <1>4, StepPasses, PTL DEF Spec, PassesThrough
-----------------------------------------------------------------------------
(* The limit of the queue.                                                  *)

(* Requests that have checked the size of the queue and not added to it.    *)
Admitted == {r \in Request : request[r].pc = "exec"}

(* However many have been admitted, one who was has seen room in the queue. *)
RoomSeen == Len(opList) + Cardinality(Admitted) < MaxQueueSize + Cardinality(Request)

LEMMA AdmittedCount ==
  /\ IsFiniteSet(Admitted) /\ Cardinality(Admitted) \in Nat
  /\ Cardinality(Request) \in Nat /\ Cardinality(Admitted) <= Cardinality(Request)
<1>1. Admitted \in SUBSET Request
  BY DEF Admitted
<1> QED BY <1>1, OperationsAssumption, FS_Subset, FS_CardinalityType

LEMMA FewerAdmitted ==
  ASSUME TypeOK, TypeOK', RoomSeen, Len(opList') <= Len(opList), Admitted' \subseteq Admitted
  PROVE  RoomSeen'
<1>1. Cardinality(Admitted') <= Cardinality(Admitted) /\ Cardinality(Admitted') \in Nat
  BY AdmittedCount, FS_Subset, FS_CardinalityType
<1>2. Len(opList) \in Nat /\ Len(opList') \in Nat
  BY DEF TypeOK
<1>3. MaxQueueSize \in Nat
  BY OperationsAssumption
<1> QED BY <1>1, <1>2, <1>3, AdmittedCount DEF RoomSeen

LEMMA StepRoomSeen ==
  ASSUME TypeOK, RoomSeen, [Next]_vars
  PROVE  RoomSeen'
<1>1. TypeOK'
  BY StepTypeOK
<1>2. Len(opList) \in Nat /\ MaxQueueSize \in Nat
  BY OperationsAssumption DEF TypeOK
<1>3. ASSUME NEW r \in Request, Add(r)
      PROVE  RoomSeen'
  <2>1. CASE CheckQueueSize(r) /\ ~QueueFull
    <3>1. opList' = opList /\ Len(opList) < MaxQueueSize
      BY <1>2, <2>1 DEF CheckQueueSize, QueueFull, redis
    <3>2. Cardinality(Admitted') \in Nat /\ Cardinality(Admitted') <= Cardinality(Request)
      <4>1. Admitted' \in SUBSET Request
        BY DEF Admitted
      <4> QED BY <4>1, OperationsAssumption, FS_Subset, FS_CardinalityType
    <3> QED BY <1>2, <3>1, <3>2, AdmittedCount DEF RoomSeen
  <2>2. CASE Enqueue(r)
    <3>1. Len(opList') = Len(opList) + 1
      <4>1. request[r].op \in Operation
        BY <2>2 DEF Enqueue, TypeOK
      <4> QED BY <2>2, <4>1 DEF Enqueue, Push, TypeOK
    <3>2. r \in Admitted /\ Admitted' = Admitted \ {r}
      BY <2>2 DEF Enqueue, Answer, Admitted, Idle, TypeOK
    <3>3. Cardinality(Admitted') = Cardinality(Admitted) - 1
      BY <3>2, AdmittedCount, FS_RemoveElement
    <3> QED BY <1>2, <3>1, <3>3, AdmittedCount DEF RoomSeen
  <2>3. CASE ~Enqueue(r) /\ ~(CheckQueueSize(r) /\ ~QueueFull)
    <3>1. opList' = opList
      BY <1>3, <2>3 DEF Add, Watch, Exists, RejectQueued, CheckDatabase, CheckQueueSize,
                        RejectWatched, redis
    <3>2. PICK record :
            request' = [request EXCEPT ![r] = record] /\ record.pc # "exec"
      <4>1. \A pc : /\ [request[r] EXCEPT !.pc = pc].pc = pc
                    /\ GoTo(r, pc) => request' = [request EXCEPT ![r] = [request[r] EXCEPT !.pc = pc]]
        BY DEF GoTo, TypeOK
      <4>2. CASE \E op \in Submits[r], p \in Serves[r] : Watch(r, op, p)
        BY <4>2 DEF Watch
      <4>3. CASE \E pc \in {"unwatch", "database", "size"} : GoTo(r, pc)
        BY <4>1, <4>3
      <4>4. CASE Answer(r)
        <5>1. Idle.pc # "exec"
          BY DEF Idle
        <5> QED BY <4>4, <5>1 DEF Answer
      <4>5. Exists(r) => \E pc \in {"unwatch", "database"} : GoTo(r, pc)
        BY DEF Exists
      <4>6. CheckDatabase(r) => Answer(r) \/ GoTo(r, "size")
        BY DEF CheckDatabase
      <4>7. CheckQueueSize(r) => QueueFull /\ Answer(r)
        BY <2>3 DEF CheckQueueSize
      <4> QED BY <1>3, <2>3, <4>2, <4>3, <4>4, <4>5, <4>6, <4>7
              DEF Add, RejectQueued, RejectWatched
    <3>3. Admitted' \subseteq Admitted
      BY <3>2 DEF Admitted, TypeOK
    <3> QED BY <1>1, <1>2, <3>1, <3>3, FewerAdmitted
  <2> QED BY <2>1, <2>2, <2>3
<1>4. CASE GetChunk
  <2>1. request' = request
    BY <1>4 DEF GetChunk
  <2>2. Len(opList') <= Len(opList)
    <3>1. CASE opList' = opList
      BY <1>2, <3>1
    <3>2. CASE opList' = Remaining(session.opKeys)
      <4> DEFINE l == Len(session.opKeys)
      <4>1. l \in Nat /\ opList \in Seq(Operation)
        BY DEF TypeOK
      <4> HIDE DEF l
      <4>2. l + 1 \in Int /\ \A i \in l + 1 .. Len(opList) : opList[i] \in Operation
        BY <1>2, <4>1
      <4>3. Len(SubSeq(opList, l + 1, Len(opList)))
              = IF l + 1 <= Len(opList) THEN Len(opList) - (l + 1) + 1 ELSE 0
        BY <1>2, <4>1, <4>2, SubSeqProperties
      <4>4. opList' = SubSeq(opList, l + 1, Len(opList))
        BY <3>2 DEF Remaining, l
      <4> QED BY <1>2, <4>1, <4>3, <4>4
    <3> QED BY <1>4, <3>1, <3>2 DEF GetChunk
  <2> QED BY <1>1, <2>1, <2>2, FewerAdmitted DEF Admitted
<1>5. CASE HasNextChunk \/ WriteOperations \/ AddEvent \/ PopChunk \/ CountPeerOperations \/ Fail
           \/ UNCHANGED vars
  <2>1. opList' = opList /\ request' = request
    BY <1>5 DEF CountPeerOperations, HasNextChunk, WriteOperations, AddEvent, PopChunk, Fail, vars, redis
  <2> QED BY <1>1, <1>2, <2>1, FewerAdmitted DEF Admitted
<1> QED BY <1>3, <1>4, <1>5 DEF Next, Work

(* Requests admitted together exceed the limit of the queue by less than    *)
(* their number, whichever connections they share.                          *)
THEOREM OverrunBounded == Spec => []QueueOverrun
<1>1. Init => RoomSeen
  <2> SUFFICES ASSUME Init PROVE RoomSeen
    OBVIOUS
  <2>1. Len(opList) = 0
    BY DEF Init
  <2>2. Admitted = {}
    BY DEF Init, Admitted, Idle
  <2>3. Cardinality(Admitted) = 0
    BY <2>2, FS_EmptySet
  <2> QED BY <2>1, <2>3, AdmittedCount, OperationsAssumption DEF RoomSeen
<1>2. TypeOK /\ RoomSeen => QueueOverrun
  <2> SUFFICES ASSUME TypeOK, RoomSeen PROVE QueueOverrun
    OBVIOUS
  <2>1. Len(opList) \in Nat /\ MaxQueueSize \in Nat
    BY OperationsAssumption DEF TypeOK
  <2> QED BY <2>1, AdmittedCount DEF RoomSeen, QueueOverrun
<1> QED BY <1>1, <1>2, InitTypeOK, StepTypeOK, StepRoomSeen, PTL DEF Spec
=============================================================================
