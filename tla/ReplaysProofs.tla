---------------------------- MODULE ReplaysProofs ----------------------------
(***************************************************************************)
(* Theorems about the detection of replayers, for any peers, any events    *)
(* and any blocks.                                                         *)
(***************************************************************************)
EXTENDS Replays, FiniteSetTheorems, WellFoundedInduction, TLAPS

(* A stored event's parents are stored.                                     *)
ParentsStored == \A n \in Node : \A e \in stored[n] : Parent[e] \subseteq stored[n]

(* A stored event is not based on a block that its holder lacks.            *)
BasisReached == \A n \in Node : \A e \in stored[n] : Basis[e] <= height[n]

(* A block is being written only while one is left to write.                *)
BlockLeft == \A n \in Node : ~Idle(n) => height[n] < LastBlock

(* Only a creator with two events that follow the same one has an event with *)
(* a number other than 0.                                                   *)
Forked(n, c) == \E x, y \in StoredBy(n, c) : x # y /\ Tree[x] = Tree[y]
ForkersNumbered ==
  \A n \in Node : \A e \in stored[n] : number[n][e] # 0 => Forked(n, Creator[e])

IInv == TypeOK /\ ParentsStored /\ BasisReached /\ BlockLeft /\ MadeBeforeMark

LEMMA InitIInv == Init => IInv
<1> SUFFICES ASSUME Init PROVE IInv
  OBVIOUS
<1> USE ReplaysAssumption
<1>1. TypeOK
  BY DEF Init, TypeOK, NoResult
<1>2. ParentsStored /\ BasisReached /\ BlockLeft /\ MadeBeforeMark
  BY DEF Init, ParentsStored, BasisReached, BlockLeft, MadeBeforeMark, Idle
<1> QED BY <1>1, <1>2 DEF IInv
-----------------------------------------------------------------------------
(* What an event of a batch inherits has the type of numbers and marks.     *)
LEMMA BeforeType ==
  ASSUME NEW batch, NEW e \in Event
  PROVE  Before(batch, e) \in Event \cup {None}
<1>1. Line[e] \subseteq Event
  BY DEF Line, AncestorsWithin
<1> QED BY <1>1 DEF Before

LEMMA InheritedType ==
  ASSUME TypeOK, NEW n \in Node, NEW batch, NEW e \in Event
  PROVE  /\ InheritedNumber(n, batch, e) \in -1 .. MaxBatch
         /\ InheritedMark(n, batch, e) \in -1 .. LastBlock
<1> USE ReplaysAssumption
<1>1. Before(batch, e) = None \/ Before(batch, e) \in Event
  BY BeforeType
<1>2. number[n] \in [Event -> -1 .. MaxBatch] /\ mark[n] \in [Event -> -1 .. LastBlock]
  BY DEF TypeOK
<1>3. 0 \in -1 .. MaxBatch /\ -1 \in -1 .. LastBlock
  OBVIOUS
<1> QED BY <1>1, <1>2, <1>3 DEF InheritedNumber, InheritedMark

(* No batch is counted further than its bound.                              *)
LEMMA NumberType ==
  ASSUME TypeOK, NEW n \in Node, NEW batch \in Batches, NEW order, NEW e \in batch
  PROVE  NumberOf(n, batch, order, e) \in -1 .. MaxBatch
<1> USE ReplaysAssumption
<1>1. batch \subseteq Event /\ IsFiniteSet(batch) /\ Cardinality(batch) \in 1 .. MaxBatch
  BY FS_Subset DEF Batches
<1> DEFINE counted == {x \in Replaying(n, batch) :
                         Creator[x] = Creator[e] /\ order[x] <= order[e]}
<1>2. counted \subseteq batch
  BY DEF Replaying
<1>3. Cardinality(counted) \in Nat /\ Cardinality(counted) <= Cardinality(batch)
  BY <1>1, <1>2, FS_Subset, FS_CardinalityType
<1>4. Cardinality(counted) \in -1 .. MaxBatch
  BY <1>1, <1>3
<1>5. Counted(n, batch, order, e) \in -1 .. MaxBatch
  BY <1>4 DEF Counted, NaN
<1> QED BY <1>1, <1>5, InheritedType DEF NumberOf
-----------------------------------------------------------------------------
LEMMA ReceiveIInv ==
  ASSUME IInv, NEW n \in Node, NEW batch \in Batches, Receive(n, batch)
  PROVE  IInv'
<1> USE ReplaysAssumption
<1>1. PICK order \in Orders(batch) :
        number' = [number EXCEPT ![n] = [e \in Event |->
          IF e \in batch THEN NumberOf(n, batch, order, e) ELSE @[e]]]
  BY DEF Receive
<1>2. batch \subseteq Event /\ \A e \in batch : /\ NumberOf(n, batch, order, e) \in -1 .. MaxBatch
                                             /\ InheritedMark(n, batch, e) \in -1 .. LastBlock
  BY InheritedType, NumberType DEF IInv, Batches
<1>3. TypeOK'
  <2>1. number' \in [Node -> [Event -> -1 .. MaxBatch]]
    BY <1>1, <1>2 DEF IInv, TypeOK
  <2>2. mark' \in [Node -> [Event -> -1 .. LastBlock]]
    BY <1>2 DEF IInv, TypeOK, Receive
  <2>3. stored' \in [Node -> SUBSET Event] /\ history' \in [Node -> SUBSET Event]
    BY <1>2 DEF IInv, TypeOK, Receive
  <2>4. \A m \in Node : history'[m] \subseteq stored'[m] /\ history[m] \subseteq history'[m]
    BY DEF IInv, TypeOK, Receive
  <2>5. \A m \in Node : \A e \in Event \ stored'[m] :
          number'[m][e] = 0 /\ mark'[m][e] = -1 /\ blockOf'[m][e] = -1
    BY <1>1, <1>2 DEF IInv, TypeOK, Receive
  <2> QED BY <2>1, <2>2, <2>3, <2>4, <2>5 DEF IInv, TypeOK, Receive
<1>4. ParentsStored'
  BY <1>2 DEF IInv, TypeOK, ParentsStored, Receive
<1>5. BasisReached'
  BY <1>2 DEF IInv, TypeOK, BasisReached, Receive
<1>6. BlockLeft'
  BY DEF IInv, BlockLeft, Idle, Receive
<1>7. MadeBeforeMark'
  <2>1. \A e \in batch : InheritedMark(n, batch, e) # -1 => Basis[e] < InheritedMark(n, batch, e)
    BY <1>2 DEF Receive, TooLate
  <2>2. /\ stored' = [stored EXCEPT ![n] = @ \cup batch]
        /\ mark' = [mark EXCEPT ![n] = [e \in Event |->
                      IF e \in batch THEN InheritedMark(n, batch, e) ELSE @[e]]]
    BY DEF Receive
  <2> QED BY <1>2, <2>1, <2>2 DEF IInv, TypeOK, MadeBeforeMark
<1> QED BY <1>3, <1>4, <1>5, <1>6, <1>7 DEF IInv

LEMMA CreateIInv ==
  ASSUME IInv, NEW n \in Node, NEW e \in Event, Create(n, e)
  PROVE  IInv'
<1> USE ReplaysAssumption
<1>1. /\ stored' = [stored EXCEPT ![n] = @ \cup {e}]
      /\ history' = [history EXCEPT ![n] = @ \cup {e}]
      /\ UNCHANGED <<number, mark, blockOf, height, result, sessions, found>>
      /\ Basis[e] = height[n] /\ Parent[e] \subseteq history[n] \cup stored[n]
  BY DEF Create
<1>2. TypeOK'
  <2>1. stored' \in [Node -> SUBSET Event] /\ history' \in [Node -> SUBSET Event]
    BY <1>1 DEF IInv, TypeOK
  <2>2. \A m \in Node : /\ history'[m] \subseteq stored'[m]
                        /\ history[m] \subseteq history'[m] /\ stored[m] \subseteq stored'[m]
    BY <1>1 DEF IInv, TypeOK
  <2> QED BY <1>1, <2>1, <2>2 DEF IInv, TypeOK
<1>3. ParentsStored'
  BY <1>1 DEF IInv, TypeOK, ParentsStored
<1>4. BasisReached'
  BY <1>1 DEF IInv, TypeOK, BasisReached
<1>5. BlockLeft'
  BY <1>1 DEF IInv, BlockLeft, Idle
<1>6. MadeBeforeMark'
  <2>1. mark[n][e] = -1
    BY DEF IInv, TypeOK, Create, StoredBy
  <2> QED BY <1>1, <2>1 DEF IInv, TypeOK, MadeBeforeMark
<1> QED BY <1>2, <1>3, <1>4, <1>5, <1>6 DEF IInv

(* The marks that a block brings are above what the marked events were      *)
(* based on.                                                                *)
LEMMA FindConsensusIInv ==
  ASSUME IInv, NEW n \in Node, FindConsensus(n)
  PROVE  IInv'
<1> USE ReplaysAssumption
<1> DEFINE h == height[n] + 1
           es == MergeEvents(n, h)
           cs == NewReplayers(n, es)
<1>1. /\ result' = [result EXCEPT ![n] = [mergeEventHash |-> es, replayerSet |-> cs]]
      /\ mark' = [mark EXCEPT ![n] = Marked(n, cs, h)]
      /\ found' = [found EXCEPT ![n][h] = @ \cup cs]
      /\ height[n] < LastBlock
      /\ UNCHANGED <<stored, number, blockOf, height, history, sessions>>
  BY DEF FindConsensus
<1>2. h \in 1 .. LastBlock
  BY <1>1 DEF IInv, TypeOK
<1>3. es \subseteq history[n] /\ history[n] \subseteq Event
  BY DEF MergeEvents, AncestorsWithin, IInv, TypeOK
<1>4. cs \subseteq {Creator[e] : e \in Event}
  BY <1>3 DEF NewReplayers, CreatorsOf
<1> HIDE DEF h, es, cs
<1>5. /\ Marked(n, cs, h) \in [Event -> -1 .. LastBlock]
      /\ \A e \in Event : Marked(n, cs, h)[e] = IF e \in stored[n] /\ Creator[e] \in cs
                                                THEN h ELSE mark[n][e]
  BY <1>2 DEF Marked, IInv, TypeOK
<1>6. TypeOK'
  <2>1. mark' \in [Node -> [Event -> -1 .. LastBlock]]
    BY <1>1, <1>5 DEF IInv, TypeOK
  <2>2. found' \in [Node -> [1 .. LastBlock -> SUBSET {Creator[e] : e \in Event}]]
    BY <1>1, <1>2, <1>4 DEF IInv, TypeOK
  <2>3. result' \in [Node -> [mergeEventHash : SUBSET Event,
                             replayerSet : SUBSET {Creator[e] : e \in Event}]]
    BY <1>1, <1>3, <1>4 DEF IInv, TypeOK
  <2>4. \A m \in Node : result'[m].mergeEventHash \subseteq history[m]
    BY <1>1, <1>3 DEF IInv, TypeOK
  <2>5. \A m \in Node : \A e \in Event \ stored[m] : mark'[m][e] = -1
    BY <1>1, <1>5 DEF IInv, TypeOK
  <2> QED BY <1>1, <2>1, <2>2, <2>3, <2>4, <2>5 DEF IInv, TypeOK
<1>7. ParentsStored' /\ BasisReached'
  BY <1>1 DEF IInv, ParentsStored, BasisReached
<1>8. BlockLeft'
  BY <1>1 DEF IInv, TypeOK, BlockLeft, Idle
<1>9. MadeBeforeMark'
  <2>1. \A e \in stored[n] : Basis[e] < h
    BY DEF h, IInv, TypeOK, BasisReached
  <2> QED BY <1>1, <1>5, <2>1 DEF IInv, TypeOK, MadeBeforeMark
<1> QED BY <1>6, <1>7, <1>8, <1>9 DEF IInv

LEMMA WriteBlockIInv ==
  ASSUME IInv, NEW n \in Node, WriteBlock(n)
  PROVE  IInv'
<1> USE ReplaysAssumption
<1> DEFINE es == result[n].mergeEventHash
           decided == es \cup NonConsensusParents(n, es)
           h == height[n] + 1
<1>1. /\ blockOf' = [blockOf EXCEPT ![n] = [e \in Event |->
                       IF e \in decided THEN h ELSE @[e]]]
      /\ height' = [height EXCEPT ![n] = h]
      /\ history' = [history EXCEPT ![n] =
                       {e \in @ \ es : Creator[e] \notin result[n].replayerSet}]
      /\ result' = [result EXCEPT ![n] = NoResult]
      /\ UNCHANGED <<stored, number, mark, sessions, found>>
  BY DEF WriteBlock, records
<1>2. h \in 1 .. LastBlock
  BY DEF WriteBlock, IInv, TypeOK, BlockLeft
<1>3. es \subseteq stored[n]
  BY DEF IInv, TypeOK
<1>4. decided \subseteq stored[n]
  BY <1>3 DEF NonConsensusParents, IInv, ParentsStored
<1> HIDE DEF es, decided, h
<1>5. TypeOK'
  <2>1. blockOf' \in [Node -> [Event -> -1 .. LastBlock]]
    BY <1>1, <1>2 DEF IInv, TypeOK
  <2>2. height' \in [Node -> 0 .. LastBlock]
    BY <1>1, <1>2 DEF IInv, TypeOK
  <2>3. result' \in [Node -> [mergeEventHash : SUBSET Event,
                             replayerSet : SUBSET {Creator[e] : e \in Event}]]
    BY <1>1 DEF IInv, TypeOK, NoResult
  <2>4. /\ history' \in [Node -> SUBSET Event]
        /\ \A m \in Node : history'[m] \subseteq stored[m]
    BY <1>1 DEF IInv, TypeOK
  <2>5. \A m \in Node : result'[m].mergeEventHash \subseteq history'[m]
    BY <1>1 DEF IInv, TypeOK, NoResult
  <2>6. \A m \in Node : \A e \in Event \ stored[m] : blockOf'[m][e] = -1
    BY <1>1, <1>4 DEF IInv, TypeOK
  <2> QED BY <1>1, <2>1, <2>2, <2>3, <2>4, <2>5, <2>6 DEF IInv, TypeOK
<1>6. ParentsStored' /\ MadeBeforeMark'
  BY <1>1 DEF IInv, ParentsStored, MadeBeforeMark
<1>7. BasisReached'
  <2>1. \A m \in Node : height[m] <= height'[m]
    BY <1>1 DEF h, IInv, TypeOK
  <2>2. \A m \in Node : height'[m] \in Int
    BY <1>1, <1>2 DEF IInv, TypeOK
  <2> QED BY <1>1, <2>1, <2>2 DEF IInv, TypeOK, BasisReached
<1>8. BlockLeft'
  BY <1>1 DEF IInv, TypeOK, BlockLeft, Idle
<1> QED BY <1>5, <1>6, <1>7, <1>8 DEF IInv

LEMMA NewSessionIInv ==
  ASSUME IInv, NEW n \in Node, NewSession(n)
  PROVE  IInv'
<1> USE ReplaysAssumption
<1>1. /\ history' = [history EXCEPT ![n] = NonConsensusEvents(n)]
      /\ result' = [result EXCEPT ![n] = NoResult]
      /\ sessions' \in 1 .. MaxSessions
      /\ UNCHANGED <<stored, number, mark, blockOf, height, found>>
  BY DEF NewSession, records, IInv, TypeOK
<1>2. NonConsensusEvents(n) \subseteq stored[n]
  BY DEF NonConsensusEvents
<1>3. TypeOK'
  <2>1. /\ history' \in [Node -> SUBSET Event]
        /\ \A m \in Node : history'[m] \subseteq stored[m]
    BY <1>1, <1>2 DEF IInv, TypeOK
  <2>2. /\ result' \in [Node -> [mergeEventHash : SUBSET Event,
                                replayerSet : SUBSET {Creator[e] : e \in Event}]]
        /\ \A m \in Node : result'[m].mergeEventHash \subseteq history'[m]
    BY <1>1 DEF IInv, TypeOK, NoResult
  <2> QED BY <1>1, <2>1, <2>2 DEF IInv, TypeOK
<1>4. ParentsStored' /\ BasisReached' /\ MadeBeforeMark'
  BY <1>1 DEF IInv, ParentsStored, BasisReached, MadeBeforeMark
<1>5. BlockLeft'
  BY <1>1 DEF IInv, TypeOK, BlockLeft, Idle
<1> QED BY <1>3, <1>4, <1>5 DEF IInv

LEMMA NextIInv ==
  ASSUME IInv, [Next]_vars
  PROVE  IInv'
<1>1. CASE UNCHANGED vars
  BY <1>1 DEF IInv, TypeOK, ParentsStored, BasisReached, BlockLeft, MadeBeforeMark, Idle,
              vars, records
<1>2. CASE Next
  BY <1>2, ReceiveIInv, CreateIInv, FindConsensusIInv, WriteBlockIInv, NewSessionIInv DEF Next
<1> QED BY <1>1, <1>2
-----------------------------------------------------------------------------
(* What is inherited is inherited from an event of the same creator.        *)
LEMMA BeforeCreator ==
  ASSUME NEW batch, NEW e \in Event, Before(batch, e) # None
  PROVE  Before(batch, e) \in Event /\ Creator[Before(batch, e)] = Creator[e]
<1>1. Before(batch, e) \in Line[e]
  BY DEF Before
<1> QED BY <1>1, BeforeType, Lineage

(* Who is found to be a replayer has forked.                                *)
LEMMA ReplayersForked ==
  ASSUME IInv, ForkersNumbered, NEW n \in Node, NEW es \in SUBSET history[n],
         NEW c \in NewReplayers(n, es)
  PROVE  Forked(n, c)
<1> DEFINE ours == Unmarked(n, es, c)
<1>1. ours \subseteq stored[n] /\ \A e \in ours : Creator[e] = c
  BY DEF Unmarked, IInv, TypeOK
<1>2. \/ \E e, x \in ours : e # x /\ ~SameNumber(number[n][e], number[n][x])
      \/ \E e \in ours : DiffersFromStored(n, number[n][e], c)
  BY DEF NewReplayers
<1>3. \E e \in ours : number[n][e] # 0
  BY <1>2 DEF SameNumber, NaN, DiffersFromStored
<1> QED BY <1>1, <1>3 DEF ForkersNumbered

LEMMA InitForked == Init => ForkersNumbered /\ OnlyForkersMarked
BY DEF Init, ForkersNumbered, OnlyForkersMarked

LEMMA NextForked ==
  ASSUME IInv, ForkersNumbered, OnlyForkersMarked, [Next]_vars
  PROVE  ForkersNumbered' /\ OnlyForkersMarked'
<1> USE ReplaysAssumption
<1>0. ASSUME \A n \in Node : stored[n] \subseteq stored'[n]
      PROVE  \A n \in Node : \A c : Forked(n, c) => Forked(n, c)'
  BY <1>0 DEF Forked, StoredBy
<1>1. ASSUME NEW n \in Node, NEW batch \in Batches, Receive(n, batch)
      PROVE  ForkersNumbered' /\ OnlyForkersMarked'
  <2>1. PICK order \in Orders(batch) :
          number' = [number EXCEPT ![n] = [e \in Event |->
            IF e \in batch THEN NumberOf(n, batch, order, e) ELSE @[e]]]
    BY <1>1 DEF Receive
  <2>2. /\ stored' = [stored EXCEPT ![n] = @ \cup batch]
        /\ mark' = [mark EXCEPT ![n] = [e \in Event |->
                      IF e \in batch THEN InheritedMark(n, batch, e) ELSE @[e]]]
        /\ batch \subseteq Event /\ \A e \in batch : e \notin stored[n]
    BY <1>1 DEF Receive, Offered, Batches
  <2>3. \A m \in Node : stored[m] \subseteq stored'[m]
    BY <2>2 DEF IInv, TypeOK
  <2>4. stored'[n] = stored[n] \cup batch /\ stored[n] \subseteq Event
    BY <2>2 DEF IInv, TypeOK
  <2>5. \A e \in batch : Replays(n, batch, e) => Forked(n, Creator[e])'
    BY <2>2, <2>4 DEF Replays, Forked, StoredBy
  <2>6. \A x \in Event \ stored[n] : number[n][x] = 0 /\ mark[n][x] = -1
    BY DEF IInv, TypeOK
  <2>7. ASSUME NEW e \in batch, NumberOf(n, batch, order, e) # 0
        PROVE  Forked(n, Creator[e])'
    <3>1. CASE Replays(n, batch, e)
      BY <2>5, <3>1
    <3>2. CASE ~Replays(n, batch, e)
      <4> DEFINE b == Before(batch, e)
      <4>1. b # None /\ number[n][b] # 0
        BY <2>7, <3>2 DEF NumberOf, InheritedNumber
      <4>2. b \in stored[n] /\ Creator[b] = Creator[e]
        BY <2>2, <2>6, <4>1, BeforeCreator
      <4> QED BY <1>0, <2>3, <4>1, <4>2 DEF ForkersNumbered
    <3> QED BY <3>1, <3>2
  <2>8. ASSUME NEW e \in batch, InheritedMark(n, batch, e) # -1
        PROVE  Forked(n, Creator[e])'
    <3> DEFINE b == Before(batch, e)
    <3>1. b # None /\ mark[n][b] # -1
      BY <2>8 DEF InheritedMark
    <3>2. b \in stored[n] /\ Creator[b] = Creator[e]
      BY <2>2, <2>6, <3>1, BeforeCreator
    <3>3. Forked(n, Creator[e])
      BY <3>1, <3>2 DEF OnlyForkersMarked, Forked
    <3> QED BY <1>0, <2>3, <3>3
  <2>9. ForkersNumbered'
    <3> SUFFICES ASSUME NEW m \in Node, NEW e \in stored'[m], number'[m][e] # 0
                 PROVE  Forked(m, Creator[e])'
      BY DEF ForkersNumbered
    <3>1. CASE m = n /\ e \in batch
      BY <2>1, <2>2, <2>7, <3>1 DEF IInv, TypeOK
    <3>2. CASE ~(m = n /\ e \in batch)
      <4>1. e \in stored[m] /\ number[m][e] # 0
        BY <2>1, <2>2, <3>2 DEF IInv, TypeOK
      <4> QED BY <1>0, <2>3, <4>1 DEF ForkersNumbered
    <3> QED BY <3>1, <3>2
  <2>10. OnlyForkersMarked'
    <3> SUFFICES ASSUME NEW m \in Node, NEW e \in stored'[m], mark'[m][e] # -1
                 PROVE  Forked(m, Creator[e])'
      BY DEF OnlyForkersMarked, Forked
    <3>1. CASE m = n /\ e \in batch
      BY <2>2, <2>8, <3>1 DEF IInv, TypeOK
    <3>2. CASE ~(m = n /\ e \in batch)
      <4>1. e \in stored[m] /\ mark[m][e] # -1
        BY <2>2, <3>2 DEF IInv, TypeOK
      <4>2. Forked(m, Creator[e])
        BY <4>1 DEF OnlyForkersMarked, Forked
      <4> QED BY <1>0, <2>3, <4>2
    <3> QED BY <3>1, <3>2
  <2> QED BY <2>9, <2>10
<1>2. ASSUME NEW n \in Node, NEW e \in Event, Create(n, e)
      PROVE  ForkersNumbered' /\ OnlyForkersMarked'
  <2>1. /\ stored' = [stored EXCEPT ![n] = @ \cup {e}] /\ e \notin stored[n]
        /\ UNCHANGED <<number, mark>>
    BY <1>2 DEF Create, StoredBy
  <2>2. \A m \in Node : stored[m] \subseteq stored'[m]
    BY <2>1 DEF IInv, TypeOK
  <2>3. \A m \in Node : \A x \in stored'[m] : x \in stored[m] \/ (number[m][x] = 0 /\ mark[m][x] = -1)
    BY <2>1 DEF IInv, TypeOK
  <2>4. ForkersNumbered'
    BY <1>0, <2>1, <2>2, <2>3 DEF ForkersNumbered
  <2>5. OnlyForkersMarked'
    <3>1. \A m \in Node : \A x \in stored[m] : mark[m][x] # -1 => Forked(m, Creator[x])
      BY DEF OnlyForkersMarked, Forked
    <3>2. \A m \in Node : \A x \in stored'[m] : mark'[m][x] # -1 => Forked(m, Creator[x])'
      BY <1>0, <2>1, <2>2, <2>3, <3>1
    <3> QED BY <3>2 DEF OnlyForkersMarked, Forked
  <2> QED BY <2>4, <2>5
<1>3. ASSUME NEW n \in Node, FindConsensus(n)
      PROVE  ForkersNumbered' /\ OnlyForkersMarked'
  <2> DEFINE h == height[n] + 1
             es == MergeEvents(n, h)
             cs == NewReplayers(n, es)
  <2>1. mark' = [mark EXCEPT ![n] = Marked(n, cs, h)] /\ UNCHANGED <<stored, number>>
    BY <1>3 DEF FindConsensus
  <2>2. es \subseteq history[n]
    BY DEF MergeEvents, AncestorsWithin
  <2>3. \A c \in cs : Forked(n, c)
    BY <2>2, ReplayersForked
  <2> HIDE DEF h, es, cs
  <2>4. \A m \in Node : \A c : Forked(m, c) => Forked(m, c)'
    BY <1>0, <2>1
  <2>5. ForkersNumbered'
    BY <2>1, <2>4 DEF ForkersNumbered
  <2>6. \A m \in Node : \A e \in stored[m] :
          mark'[m][e] # mark[m][e] => m = n /\ Creator[e] \in cs
    BY <2>1 DEF Marked, IInv, TypeOK
  <2>7. \A m \in Node : \A e \in stored[m] : mark[m][e] # -1 => Forked(m, Creator[e])
    BY DEF OnlyForkersMarked, Forked
  <2>8. \A m \in Node : \A e \in stored'[m] : mark'[m][e] # -1 => Forked(m, Creator[e])'
    BY <2>1, <2>3, <2>4, <2>6, <2>7
  <2>9. OnlyForkersMarked'
    BY <2>8 DEF OnlyForkersMarked, Forked
  <2> QED BY <2>5, <2>9
<1>4. CASE UNCHANGED <<stored, number, mark>>
  BY <1>4 DEF ForkersNumbered, OnlyForkersMarked, Forked, StoredBy
<1>5. ASSUME NEW n \in Node, WriteBlock(n) \/ NewSession(n)
      PROVE  UNCHANGED <<stored, number, mark>>
  BY <1>5 DEF WriteBlock, NewSession, records
<1>6. UNCHANGED vars => UNCHANGED <<stored, number, mark>>
  BY DEF vars, records
<1> QED BY <1>1, <1>2, <1>3, <1>4, <1>5, <1>6 DEF Next
-----------------------------------------------------------------------------
(* What makes the detection of forks complete.                              *)

Siblings(n, e, x) ==
  /\ e \in stored[n] /\ x \in stored[n]
  /\ Creator[e] = Creator[x] /\ Tree[e] = Tree[x] /\ e # x

(* A node does not fork itself.                                             *)
OwnUnforked == \A n \in Node : \A e, x \in stored[n] : Siblings(n, e, x) => Creator[e] # n

(* An undecided event that is not in the history is marked.                 *)
OutsideMarked ==
  \A n \in Node : \A e \in stored[n] : blockOf[n][e] = -1 /\ e \notin history[n] => mark[n][e] # -1

(* While a block is written, its replayers are marked.                      *)
ResultMarked ==
  \A n \in Node :
    /\ \A e \in result[n].mergeEventHash : number[n][e] # 0 => mark[n][e] # -1
    /\ \A e \in stored[n] : Creator[e] \in result[n].replayerSet => mark[n][e] # -1

(* An event of a block that has a number other than 0 is marked, because    *)
(* its creator has an event stored with another number.                     *)
NumberedMarked ==
  \A n \in Node : \A e \in stored[n] : blockOf[n][e] # -1 /\ number[n][e] # 0 => mark[n][e] # -1
OtherNumber ==
  \A n \in Node : \A e \in stored[n] :
    number[n][e] # 0 => \E x \in StoredBy(n, Creator[e]) : number[n][x] # number[n][e]
SomeNumber ==
  \A n \in Node : \A e \in stored[n] : \E x \in StoredBy(n, Creator[e]) : number[n][x] # NaN

(* Of two events that follow the same one, one has a number other than 0,   *)
(* and the mark of the one reaches the other.                               *)
SiblingsNumbered ==
  \A n \in Node : \A e, x \in stored[n] :
    Siblings(n, e, x) => number[n][e] # 0 \/ number[n][x] # 0
SiblingMarks ==
  \A n \in Node : \A e, x \in stored[n] :
    Siblings(n, e, x) /\ number[n][e] = 0 /\ mark[n][x] # -1 => mark[n][e] # -1
LineMarks ==
  \A n \in Node : \A e \in stored[n] :
    Tree[e] # None /\ mark[n][Tree[e]] # -1 => mark[n][e] # -1

DInv == /\ IInv /\ ForkersNumbered /\ OnlyForkersMarked
        /\ OwnUnforked /\ OutsideMarked /\ ResultMarked /\ NumberedMarked
        /\ OtherNumber /\ SomeNumber /\ SiblingsNumbered /\ SiblingMarks /\ LineMarks

LEMMA InitDInv == Init => DInv
<1> SUFFICES ASSUME Init PROVE DInv
  OBVIOUS
<1>1. IInv /\ ForkersNumbered /\ OnlyForkersMarked
  BY InitIInv, InitForked
<1>2. /\ OwnUnforked /\ OutsideMarked /\ ResultMarked /\ NumberedMarked
      /\ OtherNumber /\ SomeNumber /\ SiblingsNumbered /\ SiblingMarks /\ LineMarks
  BY DEF Init, NoResult, OwnUnforked, OutsideMarked, ResultMarked, NumberedMarked,
         OtherNumber, SomeNumber, SiblingsNumbered, SiblingMarks, LineMarks
<1> QED BY <1>1, <1>2 DEF DInv

(* What an event inherits from: its tree parent, if that is not in the      *)
(* batch, and else what its tree parent inherits from.                      *)
LEMMA BeforeIsTree ==
  ASSUME NEW batch, NEW e \in Event, e \in batch, Tree[e] # None
  PROVE  /\ Tree[e] \notin batch => Before(batch, e) = Tree[e]
         /\ Tree[e] \in batch => Before(batch, e) = Before(batch, Tree[e])
<1> USE ReplaysAssumption
<1>1. Tree[e] \in Event /\ TreeParents[e] = {Tree[e]}
  BY DEF TreeParents
<1>2. Line[e] = {e} \cup Line[Tree[e]]
  <2>1. Line[e] = {e} \cup UNION {Line[t] : t \in TreeParents[e]}
    BY Lineage
  <2> QED BY <1>1, <2>1
<1>3. Line[e] \ batch = Line[Tree[e]] \ batch
  BY <1>2
<1>4. Tree[e] \in Line[Tree[e]]
  <2>1. \A x \in Event : x \in Line[x]
    BY Lineage
  <2> QED BY <1>1, <2>1
<1>5. ASSUME Tree[e] \notin batch
      PROVE  Before(batch, e) = Tree[e]
  <2> DEFINE earlier == Line[e] \ batch
             latest == {x \in earlier : earlier \subseteq Line[x]}
  <2>1. Tree[e] \in latest
    BY <1>3, <1>4, <1>5
  <2>2. ASSUME NEW x \in latest PROVE x = Tree[e]
    <3>1. x \in Line[Tree[e]] /\ Tree[e] \in Line[x]
      BY <1>3, <2>1, <2>2
    <3> QED BY <1>1, <3>1, Lineage
  <2>3. latest = {Tree[e]}
    BY <2>1, <2>2
  <2>4. Before(batch, e) = IF latest = {} THEN None ELSE CHOOSE x \in latest : TRUE
    BY DEF Before
  <2> HIDE DEF latest
  <2> QED BY <2>3, <2>4
<1>6. Before(batch, e) = Before(batch, Tree[e])
  <2> DEFINE LatestOf(earlier) ==
               LET latest == {x \in earlier : earlier \subseteq Line[x]}
               IN IF latest = {} THEN None ELSE CHOOSE x \in latest : TRUE
  <2>1. /\ Before(batch, e) = LatestOf(Line[e] \ batch)
        /\ Before(batch, Tree[e]) = LatestOf(Line[Tree[e]] \ batch)
    BY DEF Before
  <2> HIDE DEF LatestOf
  <2> QED BY <1>3, <2>1
<1> QED BY <1>5, <1>6

(* A first event inherits nothing.                                          *)
LEMMA BeforeFirst ==
  ASSUME NEW batch, NEW e \in Event, e \in batch, Tree[e] = None
  PROVE  Before(batch, e) = None
<1>1. Line[e] = {e}
  BY Lineage DEF TreeParents
<1> QED BY <1>1 DEF Before

(* An event that replays never gets the number 0.                           *)
LEMMA ReplayCounted ==
  ASSUME NEW n \in Node, NEW batch \in Batches, NEW order \in Orders(batch),
         NEW e \in batch, Replays(n, batch, e)
  PROVE  Counted(n, batch, order, e) # 0
<1> USE ReplaysAssumption
<1> DEFINE counted == {x \in Replaying(n, batch) :
                         Creator[x] = Creator[e] /\ order[x] <= order[e]}
<1>0. batch \in SUBSET Event
  BY DEF Batches
<1>1. IsFiniteSet(batch) /\ order \in [batch -> 1 .. Cardinality(batch)]
  <2>1. IsFiniteSet(batch)
    BY <1>0, FS_Subset
  <2> QED BY <2>1 DEF Orders
<1>2. Cardinality(batch) \in Nat
  BY <1>1, FS_CardinalityType
<1>3. order[e] \in Int
  BY <1>1, <1>2
<1>4. counted \subseteq batch /\ e \in counted
  BY <1>3 DEF Replaying
<1>5. IsFiniteSet(counted)
  BY <1>1, <1>4, FS_Subset
<1>6. Cardinality(counted) # 0
  BY <1>4, <1>5, FS_EmptySet
<1> QED BY <1>6 DEF Counted, NaN

(* Two events that replay one another in a batch are counted differently.   *)
LEMMA CountedApart ==
  ASSUME NEW n \in Node, NEW batch \in Batches, NEW order \in Orders(batch),
         NEW e \in batch, NEW x \in batch, e # x, Creator[e] = Creator[x],
         Replays(n, batch, e), Replays(n, batch, x), StoredBy(n, Creator[e]) = {}
  PROVE  Counted(n, batch, order, e) # Counted(n, batch, order, x)
<1> USE ReplaysAssumption
<1> DEFINE upTo(y) == {z \in Replaying(n, batch) :
                         Creator[z] = Creator[y] /\ order[z] <= order[y]}
<1>0. batch \in SUBSET Event
  BY DEF Batches
<1>1. IsFiniteSet(batch) /\ order \in [batch -> 1 .. Cardinality(batch)]
  <2>1. IsFiniteSet(batch)
    BY <1>0, FS_Subset
  <2> QED BY <2>1 DEF Orders
<1>2. Cardinality(batch) \in Nat
  BY <1>1, FS_CardinalityType
<1>3. \A y \in batch : order[y] \in Int
  BY <1>1, <1>2
<1>4. order[e] # order[x]
  BY DEF Orders
<1>5. \A y \in {e, x} : upTo(y) \subseteq batch /\ y \in upTo(y)
  BY <1>3 DEF Replaying
<1>6. /\ order[e] < order[x] => upTo(e) \subseteq upTo(x) /\ x \notin upTo(e)
      /\ order[x] < order[e] => upTo(x) \subseteq upTo(e) /\ e \notin upTo(x)
  BY <1>3 DEF Replaying
<1>7. IsFiniteSet(upTo(e)) /\ IsFiniteSet(upTo(x))
  BY <1>1, <1>5, FS_Subset
<1> HIDE DEF upTo
<1>8. ASSUME order[e] < order[x] PROVE Cardinality(upTo(e)) # Cardinality(upTo(x))
  <2>1. upTo(e) \in SUBSET upTo(x) /\ upTo(e) # upTo(x)
    BY <1>5, <1>6, <1>8
  <2>2. Cardinality(upTo(x)) = Cardinality(upTo(e)) => upTo(x) = upTo(e)
    BY <1>7, <2>1, FS_Subset
  <2> QED BY <2>1, <2>2
<1>9. ASSUME order[x] < order[e] PROVE Cardinality(upTo(e)) # Cardinality(upTo(x))
  <2>1. upTo(x) \in SUBSET upTo(e) /\ upTo(e) # upTo(x)
    BY <1>5, <1>6, <1>9
  <2>2. Cardinality(upTo(e)) = Cardinality(upTo(x)) => upTo(e) = upTo(x)
    BY <1>7, <2>1, FS_Subset
  <2> QED BY <2>1, <2>2
<1>10. Cardinality(upTo(e)) # Cardinality(upTo(x))
  BY <1>3, <1>4, <1>8, <1>9
<1> QED BY <1>10 DEF Counted, upTo

LEMMA CountType ==
  ASSUME NEW n \in Node, NEW batch \in Batches, NEW order, NEW e \in batch
  PROVE  Cardinality({x \in Replaying(n, batch) :
                        Creator[x] = Creator[e] /\ order[x] <= order[e]}) \in Nat
<1> USE ReplaysAssumption
<1> DEFINE counted == {x \in Replaying(n, batch) :
                         Creator[x] = Creator[e] /\ order[x] <= order[e]}
<1>1. batch \in SUBSET Event
  BY DEF Batches
<1>2. IsFiniteSet(batch)
  BY <1>1, FS_Subset
<1>3. counted \in SUBSET batch
  BY DEF Replaying
<1>4. IsFiniteSet(counted)
  BY <1>2, <1>3, FS_Subset
<1> QED BY <1>4, FS_CardinalityType

LEMMA ReceiveDInv ==
  ASSUME DInv, NEW n \in Node, NEW batch \in Batches, Receive(n, batch)
  PROVE  /\ OwnUnforked' /\ OutsideMarked' /\ ResultMarked' /\ NumberedMarked'
         /\ OtherNumber' /\ SomeNumber' /\ SiblingsNumbered' /\ SiblingMarks' /\ LineMarks'
<1> USE ReplaysAssumption
<1>1. PICK order \in Orders(batch) :
        number' = [number EXCEPT ![n] = [e \in Event |->
          IF e \in batch THEN NumberOf(n, batch, order, e) ELSE @[e]]]
  BY DEF Receive
<1>2. /\ stored' = [stored EXCEPT ![n] = @ \cup batch]
      /\ history' = [history EXCEPT ![n] = @ \cup batch]
      /\ mark' = [mark EXCEPT ![n] = [e \in Event |->
                    IF e \in batch THEN InheritedMark(n, batch, e) ELSE @[e]]]
      /\ UNCHANGED <<blockOf, height, result>>
  BY DEF Receive
<1>3. /\ batch \subseteq Event /\ \A e \in batch : e \notin stored[n] /\ Creator[e] # n
      /\ \A e \in batch : Parent[e] \subseteq stored[n] \cup batch
  BY DEF Receive, Offered, Batches
<1>4. TypeOK /\ TypeOK' /\ stored[n] \subseteq Event
  BY ReceiveIInv DEF DInv, IInv, TypeOK
<1>5. \A m \in Node : \A e \in stored[m] :
        /\ e \in stored'[m] /\ number'[m][e] = number[m][e] /\ mark'[m][e] = mark[m][e]
        /\ blockOf'[m][e] = blockOf[m][e] /\ (e \in history[m] => e \in history'[m])
  BY <1>1, <1>2, <1>3, <1>4 DEF TypeOK
<1>6. \A e \in batch : /\ e \in stored'[n] /\ e \in history'[n] /\ blockOf'[n][e] = -1
                       /\ number'[n][e] = NumberOf(n, batch, order, e)
                       /\ mark'[n][e] = InheritedMark(n, batch, e)
  BY <1>1, <1>2, <1>3, <1>4 DEF TypeOK
<1>7. \A m \in Node : \A e \in stored'[m] : e \in stored[m] \/ (m = n /\ e \in batch)
  BY <1>2, <1>4 DEF TypeOK
<1>8. \A e \in batch : TreeParents[e] \subseteq stored[n] \cup batch
  BY <1>3
<1>9. OwnUnforked'
  BY <1>3, <1>5, <1>7 DEF DInv, OwnUnforked, Siblings
<1>10. OutsideMarked'
  BY <1>5, <1>6, <1>7 DEF DInv, OutsideMarked
<1>11. ResultMarked'
  <2>1. \A m \in Node : /\ result'[m].mergeEventHash \subseteq stored[m]
                        /\ result'[m] = result[m]
    BY <1>2, <1>4 DEF TypeOK
  <2>2. result[n].replayerSet = {}
    BY DEF Receive, Idle, NoResult
  <2>3. ASSUME NEW m \in Node, NEW e \in result'[m].mergeEventHash, number'[m][e] # 0
        PROVE  mark'[m][e] # -1
    <3>1. e \in stored[m] /\ e \in result[m].mergeEventHash
      BY <2>1
    <3>2. number[m][e] # 0
      BY <1>5, <2>3, <3>1
    <3>3. mark[m][e] # -1
      BY <3>1, <3>2 DEF DInv, ResultMarked
    <3> QED BY <1>5, <3>1, <3>3
  <2>4. ASSUME NEW m \in Node, NEW e \in stored'[m], Creator[e] \in result'[m].replayerSet
        PROVE  mark'[m][e] # -1
    <3>1. m # n /\ Creator[e] \in result[m].replayerSet
      BY <2>1, <2>2, <2>4
    <3>2. e \in stored[m]
      BY <1>7, <3>1
    <3>3. mark[m][e] # -1
      BY <3>1, <3>2 DEF DInv, ResultMarked
    <3> QED BY <1>5, <3>2, <3>3
  <2> QED BY <2>3, <2>4 DEF ResultMarked
<1>12. NumberedMarked'
  BY <1>5, <1>6, <1>7 DEF DInv, NumberedMarked
(* An event of the batch that follows the same one as another replays.      *)
<1>13. ASSUME NEW e \in batch, NEW x \in stored'[n], Siblings(n, e, x)'
       PROVE  Replays(n, batch, e) /\ (x \in batch => Replays(n, batch, x))
  BY <1>7, <1>13 DEF Siblings, Replays
<1>14. ASSUME NEW e \in batch, Replays(n, batch, e)
       PROVE  number'[n][e] # 0
  BY <1>6, <1>14, ReplayCounted DEF NumberOf
<1>15. SiblingsNumbered'
  <2> SUFFICES ASSUME NEW m \in Node, NEW e \in stored'[m], NEW x \in stored'[m],
                      Siblings(m, e, x)'
               PROVE  number'[m][e] # 0 \/ number'[m][x] # 0
    BY DEF SiblingsNumbered
  <2>1. CASE m = n /\ e \in batch
    BY <1>13, <1>14, <2>1
  <2>2. CASE m = n /\ x \in batch
    <3>1. Siblings(n, x, e)'
      BY <2>2 DEF Siblings
    <3> QED BY <1>13, <1>14, <2>2, <3>1
  <2>3. CASE e \in stored[m] /\ x \in stored[m]
    <3>1. Siblings(m, e, x)
      BY <2>3 DEF Siblings
    <3>2. SiblingsNumbered
      BY DEF DInv
    <3>3. number[m][e] # 0 \/ number[m][x] # 0
      BY <2>3, <3>1, <3>2 DEF SiblingsNumbered
    <3> QED BY <1>5, <2>3, <3>3
  <2> QED BY <1>7, <2>1, <2>2, <2>3
<1>16. LineMarks'
  <2> SUFFICES ASSUME NEW m \in Node, NEW e \in stored'[m],
                      Tree[e] # None, mark'[m][Tree[e]] # -1
               PROVE  mark'[m][e] # -1
    BY DEF LineMarks
  <2>1. e \in Event /\ Tree[e] \in Parent[e]
    BY <1>4 DEF TreeParents, TypeOK
  <2>2. CASE e \in stored[m]
    <3>1. Tree[e] \in stored[m]
      BY <2>1, <2>2 DEF DInv, IInv, ParentsStored
    <3> QED BY <1>5, <2>2, <3>1 DEF DInv, LineMarks
  <2>3. CASE m = n /\ e \in batch
    <3>1. CASE Tree[e] \in batch
      <4>1. InheritedMark(n, batch, e) = InheritedMark(n, batch, Tree[e])
        BY <2>1, <2>3, <3>1, BeforeIsTree DEF InheritedMark
      <4> QED BY <1>6, <2>3, <3>1, <4>1
    <3>2. CASE Tree[e] \notin batch
      <4>1. Tree[e] \in stored[n]
        BY <1>3, <2>1, <2>3, <3>2
      <4>2. InheritedMark(n, batch, e) = mark[n][Tree[e]]
        BY <2>1, <2>3, <3>2, BeforeIsTree DEF InheritedMark
      <4> QED BY <1>5, <1>6, <2>3, <4>1, <4>2
    <3> QED BY <3>1, <3>2
  <2> QED BY <1>7, <2>2, <2>3
<1>17. SiblingMarks'
  <2> SUFFICES ASSUME NEW m \in Node, NEW e \in stored'[m], NEW x \in stored'[m],
                      Siblings(m, e, x)', number'[m][e] = 0, mark'[m][x] # -1
               PROVE  mark'[m][e] # -1
    BY DEF SiblingMarks
  <2>1. e \in stored[m]
    BY <1>7, <1>13, <1>14
  <2>2. CASE x \in stored[m]
    <3>1. Siblings(m, e, x)
      BY <2>1, <2>2 DEF Siblings
    <3> QED BY <1>5, <2>1, <2>2, <3>1 DEF DInv, SiblingMarks
  <2>3. CASE m = n /\ x \in batch
    <3>1. Before(batch, x) # None
      BY <1>6, <2>3 DEF InheritedMark
    <3>2. Tree[x] # None /\ Tree[e] = Tree[x]
      BY <1>3, <2>3, <3>1, BeforeFirst DEF Siblings
    <3>3. e \in Event /\ Tree[e] \in Parent[e]
      BY <1>4, <2>1, <3>2 DEF TreeParents, TypeOK
    <3>4. Tree[e] \in stored[n]
      BY <2>1, <2>3, <3>3 DEF DInv, IInv, ParentsStored
    <3>5. mark'[n][x] = mark[n][Tree[e]]
      BY <1>3, <1>6, <2>3, <3>2, <3>4, BeforeIsTree DEF InheritedMark
    <3> QED BY <1>5, <2>1, <2>3, <3>2, <3>5 DEF DInv, LineMarks
  <2> QED BY <1>7, <2>2, <2>3
<1>18. \A m \in Node : \A c : StoredBy(m, c) \subseteq StoredBy(m, c)'
  BY <1>5 DEF StoredBy
<1>19. OtherNumber'
  <2> SUFFICES ASSUME NEW m \in Node, NEW e \in stored'[m], number'[m][e] # 0
               PROVE  \E x \in StoredBy(m, Creator[e])' : number'[m][x] # number'[m][e]
    BY DEF OtherNumber
  <2>1. CASE e \in stored[m]
    <3>1. PICK x \in StoredBy(m, Creator[e]) : number[m][x] # number[m][e]
      BY <1>5, <2>1 DEF DInv, OtherNumber
    <3>2. x \in stored[m]
      BY DEF StoredBy
    <3> QED BY <1>5, <1>18, <2>1, <3>1, <3>2
  <2>2. CASE m = n /\ e \in batch /\ ~Replays(n, batch, e)
    <3> DEFINE b == Before(batch, e)
    <3>1. b # None /\ number[n][b] # 0 /\ number'[n][e] = number[n][b]
      BY <1>6, <2>2 DEF NumberOf, InheritedNumber
    <3>2. b \in Event /\ Creator[b] = Creator[e]
      BY <1>3, <2>2, <3>1, BeforeCreator
    <3>3. b \in stored[n]
      BY <1>4, <3>1, <3>2 DEF TypeOK
    <3>4. PICK x \in StoredBy(n, Creator[b]) : number[n][x] # number[n][b]
      BY <3>1, <3>3 DEF DInv, OtherNumber
    <3>5. x \in stored[n]
      BY DEF StoredBy
    <3> QED BY <1>5, <1>18, <2>2, <3>1, <3>2, <3>4, <3>5
  <2>3. CASE m = n /\ e \in batch /\ Replays(n, batch, e) /\ StoredBy(n, Creator[e]) # {}
    <3>1. number'[n][e] = NaN
      BY <1>6, <2>3 DEF NumberOf, Counted
    <3>2. PICK y \in StoredBy(n, Creator[e]) : TRUE
      BY <2>3
    <3>3. y \in stored[n] /\ Creator[y] = Creator[e]
      BY DEF StoredBy
    <3>4. PICK x \in StoredBy(n, Creator[e]) : number[n][x] # NaN
      BY <3>3 DEF DInv, SomeNumber
    <3>5. x \in stored[n]
      BY DEF StoredBy
    <3> QED BY <1>5, <1>18, <2>3, <3>1, <3>4, <3>5
  <2>4. CASE m = n /\ e \in batch /\ Replays(n, batch, e) /\ StoredBy(n, Creator[e]) = {}
    <3>1. PICK x \in (stored[n] \cup batch) \ {e} : Tree[x] = Tree[e] /\ Creator[x] = Creator[e]
      BY <2>4 DEF Replays
    <3>2. x \in batch
      BY <2>4, <3>1 DEF StoredBy
    <3>3. Replays(n, batch, x)
      BY <2>4, <3>1 DEF Replays
    <3>4. Counted(n, batch, order, e) # Counted(n, batch, order, x)
      BY <2>4, <3>1, <3>2, <3>3, CountedApart
    <3>5. number'[n][e] # number'[n][x]
      BY <1>6, <2>4, <3>2, <3>3, <3>4 DEF NumberOf
    <3>6. x \in StoredBy(n, Creator[e])'
      BY <1>6, <3>1, <3>2 DEF StoredBy
    <3> QED BY <2>4, <3>5, <3>6
  <2> QED BY <1>7, <2>1, <2>2, <2>3, <2>4
<1>20. SomeNumber'
  <2> SUFFICES ASSUME NEW m \in Node, NEW e \in stored'[m]
               PROVE  \E x \in StoredBy(m, Creator[e])' : number'[m][x] # NaN
    BY DEF SomeNumber
  <2>1. CASE StoredBy(m, Creator[e]) # {}
    <3>1. PICK y \in StoredBy(m, Creator[e]) : TRUE
      BY <2>1
    <3>2. y \in stored[m] /\ Creator[y] = Creator[e]
      BY DEF StoredBy
    <3>3. PICK x \in StoredBy(m, Creator[e]) : number[m][x] # NaN
      BY <3>2 DEF DInv, SomeNumber
    <3>4. x \in stored[m]
      BY DEF StoredBy
    <3> QED BY <1>5, <1>18, <3>3, <3>4
  <2>2. CASE StoredBy(m, Creator[e]) = {}
    <3>1. m = n /\ e \in batch
      BY <1>7, <2>2 DEF StoredBy
    <3>2. e \in StoredBy(n, Creator[e])'
      BY <3>1 DEF StoredBy
    <3>3. CASE Replays(n, batch, e)
      <4>1. Counted(n, batch, order, e) \in Nat
        BY <2>2, <3>1, CountType DEF Counted
      <4> QED BY <1>6, <3>1, <3>2, <3>3, <4>1 DEF NumberOf, NaN
    <3>4. CASE ~Replays(n, batch, e)
      <4>1. Before(batch, e) = None \/ Before(batch, e) \notin stored[n]
        BY <1>3, <2>2, <3>1, BeforeCreator DEF StoredBy
      <4>2. InheritedNumber(n, batch, e) = 0
        BY <1>3, <1>4, <3>1, <4>1, BeforeType DEF InheritedNumber, TypeOK
      <4> QED BY <1>6, <3>1, <3>2, <3>4, <4>2 DEF NumberOf, NaN
    <3> QED BY <3>3, <3>4
  <2> QED BY <2>1, <2>2
<1> QED BY <1>9, <1>10, <1>11, <1>12, <1>15, <1>16, <1>17, <1>19, <1>20
LEMMA CreateDInv ==
  ASSUME DInv, NEW n \in Node, NEW e \in Event, Create(n, e)
  PROVE  /\ OwnUnforked' /\ OutsideMarked' /\ ResultMarked' /\ NumberedMarked'
         /\ OtherNumber' /\ SomeNumber' /\ SiblingsNumbered' /\ SiblingMarks' /\ LineMarks'
<1> USE ReplaysAssumption
<1>1. /\ stored' = [stored EXCEPT ![n] = @ \cup {e}]
      /\ history' = [history EXCEPT ![n] = @ \cup {e}]
      /\ UNCHANGED <<number, mark, blockOf, height, result>>
      /\ Creator[e] = n /\ \A x \in StoredBy(n, n) : Tree[x] # Tree[e]
      /\ Parent[e] \subseteq history[n] \cup stored[n]
  BY DEF Create
<1>2. TypeOK /\ TypeOK'
  BY CreateIInv DEF DInv, IInv
<1>3. e \notin stored[n] /\ number[n][e] = 0 /\ mark[n][e] = -1 /\ blockOf[n][e] = -1
  BY <1>1, <1>2 DEF StoredBy, TypeOK
<1>4. \A m \in Node : \A x \in stored'[m] : x \in stored[m] \/ (m = n /\ x = e)
  BY <1>1, <1>2 DEF TypeOK
<1>5. \A m \in Node : /\ stored[m] \subseteq stored'[m] /\ history[m] \subseteq history'[m]
                      /\ \A c : StoredBy(m, c) \subseteq StoredBy(m, c)'
  BY <1>1, <1>2 DEF TypeOK, StoredBy
<1>6. e \in history'[n] /\ e \in stored'[n]
  BY <1>1, <1>2 DEF TypeOK
(* The new event has no sibling, so what holds of siblings holds still.     *)
<1>7. ASSUME NEW m \in Node, NEW x \in stored'[m], NEW y \in stored'[m], Siblings(m, x, y)'
      PROVE  Siblings(m, x, y)
  <2>1. x \in stored[m] /\ y \in stored[m]
    <3>1. CASE m = n /\ x = e
      BY <1>1, <1>4, <1>7, <3>1 DEF Siblings, StoredBy
    <3>2. CASE m = n /\ y = e
      BY <1>1, <1>4, <1>7, <3>2 DEF Siblings, StoredBy
    <3> QED BY <1>4, <3>1, <3>2
  <2> QED BY <1>7, <2>1 DEF Siblings
<1>8. OwnUnforked'
  BY <1>7 DEF DInv, OwnUnforked, Siblings
<1>9. SiblingsNumbered' /\ SiblingMarks'
  BY <1>1, <1>7 DEF DInv, SiblingsNumbered, SiblingMarks, Siblings
<1>10. OutsideMarked' /\ NumberedMarked'
  BY <1>1, <1>3, <1>4, <1>5, <1>6 DEF DInv, OutsideMarked, NumberedMarked
<1>11. ResultMarked'
  <2>1. result[n].replayerSet = {}
    BY DEF Create, Idle, NoResult
  <2> QED BY <1>1, <1>4, <2>1 DEF DInv, ResultMarked
<1>12. OtherNumber'
  BY <1>1, <1>3, <1>4, <1>5 DEF DInv, OtherNumber
<1>13. SomeNumber'
  <2>1. e \in StoredBy(n, Creator[e])' /\ number'[n][e] # NaN
    BY <1>1, <1>3, <1>6 DEF StoredBy, NaN
  <2> QED BY <1>1, <1>4, <1>5, <2>1 DEF DInv, SomeNumber
(* The node's own events are never marked.                                  *)
<1>14. ASSUME NEW x \in stored[n], Creator[x] = n, mark[n][x] # -1 PROVE FALSE
  <2>1. OnlyForkersMarked /\ OwnUnforked
    BY DEF DInv
  <2>2. PICK y, z \in StoredBy(n, n) : y # z /\ Tree[y] = Tree[z]
    BY <1>14, <2>1 DEF OnlyForkersMarked
  <2>3. Siblings(n, y, z)
    BY <2>2 DEF Siblings, StoredBy
  <2> QED BY <2>1, <2>2, <2>3 DEF OwnUnforked, StoredBy
<1>15. LineMarks'
  <2>1. ASSUME Tree[e] # None PROVE mark[n][Tree[e]] = -1
    <3>1. Tree[e] \in Parent[e] /\ Tree[e] \in stored[n]
      BY <1>1, <1>2, <2>1 DEF TreeParents, TypeOK
    <3>2. Creator[Tree[e]] = Creator[e]
      <4>1. Tree[e] \in Event /\ Line[e] = {e} \cup Line[Tree[e]]
        BY <2>1, Lineage DEF TreeParents
      <4>2. Tree[e] \in Line[e]
        BY <4>1, Lineage
      <4> QED BY <4>2, Lineage
    <3> QED BY <1>1, <1>14, <3>1, <3>2
  <2> QED BY <1>1, <1>4, <2>1 DEF DInv, LineMarks
<1> QED BY <1>8, <1>9, <1>10, <1>11, <1>12, <1>13, <1>15

(* A replayer is found at an event with a number other than 0.              *)
LEMMA FindConsensusDInv ==
  ASSUME DInv, NEW n \in Node, FindConsensus(n)
  PROVE  /\ OwnUnforked' /\ OutsideMarked' /\ ResultMarked' /\ NumberedMarked'
         /\ OtherNumber' /\ SomeNumber' /\ SiblingsNumbered' /\ SiblingMarks' /\ LineMarks'
<1> USE ReplaysAssumption
<1> DEFINE h == height[n] + 1
           es == MergeEvents(n, h)
           cs == NewReplayers(n, es)
<1>1. /\ result' = [result EXCEPT ![n] = [mergeEventHash |-> es, replayerSet |-> cs]]
      /\ mark' = [mark EXCEPT ![n] = Marked(n, cs, h)]
      /\ UNCHANGED <<stored, number, blockOf, height, history>>
  BY DEF FindConsensus
<1>2. TypeOK
  BY DEF DInv, IInv
<1>3. es \subseteq history[n] /\ history[n] \subseteq stored[n] /\ stored[n] \subseteq Event
  BY <1>2 DEF MergeEvents, AncestorsWithin, TypeOK
<1>4. h # -1
  BY <1>2 DEF TypeOK
<1>5. \A e \in es : number[n][e] # 0 => mark[n][e] # -1 \/ Creator[e] \in cs
  <2> SUFFICES ASSUME NEW e \in es, number[n][e] # 0, mark[n][e] = -1
               PROVE  Creator[e] \in cs
    OBVIOUS
  <2>1. e \in Unmarked(n, es, Creator[e])
    BY DEF Unmarked
  <2>2. DiffersFromStored(n, number[n][e], Creator[e])
    BY <1>3 DEF DiffersFromStored, DInv, OtherNumber
  <2> HIDE DEF es
  <2>3. Creator[e] \in CreatorsOf(es)
    BY DEF CreatorsOf
  <2> QED BY <2>1, <2>2, <2>3 DEF NewReplayers
<1> HIDE DEF h, es, cs
<1>6. \A m \in Node : \A e \in stored[m] :
        mark'[m][e] = IF m = n /\ Creator[e] \in cs THEN h ELSE mark[m][e]
  BY <1>1, <1>2 DEF Marked, TypeOK
<1>7. \A m \in Node : \A e \in stored[m] : mark[m][e] # -1 => mark'[m][e] # -1
  BY <1>4, <1>6
<1>8. OwnUnforked' /\ SiblingsNumbered'
  BY <1>1 DEF DInv, OwnUnforked, SiblingsNumbered, Siblings
<1>9. OtherNumber' /\ SomeNumber'
  BY <1>1 DEF DInv, OtherNumber, SomeNumber, StoredBy
<1>10. OutsideMarked' /\ NumberedMarked'
  BY <1>1, <1>7 DEF DInv, OutsideMarked, NumberedMarked
<1>11. SiblingMarks'
  <2> SUFFICES ASSUME NEW m \in Node, NEW e \in stored[m], NEW x \in stored[m],
                      Siblings(m, e, x), number[m][e] = 0, mark'[m][x] # -1
               PROVE  mark'[m][e] # -1
    BY <1>1 DEF SiblingMarks, Siblings
  <2>1. Creator[e] = Creator[x]
    BY DEF Siblings
  <2>2. mark[m][x] # -1 => mark[m][e] # -1
    BY DEF DInv, SiblingMarks
  <2> QED BY <1>4, <1>6, <1>7, <2>1, <2>2
<1>12. LineMarks'
  <2> SUFFICES ASSUME NEW m \in Node, NEW e \in stored[m], Tree[e] # None, mark'[m][Tree[e]] # -1
               PROVE  mark'[m][e] # -1
    BY <1>1 DEF LineMarks
  <2>1. e \in Event
    BY <1>2 DEF TypeOK
  <2>2. Tree[e] \in Parent[e]
    BY <2>1 DEF TreeParents
  <2>3. Tree[e] \in stored[m]
    BY <2>2 DEF DInv, IInv, ParentsStored
  <2>4. Creator[Tree[e]] = Creator[e]
    <3>1. Tree[e] \in Event /\ Line[e] = {e} \cup Line[Tree[e]]
      BY <2>1, Lineage DEF TreeParents
    <3>2. Tree[e] \in Line[e]
      BY <3>1, Lineage
    <3> QED BY <2>1, <3>2, Lineage
  <2>5. mark[m][Tree[e]] # -1 => mark[m][e] # -1
    BY DEF DInv, LineMarks
  <2> QED BY <1>4, <1>6, <1>7, <2>3, <2>4, <2>5
<1>13. ResultMarked'
  <2>1. \A m \in Node : m # n => result'[m] = result[m] /\ result[m].mergeEventHash \subseteq stored[m]
    BY <1>1, <1>2 DEF TypeOK
  <2>2. result'[n].mergeEventHash = es /\ result'[n].replayerSet = cs
    BY <1>1, <1>2 DEF TypeOK
  <2>3. \A e \in es : number[n][e] # 0 => mark'[n][e] # -1
    BY <1>3, <1>4, <1>5, <1>6, <1>7
  <2>4. \A e \in stored[n] : Creator[e] \in cs => mark'[n][e] # -1
    BY <1>4, <1>6
  <2>5. \A m \in Node : \A e \in result'[m].mergeEventHash : number'[m][e] # 0 => mark'[m][e] # -1
    <3> SUFFICES ASSUME NEW m \in Node, NEW e \in result'[m].mergeEventHash, number[m][e] # 0
                 PROVE  mark'[m][e] # -1
      BY <1>1
    <3>1. CASE m = n
      BY <2>2, <2>3, <3>1
    <3>2. CASE m # n
      <4>1. e \in stored[m] /\ mark[m][e] # -1
        BY <2>1, <3>2 DEF DInv, ResultMarked
      <4> QED BY <1>7, <4>1
    <3> QED BY <3>1, <3>2
  <2>6. \A m \in Node : \A e \in stored'[m] :
          Creator[e] \in result'[m].replayerSet => mark'[m][e] # -1
    <3> SUFFICES ASSUME NEW m \in Node, NEW e \in stored[m], Creator[e] \in result'[m].replayerSet
                 PROVE  mark'[m][e] # -1
      BY <1>1
    <3>1. CASE m = n
      BY <2>2, <2>4, <3>1
    <3>2. CASE m # n
      BY <1>7, <2>1, <3>2 DEF DInv, ResultMarked
    <3> QED BY <3>1, <3>2
  <2> QED BY <2>5, <2>6 DEF ResultMarked
<1> QED BY <1>8, <1>9, <1>10, <1>11, <1>12, <1>13

LEMMA WriteBlockDInv ==
  ASSUME DInv, NEW n \in Node, WriteBlock(n)
  PROVE  /\ OwnUnforked' /\ OutsideMarked' /\ ResultMarked' /\ NumberedMarked'
         /\ OtherNumber' /\ SomeNumber' /\ SiblingsNumbered' /\ SiblingMarks' /\ LineMarks'
<1> USE ReplaysAssumption
<1> DEFINE es == result[n].mergeEventHash
           decided == es \cup NonConsensusParents(n, es)
           h == height[n] + 1
<1>1. /\ blockOf' = [blockOf EXCEPT ![n] = [e \in Event |->
                       IF e \in decided THEN h ELSE @[e]]]
      /\ history' = [history EXCEPT ![n] =
                       {e \in @ \ es : Creator[e] \notin result[n].replayerSet}]
      /\ result' = [result EXCEPT ![n] = NoResult]
      /\ UNCHANGED <<stored, number, mark>>
  BY DEF WriteBlock, records
<1>2. TypeOK
  BY DEF DInv, IInv
<1>3. es \subseteq stored[n] /\ h # -1
  BY <1>2 DEF TypeOK
<1>4. \A e \in decided : number[n][e] # 0 => mark[n][e] # -1
  <2>1. \A e \in es : number[n][e] # 0 => mark[n][e] # -1
    BY DEF DInv, ResultMarked
  <2>2. ASSUME NEW p \in NonConsensusParents(n, es) PROVE mark[n][p] # -1
    <3>1. /\ p \in UNION {Parent[e] : e \in es}
          /\ p \notin history[n] /\ blockOf[n][p] = -1
      BY <2>2 DEF NonConsensusParents
    <3>2. PICK e \in es : p \in Parent[e]
      BY <3>1
    <3>3. p \in stored[n]
      <4>1. ParentsStored /\ e \in stored[n]
        BY <1>3, <3>2 DEF DInv, IInv
      <4> QED BY <3>2, <4>1 DEF ParentsStored
    <3> QED BY <3>1, <3>3 DEF DInv, OutsideMarked
  <2> QED BY <2>1, <2>2
<1>5. es \subseteq decided
  OBVIOUS
<1> HIDE DEF es, decided, h
<1>6. \A m \in Node : \A e \in stored[m] :
        /\ blockOf'[m][e] = IF m = n /\ e \in decided THEN h ELSE blockOf[m][e]
        /\ e \in history'[m] <=> /\ e \in history[m]
                                 /\ m = n => e \notin es /\ Creator[e] \notin result[n].replayerSet
  BY <1>1, <1>2 DEF TypeOK
<1>7. OwnUnforked' /\ SiblingsNumbered' /\ SiblingMarks' /\ LineMarks'
  BY <1>1 DEF DInv, OwnUnforked, SiblingsNumbered, SiblingMarks, LineMarks, Siblings
<1>8. OtherNumber' /\ SomeNumber'
  BY <1>1 DEF DInv, OtherNumber, SomeNumber, StoredBy
<1>9. NumberedMarked'
  <2> SUFFICES ASSUME NEW m \in Node, NEW e \in stored[m], blockOf'[m][e] # -1, number[m][e] # 0
               PROVE  mark[m][e] # -1
    BY <1>1 DEF NumberedMarked
  <2>1. CASE m = n /\ e \in decided
    BY <1>4, <2>1
  <2>2. CASE ~(m = n /\ e \in decided)
    <3>1. blockOf[m][e] # -1
      BY <1>6, <2>2
    <3> QED BY <3>1 DEF DInv, NumberedMarked
  <2> QED BY <2>1, <2>2
<1>10. OutsideMarked'
  <2> SUFFICES ASSUME NEW m \in Node, NEW e \in stored[m],
                      blockOf'[m][e] = -1, e \notin history'[m]
               PROVE  mark[m][e] # -1
    BY <1>1 DEF OutsideMarked
  <2>1. blockOf[m][e] = -1 /\ ~(m = n /\ e \in decided)
    BY <1>3, <1>6
  <2>2. CASE e \in history[m]
    <3>1. m = n /\ Creator[e] \in result[n].replayerSet
      BY <1>5, <1>6, <2>1, <2>2
    <3> QED BY <3>1 DEF DInv, ResultMarked
  <2>3. CASE e \notin history[m]
    BY <2>1, <2>3 DEF DInv, OutsideMarked
  <2> QED BY <2>2, <2>3
<1>11. ResultMarked'
  <2>1. /\ result'[n].mergeEventHash = {} /\ result'[n].replayerSet = {}
        /\ \A m \in Node : m # n => result'[m] = result[m]
    BY <1>1, <1>2 DEF NoResult, TypeOK
  <2>2. \A m \in Node : \A e \in result'[m].mergeEventHash : number[m][e] # 0 => mark[m][e] # -1
    BY <2>1 DEF DInv, ResultMarked
  <2>3. \A m \in Node : \A e \in stored[m] :
          Creator[e] \in result'[m].replayerSet => mark[m][e] # -1
    BY <2>1 DEF DInv, ResultMarked
  <2> QED BY <1>1, <2>2, <2>3 DEF ResultMarked
<1> QED BY <1>7, <1>8, <1>9, <1>10, <1>11

LEMMA NewSessionDInv ==
  ASSUME DInv, NEW n \in Node, NewSession(n)
  PROVE  /\ OwnUnforked' /\ OutsideMarked' /\ ResultMarked' /\ NumberedMarked'
         /\ OtherNumber' /\ SomeNumber' /\ SiblingsNumbered' /\ SiblingMarks' /\ LineMarks'
<1>1. /\ history' = [history EXCEPT ![n] = NonConsensusEvents(n)]
      /\ result' = [result EXCEPT ![n] = NoResult]
      /\ UNCHANGED <<stored, number, mark, blockOf>>
  BY DEF NewSession, records
<1>2. TypeOK
  BY DEF DInv, IInv
<1>3. OwnUnforked' /\ SiblingsNumbered' /\ SiblingMarks' /\ LineMarks' /\ NumberedMarked'
  BY <1>1 DEF DInv, OwnUnforked, SiblingsNumbered, SiblingMarks, LineMarks, NumberedMarked, Siblings
<1>4. OtherNumber' /\ SomeNumber'
  BY <1>1 DEF DInv, OtherNumber, SomeNumber, StoredBy
<1>5. OutsideMarked'
  <2>1. \A e \in stored[n] : blockOf[n][e] = -1 /\ e \notin NonConsensusEvents(n) => mark[n][e] # -1
    BY DEF NonConsensusEvents
  <2>2. \A m \in Node : history'[m] = IF m = n THEN NonConsensusEvents(n) ELSE history[m]
    BY <1>1, <1>2 DEF TypeOK
  <2> QED BY <1>1, <2>1, <2>2 DEF DInv, OutsideMarked
<1>6. ResultMarked'
  <2>1. /\ result'[n].mergeEventHash = {} /\ result'[n].replayerSet = {}
        /\ \A m \in Node : m # n => result'[m] = result[m]
    BY <1>1, <1>2 DEF NoResult, TypeOK
  <2>2. \A m \in Node : \A e \in result'[m].mergeEventHash : number[m][e] # 0 => mark[m][e] # -1
    BY <2>1 DEF DInv, ResultMarked
  <2>3. \A m \in Node : \A e \in stored[m] :
          Creator[e] \in result'[m].replayerSet => mark[m][e] # -1
    BY <2>1 DEF DInv, ResultMarked
  <2> QED BY <1>1, <2>2, <2>3 DEF ResultMarked
<1> QED BY <1>3, <1>4, <1>5, <1>6

LEMMA NextDInv ==
  ASSUME DInv, [Next]_vars
  PROVE  DInv'
<1>1. IInv' /\ ForkersNumbered' /\ OnlyForkersMarked'
  BY NextIInv, NextForked DEF DInv
<1>2. CASE UNCHANGED vars
  BY <1>1, <1>2 DEF DInv, OwnUnforked, OutsideMarked, ResultMarked, NumberedMarked, OtherNumber,
                    SomeNumber, SiblingsNumbered, SiblingMarks, LineMarks, Siblings, StoredBy,
                    vars, records
<1>3. CASE Next
  <2>1. /\ OwnUnforked' /\ OutsideMarked' /\ ResultMarked' /\ NumberedMarked'
        /\ OtherNumber' /\ SomeNumber' /\ SiblingsNumbered' /\ SiblingMarks' /\ LineMarks'
    BY <1>3, ReceiveDInv, CreateDInv, FindConsensusDInv, WriteBlockDInv, NewSessionDInv DEF Next
  <2> QED BY <1>1, <2>1 DEF DInv
<1> QED BY <1>2, <1>3

(* Lines.                                                                   *)

(* Nothing goes back for ever: of any events, one has its tree parent       *)
(* outside of them.                                                         *)
LEMMA FirstOfLine ==
  ASSUME NEW S \in SUBSET Event, S # {}
  PROVE  \E e \in S : Tree[e] \notin S
<1> USE ReplaysAssumption
<1> DEFINE length(e) == Cardinality(Line[e])
<1>1. \A e \in Event : Line[e] \in SUBSET Event
  BY DEF Line, AncestorsWithin
<1>2. \A e \in Event : IsFiniteSet(Line[e]) /\ length(e) \in Nat
  BY <1>1, FS_Subset, FS_CardinalityType
<1>3. ASSUME NEW e \in Event, Tree[e] # None
      PROVE  length(Tree[e]) < length(e)
  <2>1. Tree[e] \in Event /\ TreeParents[e] = {Tree[e]}
    BY <1>3 DEF TreeParents
  <2>2. Line[e] = {e} \cup Line[Tree[e]]
    BY <2>1, Lineage
  <2>3. Tree[e] \in Line[Tree[e]]
    BY <2>1, Lineage
  <2>4. e \notin Line[Tree[e]]
    BY <2>2, <2>3, Lineage
  <2>5. length(e) = length(Tree[e]) + 1
    <3> DEFINE T == Line[Tree[e]]
    <3>1. IsFiniteSet(T) /\ e \notin T /\ Line[e] = T \cup {e}
      BY <1>2, <2>1, <2>2, <2>4
    <3> HIDE DEF T
    <3>2. Cardinality(T \cup {e}) = Cardinality(T) + 1
      BY <3>1, FS_AddElement
    <3> QED BY <3>1, <3>2 DEF T
  <2> HIDE DEF length
  <2> QED BY <1>2, <2>1, <2>5
<1> DEFINE lengths == {length(e) : e \in S}
<1>4. PICK k \in lengths : \A j \in lengths : ~(j < k)
  <2>1. lengths \subseteq Nat /\ lengths # {}
    BY <1>2
  <2> HIDE DEF lengths
  <2>2. PICK k \in lengths : \A j \in lengths : <<j, k>> \notin OpToRel(<, Nat)
    BY <2>1, NatLessThanWellFounded, WFMin
  <2> QED BY <2>1, <2>2 DEF OpToRel
<1>5. PICK e \in S : length(e) = k
  OBVIOUS
<1>6. ASSUME Tree[e] \in S PROVE FALSE
  <2>1. length(Tree[e]) \in lengths
    BY <1>6
  <2>2. Tree[e] # None
    BY <1>6
  <2> QED BY <1>3, <1>4, <1>5, <2>1, <2>2
<1> QED BY <1>6

LEMMA LineStep ==
  ASSUME NEW e \in Event
  PROVE  /\ e \in Line[e] /\ Line[e] \subseteq Event
         /\ Tree[e] = None => Line[e] = {e}
         /\ Tree[e] # None => Tree[e] \in Event /\ Line[e] = {e} \cup Line[Tree[e]]
<1> USE ReplaysAssumption
<1>1. e \in Line[e] /\ Line[e] \subseteq Event
  <2>1. Line[e] \subseteq Event
    BY DEF Line, AncestorsWithin
  <2>2. e \in Line[e]
    BY Lineage
  <2> QED BY <2>1, <2>2
<1>2. Tree[e] = None => TreeParents[e] = {}
  BY DEF TreeParents
<1>3. Tree[e] # None => Tree[e] \in Event /\ TreeParents[e] = {Tree[e]}
  BY DEF TreeParents
<1> QED BY <1>1, <1>2, <1>3, Lineage

(* The line of an event on a line is part of that.                          *)
LEMMA LineInLine ==
  ASSUME NEW e \in Event, NEW x \in Line[e]
  PROVE  Line[x] \subseteq Line[e]
<1> DEFINE bad == {y \in Event : \E z \in Line[y] : ~(Line[z] \subseteq Line[y])}
<1>1. SUFFICES ASSUME bad # {} PROVE FALSE
  OBVIOUS
<1>2. PICK y \in bad : Tree[y] \notin bad
  <2>1. bad \in SUBSET Event
    OBVIOUS
  <2> HIDE DEF bad
  <2> QED BY <1>1, <2>1, FirstOfLine
<1>3. PICK z \in Line[y] : ~(Line[z] \subseteq Line[y])
  OBVIOUS
<1>4. z # y
  BY <1>3
<1>5. Tree[y] \in Event /\ Line[y] = {y} \cup Line[Tree[y]]
  BY <1>3, <1>4, LineStep
<1> QED BY <1>2, <1>3, <1>4, <1>5

(* Of two events on a line one is on the line of the other.                 *)
LEMMA LineOrdered ==
  ASSUME NEW e \in Event, NEW x \in Line[e], NEW y \in Line[e]
  PROVE  x \in Line[y] \/ y \in Line[x]
<1> DEFINE bad == {z \in Event : \E u, v \in Line[z] : u \notin Line[v] /\ v \notin Line[u]}
<1>1. SUFFICES ASSUME bad # {} PROVE FALSE
  OBVIOUS
<1>2. PICK z \in bad : Tree[z] \notin bad
  <2>1. bad \in SUBSET Event
    OBVIOUS
  <2> HIDE DEF bad
  <2> QED BY <1>1, <2>1, FirstOfLine
<1>3. PICK u \in Line[z], v \in Line[z] : u \notin Line[v] /\ v \notin Line[u]
  OBVIOUS
<1>4. u # z /\ v # z
  BY <1>3
<1>5. Tree[z] \in Event /\ Line[z] = {z} \cup Line[Tree[z]]
  BY <1>3, <1>4, LineStep
<1> QED BY <1>2, <1>3, <1>4, <1>5

(* The lines of two sides part at two events that follow the same one.      *)
LEMMA LinesPart ==
  ASSUME NEW e \in Event, NEW x \in Event, e \notin Line[x], x \notin Line[e]
  PROVE  \E a \in Line[e] \ Line[x] : \E b \in Line[x] \ Line[e] : Tree[a] = Tree[b]
<1> USE ReplaysAssumption
<1>0. \A y, z \in Event : y \notin Line[z] /\ z \notin Line[y] =>
        \E a \in Line[y] \ Line[z] : Tree[a] \in (Line[y] \cap Line[z]) \cup {None}
  <2> SUFFICES ASSUME NEW y \in Event, NEW z \in Event, y \notin Line[z]
               PROVE  \E a \in Line[y] \ Line[z] : Tree[a] \in (Line[y] \cap Line[z]) \cup {None}
    OBVIOUS
  <2>1. Line[y] \ Line[z] \in SUBSET Event /\ Line[y] \ Line[z] # {}
    BY LineStep
  <2>2. PICK a \in Line[y] \ Line[z] : Tree[a] \notin Line[y] \ Line[z]
    BY <2>1, FirstOfLine
  <2>3. ASSUME Tree[a] # None PROVE Tree[a] \in Line[y]
    <3>1. a \in Event /\ Tree[a] \in Event /\ Line[a] = {a} \cup Line[Tree[a]]
      BY <2>1, <2>3, LineStep
    <3>2. Tree[a] \in Line[a]
      BY <3>1, LineStep
    <3> QED BY <3>2, LineInLine
  <2> QED BY <2>2, <2>3
<1>1. PICK a \in Line[e] \ Line[x] : Tree[a] \in (Line[e] \cap Line[x]) \cup {None}
  BY <1>0
<1>2. PICK b \in Line[x] \ Line[e] : Tree[b] \in (Line[e] \cap Line[x]) \cup {None}
  BY <1>0
<1>3. a \in Event /\ b \in Event /\ Line[e] \subseteq Event /\ Line[x] \subseteq Event
  BY LineStep
<1>4. ASSUME NEW y \in Event, NEW z \in Event, NEW c \in Line[y] \ Line[z],
             NEW t \in Line[y] \cap Line[z]
      PROVE  Tree[c] \in Event /\ t \in Line[Tree[c]]
  <2>1. c \in Event /\ (t \in Line[c] \/ c \in Line[t])
    BY LineOrdered, LineStep
  <2>2. c \notin Line[t]
    BY LineInLine
  <2>3. t \in Line[c] /\ t # c
    BY <2>1, <2>2
  <2> QED BY <2>1, <2>3, LineStep
<1>5. CASE Tree[b] # None
  <2>1. Tree[a] \in Event /\ Tree[b] \in Line[Tree[a]]
    BY <1>2, <1>4, <1>5
  <2>2. Tree[a] \in Line[Tree[b]]
    BY <1>1, <1>4, <2>1
  <2> QED BY <2>1, <2>2, Lineage
<1>6. CASE Tree[b] = None
  <2>1. Tree[a] = None
    BY <1>1, <1>4, <1>6
  <2> QED BY <1>6, <2>1
<1> QED BY <1>5, <1>6

(* Whoever has the parents of all that it has, has its lines.               *)
LEMMA LineHeld ==
  ASSUME NEW S \in SUBSET Event, \A y \in S : Parent[y] \subseteq S, NEW e \in S
  PROVE  Line[e] \subseteq S
<1> USE ReplaysAssumption
<1> DEFINE bad == {y \in S : ~(Line[y] \subseteq S)}
<1>1. SUFFICES ASSUME bad # {} PROVE FALSE
  OBVIOUS
<1>2. PICK y \in bad : Tree[y] \notin bad
  <2>1. bad \in SUBSET Event
    OBVIOUS
  <2> HIDE DEF bad
  <2> QED BY <1>1, <2>1, FirstOfLine
<1>3. y \in Event /\ y \in S
  OBVIOUS
<1>4. CASE Tree[y] = None
  BY <1>3, <1>4, LineStep
<1>5. CASE Tree[y] # None
  <2>1. Line[y] = {y} \cup Line[Tree[y]]
    BY <1>3, <1>5, LineStep
  <2>2. Tree[y] \in Parent[y]
    BY <1>3, <1>5 DEF TreeParents
  <2>3. Tree[y] \in S
    BY <1>3, <2>2
  <2> QED BY <1>2, <1>3, <2>1, <2>3
<1> QED BY <1>4, <1>5

(* What an event inherits from is the last event of its line that is not in *)
(* the batch.                                                               *)
LEMMA BeforeIsLatest ==
  ASSUME NEW batch \in SUBSET Event, NEW e \in batch
  PROVE  IF Line[e] \subseteq batch THEN Before(batch, e) = None
         ELSE /\ Before(batch, e) \in Line[e] \ batch
              /\ Line[e] \ batch \subseteq Line[Before(batch, e)]
<1> USE ReplaysAssumption
<1> DEFINE good(y) == IF Line[y] \subseteq batch THEN Before(batch, y) = None
                      ELSE /\ Before(batch, y) \in Line[y] \ batch
                           /\ Line[y] \ batch \subseteq Line[Before(batch, y)]
           bad == {y \in batch : ~good(y)}
<1>1. SUFFICES ASSUME bad # {} PROVE FALSE
  OBVIOUS
<1>2. PICK y \in bad : Tree[y] \notin bad
  <2>1. bad \in SUBSET Event
    OBVIOUS
  <2> HIDE DEF bad
  <2> QED BY <1>1, <2>1, FirstOfLine
<1>3. y \in Event /\ y \in batch /\ ~good(y)
  OBVIOUS
<1>4. CASE Tree[y] = None
  <2>1. Line[y] \subseteq batch
    BY <1>3, <1>4, LineStep
  <2>2. Before(batch, y) = None
    BY <1>3, <1>4, BeforeFirst
  <2> QED BY <1>3, <2>1, <2>2
<1>5. CASE Tree[y] # None
  <2>1. Tree[y] \in Event /\ Line[y] = {y} \cup Line[Tree[y]] /\ Tree[y] \in Line[Tree[y]]
    BY <1>3, <1>5, LineStep
  <2>2. Line[y] \ batch = Line[Tree[y]] \ batch
    BY <1>3, <2>1
  <2>3. CASE Tree[y] \notin batch
    <3>1. Before(batch, y) = Tree[y]
      BY <1>3, <1>5, <2>3, BeforeIsTree
    <3>2. good(y)
      BY <2>1, <2>2, <2>3, <3>1
    <3> QED BY <1>3, <3>2
  <2>4. CASE Tree[y] \in batch
    <3>1. Before(batch, y) = Before(batch, Tree[y])
      BY <1>3, <1>5, <2>4, BeforeIsTree
    <3>2. good(Tree[y])
      BY <1>2, <2>4
    <3>3. good(y)
      BY <2>2, <3>1, <3>2
    <3> QED BY <1>3, <3>3
  <2> QED BY <2>3, <2>4
<1> QED BY <1>4, <1>5
-----------------------------------------------------------------------------
(* When some event of a creator is marked, all of its events with the       *)
(* number 0 are.                                                            *)
MarkReachesAll ==
  \A n \in Node : \A e, x \in stored[n] :
    Creator[e] = Creator[x] /\ mark[n][e] # -1 /\ number[n][x] = 0 => mark[n][x] # -1

SInv == DInv /\ SidesDiffer /\ MarkReachesAll

(* SidesDiffer, of two events.                                              *)
Apart(e, x) == Creator[e] = Creator[x] /\ e \notin Line[x] /\ x \notin Line[e]
LEMMA SidesAreApart ==
  SidesDiffer <=> \A n \in Node : \A e, x \in Event :
                    Apart(e, x) /\ e \in stored[n] /\ x \in stored[n]
                      => ~SameNumber(number[n][e], number[n][x])
<1>1. ASSUME SidesDiffer, NEW n \in Node, NEW e \in Event, NEW x \in Event,
             Apart(e, x), e \in stored[n], x \in stored[n]
      PROVE  ~SameNumber(number[n][e], number[n][x])
  <2>1. <<e, x>> \in Sides
    BY <1>1 DEF Sides, Apart
  <2> QED BY <1>1, <2>1 DEF SidesDiffer
<1>2. ASSUME \A n \in Node : \A e, x \in Event :
               Apart(e, x) /\ e \in stored[n] /\ x \in stored[n]
                 => ~SameNumber(number[n][e], number[n][x]),
             NEW n \in Node, NEW ex \in Sides, {ex[1], ex[2]} \subseteq stored[n]
      PROVE  ~SameNumber(number[n][ex[1]], number[n][ex[2]])
  <2>1. ex[1] \in Event /\ ex[2] \in Event /\ Apart(ex[1], ex[2])
    BY DEF Sides, Apart
  <2> QED BY <1>2, <2>1
<1> QED BY <1>1, <1>2 DEF SidesDiffer

LEMMA InitSides == Init => SidesDiffer /\ MarkReachesAll
BY DEF Init, SidesDiffer, MarkReachesAll

LEMMA ReceiveSides ==
  ASSUME SInv, NEW n \in Node, NEW batch \in Batches, Receive(n, batch)
  PROVE  SidesDiffer' /\ MarkReachesAll'
<1> USE ReplaysAssumption
<1>1. PICK order \in Orders(batch) :
        number' = [number EXCEPT ![n] = [e \in Event |->
          IF e \in batch THEN NumberOf(n, batch, order, e) ELSE @[e]]]
  BY DEF Receive
<1>2. /\ stored' = [stored EXCEPT ![n] = @ \cup batch]
      /\ mark' = [mark EXCEPT ![n] = [e \in Event |->
                    IF e \in batch THEN InheritedMark(n, batch, e) ELSE @[e]]]
      /\ ~Unprocessable(n, batch)
  BY DEF Receive
<1>3. batch \in SUBSET Event /\ \A e \in batch : e \notin stored[n]
  BY DEF Receive, Offered, Batches
<1>4. TypeOK /\ ParentsStored /\ IInv' /\ DInv /\ stored[n] \subseteq Event
  BY ReceiveIInv DEF SInv, DInv, IInv, TypeOK
<1>5. \A m \in Node : \A e \in stored[m] :
        /\ e \in stored'[m] /\ number'[m][e] = number[m][e] /\ mark'[m][e] = mark[m][e]
  BY <1>1, <1>2, <1>3, <1>4 DEF TypeOK
<1>6. \A e \in batch : /\ e \in Event /\ e \in stored'[n]
                       /\ number'[n][e] = NumberOf(n, batch, order, e)
                       /\ mark'[n][e] = InheritedMark(n, batch, e)
  BY <1>1, <1>2, <1>3, <1>4 DEF TypeOK
<1>7. \A m \in Node : \A e \in stored'[m] : e \in stored[m] \/ (m = n /\ e \in batch)
  BY <1>2, <1>4 DEF TypeOK
<1>8. /\ \A e \in stored'[n] : e \in Event /\ Line[e] \subseteq stored'[n]
      /\ \A e \in stored[n] : Line[e] \subseteq stored[n]
  <2>1. stored'[n] \in SUBSET Event /\ stored[n] \in SUBSET Event
    BY <1>3, <1>4, <1>7
  <2>2. /\ \A y \in stored'[n] : Parent[y] \subseteq stored'[n]
        /\ \A y \in stored[n] : Parent[y] \subseteq stored[n]
    BY <1>4 DEF IInv, ParentsStored
  <2> QED BY <2>1, <2>2, LineHeld
(* Two sides have siblings; when one of these is in the batch, whatever its *)
(* creator has in the batch replays.                                        *)
<1>9. ASSUME NEW e \in batch, NEW x \in stored'[n], Apart(e, x)
      PROVE  \E a \in Line[e] \ Line[x], b \in Line[x] \ Line[e] :
               /\ Creator[a] = Creator[e] /\ Creator[b] = Creator[e]
               /\ a \in stored'[n] /\ b \in stored'[n]
               /\ a \in batch \/ b \in batch =>
                    \A y \in batch : Creator[y] = Creator[e] => Replays(n, batch, y)
  <2>1. PICK a \in Line[e] \ Line[x], b \in Line[x] \ Line[e] : Tree[a] = Tree[b]
    BY <1>6, <1>8, <1>9, LinesPart DEF Apart
  <2>2. a \in stored'[n] /\ b \in stored'[n] /\ a # b
    BY <1>6, <1>8
  <2>3. Creator[a] = Creator[e] /\ Creator[b] = Creator[e]
    BY <1>6, <1>8, <1>9, Lineage DEF Apart
  <2>4. /\ a \in batch => Replays(n, batch, a)
        /\ b \in batch => Replays(n, batch, b)
    <3>1. a \in stored[n] \cup batch /\ b \in stored[n] \cup batch
      BY <1>7, <2>2
    <3>2. Tree[b] = Tree[a] /\ Creator[b] = Creator[a]
      BY <2>1, <2>3
    <3> QED BY <2>2, <3>1, <3>2 DEF Replays
  <2>5. a \in batch \/ b \in batch =>
          \A y \in batch : Creator[y] = Creator[e] => Replays(n, batch, y)
    BY <1>2, <2>3, <2>4 DEF Unprocessable, Replaying
  <2> QED BY <2>1, <2>2, <2>3, <2>5
(* An event that does not replay inherits from one that is stored.          *)
<1>10. ASSUME NEW e \in batch, ~(Line[e] \subseteq batch)
       PROVE  LET b == Before(batch, e) IN
                /\ b \in Event /\ b \in stored[n] /\ b # None /\ Creator[b] = Creator[e]
                /\ b \in Line[e] /\ Line[e] \ batch \subseteq Line[b]
  <2> DEFINE b == Before(batch, e)
  <2>1. b \in Line[e] \ batch /\ Line[e] \ batch \subseteq Line[b]
    BY <1>3, <1>10, BeforeIsLatest
  <2> HIDE DEF b
  <2>2. b \in stored[n] /\ b \in Event
    BY <1>4, <1>6, <1>7, <1>8, <2>1
  <2>3. Creator[b] = Creator[e]
    BY <1>6, <2>1, Lineage
  <2>4. b # None
    BY <2>2
  <2> QED BY <2>1, <2>2, <2>3, <2>4 DEF b
<1>11. ASSUME NEW e \in batch, NEW x \in stored'[n], Apart(e, x)
       PROVE  ~SameNumber(number'[n][e], number'[n][x])
  <2>1. Apart(x, e) /\ e # x
    BY <1>6, <1>11, LineStep DEF Apart
  <2>2. PICK a \in Line[e] \ Line[x], b \in Line[x] \ Line[e] :
               /\ Creator[a] = Creator[e] /\ Creator[b] = Creator[e]
               /\ a \in stored'[n] /\ b \in stored'[n]
               /\ a \in batch \/ b \in batch =>
                    \A y \in batch : Creator[y] = Creator[e] => Replays(n, batch, y)
    BY <1>9, <1>11
  <2>3. CASE StoredBy(n, Creator[e]) = {}
    <3>1. a \in batch /\ x \in batch /\ Creator[x] = Creator[e]
      BY <1>7, <1>11, <2>2, <2>3 DEF StoredBy, Apart
    <3>2. Replays(n, batch, e) /\ Replays(n, batch, x)
      BY <2>2, <3>1
    <3>3. Counted(n, batch, order, e) # Counted(n, batch, order, x)
      BY <2>1, <2>3, <3>1, <3>2, CountedApart
    <3> QED BY <1>6, <3>1, <3>2, <3>3 DEF NumberOf, SameNumber
  <2>4. ASSUME StoredBy(n, Creator[e]) # {},
               NEW y \in batch, Creator[y] = Creator[e], Replays(n, batch, y)
        PROVE  number'[n][y] = NaN
    BY <1>6, <2>4 DEF NumberOf, Counted
  <2>5. CASE /\ StoredBy(n, Creator[e]) # {}
             /\ \/ Replays(n, batch, e)
                \/ x \in batch /\ Replays(n, batch, x)
    BY <1>11, <2>4, <2>5 DEF SameNumber, Apart
  <2>6. CASE /\ StoredBy(n, Creator[e]) # {}
             /\ ~Replays(n, batch, e)
             /\ x \in batch => ~Replays(n, batch, x)
    <3>1. a \notin batch /\ b \notin batch
      BY <2>2, <2>6
    <3>2. ASSUME NEW y \in stored'[n], y \in batch => ~Replays(n, batch, y),
                 NEW z \in Line[y], z \notin batch
          PROVE  \E c \in stored[n] : /\ c \in Event /\ Creator[c] = Creator[y]
                                      /\ c \in Line[y] /\ z \in Line[c]
                                      /\ number'[n][y] = number[n][c]
      <4>1. CASE y \in batch
        <5> DEFINE c == Before(batch, y)
        <5>1. /\ c \in Event /\ c \in stored[n] /\ c # None /\ Creator[c] = Creator[y]
              /\ c \in Line[y] /\ Line[y] \ batch \subseteq Line[c]
          BY <1>10, <3>2, <4>1
        <5>2. number'[n][y] = number[n][c]
          BY <1>6, <3>2, <4>1, <5>1 DEF NumberOf, InheritedNumber
        <5> HIDE DEF c
        <5> QED BY <3>2, <5>1, <5>2
      <4>2. CASE y \in stored[n]
        BY <1>4, <1>5, <3>2, <4>2, LineStep
      <4> QED BY <1>7, <4>1, <4>2
    <3>3. PICK c \in stored[n] : /\ c \in Event /\ Creator[c] = Creator[e]
                                 /\ c \in Line[e] /\ a \in Line[c]
                                 /\ number'[n][e] = number[n][c]
      BY <1>6, <2>6, <3>1, <3>2
    <3>4. PICK d \in stored[n] : /\ d \in Event /\ Creator[d] = Creator[x]
                                 /\ d \in Line[x] /\ b \in Line[d]
                                 /\ number'[n][x] = number[n][d]
      BY <2>6, <3>1, <3>2
    <3>5. c \notin Line[d] /\ d \notin Line[c]
      <4>1. Line[c] \subseteq Line[e] /\ Line[d] \subseteq Line[x]
        BY <1>6, <1>8, <3>3, <3>4, LineInLine
      <4>2. c \in Line[d] => Line[c] \subseteq Line[d]
        BY <3>4, LineInLine
      <4>3. d \in Line[c] => Line[d] \subseteq Line[c]
        BY <3>3, LineInLine
      <4> QED BY <3>3, <3>4, <4>1, <4>2, <4>3
    <3>6. Apart(c, d)
      BY <1>11, <3>3, <3>4, <3>5 DEF Apart
    <3>7. ~SameNumber(number[n][c], number[n][d])
      BY <3>3, <3>4, <3>6, SidesAreApart DEF SInv
    <3> QED BY <3>3, <3>4, <3>7
  <2> QED BY <2>3, <2>5, <2>6
<1>12. SidesDiffer'
  <2>1. ASSUME NEW m \in Node, NEW e \in Event, NEW x \in Event,
               Apart(e, x), e \in stored'[m], x \in stored'[m]
        PROVE  ~SameNumber(number'[m][e], number'[m][x])
    <3>1. CASE m = n /\ e \in batch
      BY <1>11, <2>1, <3>1
    <3>2. CASE m = n /\ x \in batch
      <4>1. Apart(x, e)
        BY <2>1 DEF Apart
      <4>2. ~SameNumber(number'[n][x], number'[n][e])
        BY <1>11, <2>1, <3>2, <4>1
      <4> QED BY <3>2, <4>2 DEF SameNumber
    <3>3. CASE e \in stored[m] /\ x \in stored[m]
      <4>1. ~SameNumber(number[m][e], number[m][x])
        BY <2>1, <3>3, SidesAreApart DEF SInv
      <4> QED BY <1>5, <3>3, <4>1
    <3> QED BY <1>7, <2>1, <3>1, <3>2, <3>3
  <2>2. ASSUME NEW m \in Node, NEW ex \in Sides, {ex[1], ex[2]} \subseteq stored'[m]
        PROVE  ~SameNumber(number'[m][ex[1]], number'[m][ex[2]])
    <3>1. ex[1] \in Event /\ ex[2] \in Event /\ Apart(ex[1], ex[2])
      BY DEF Sides, Apart
    <3> QED BY <2>1, <2>2, <3>1
  <2> QED BY <2>2 DEF SidesDiffer
<1>13. MarkReachesAll'
  <2> SUFFICES ASSUME NEW m \in Node, NEW e \in stored'[m], NEW x \in stored'[m],
                      Creator[e] = Creator[x], mark'[m][e] # -1, number'[m][x] = 0
               PROVE  mark'[m][x] # -1
    BY DEF MarkReachesAll
  <2>1. \E y \in stored[m] : Creator[y] = Creator[x] /\ mark[m][y] # -1
    <3>1. CASE e \in stored[m]
      BY <1>5, <3>1
    <3>2. CASE m = n /\ e \in batch
      <4>1. Before(batch, e) # None /\ mark[n][Before(batch, e)] # -1
        BY <1>6, <3>2 DEF InheritedMark
      <4>2. ~(Line[e] \subseteq batch)
        BY <1>3, <3>2, <4>1, BeforeIsLatest
      <4> QED BY <1>10, <3>2, <4>1, <4>2
    <3> QED BY <1>7, <3>1, <3>2
  <2>2. PICK y \in stored[m] : Creator[y] = Creator[x] /\ mark[m][y] # -1
    BY <2>1
  <2>3. CASE x \in stored[m]
    <3>1. number[m][x] = 0
      BY <1>5, <2>3
    <3> QED BY <1>5, <2>2, <2>3, <3>1 DEF SInv, MarkReachesAll
  <2>4. CASE m = n /\ x \in batch
    <3>1. ~Replays(n, batch, x) /\ InheritedNumber(n, batch, x) = 0
      <4>1. NumberOf(n, batch, order, x) = 0
        BY <1>6, <2>4
      <4>2. ~Replays(n, batch, x)
        BY <2>4, <4>1, ReplayCounted DEF NumberOf
      <4> QED BY <4>1, <4>2 DEF NumberOf
    <3>2. ASSUME Line[x] \subseteq batch PROVE FALSE
      <4>1. Apart(x, y) /\ Apart(y, x)
        BY <1>3, <1>8, <2>2, <2>4, <3>2 DEF Apart
      <4>2. y \in stored'[n]
        BY <1>5, <2>4
      <4>3. PICK a \in Line[x] \ Line[y] :
                    a \in batch => \A z \in batch : Creator[z] = Creator[x] => Replays(n, batch, z)
        BY <1>9, <2>4, <4>1, <4>2
      <4> QED BY <2>4, <3>1, <3>2, <4>3
    <3> DEFINE b == Before(batch, x)
    <3>3. b \in stored[n] /\ b # None /\ Creator[b] = Creator[x]
      BY <1>10, <2>4, <3>2
    <3>4. number[n][b] = 0 /\ mark'[n][x] = mark[n][b]
      BY <1>6, <2>4, <3>1, <3>3 DEF InheritedNumber, InheritedMark
    <3> HIDE DEF b
    <3>5. MarkReachesAll
      BY DEF SInv
    <3>6. mark[n][b] # -1
      BY <2>2, <2>4, <3>3, <3>4, <3>5 DEF MarkReachesAll
    <3> QED BY <2>4, <3>4, <3>6
  <2> QED BY <1>7, <2>3, <2>4
<1> QED BY <1>12, <1>13

LEMMA CreateSides ==
  ASSUME SInv, NEW n \in Node, NEW e \in Event, Create(n, e)
  PROVE  SidesDiffer' /\ MarkReachesAll'
<1> USE ReplaysAssumption
<1>1. /\ stored' = [stored EXCEPT ![n] = @ \cup {e}]
      /\ UNCHANGED <<number, mark>>
      /\ Creator[e] = n
  BY DEF Create
<1>2. DInv /\ DInv'
  <2>1. [Next]_vars
    BY DEF Next
  <2> QED BY <2>1, NextDInv DEF SInv
<1>3. \A m \in Node : \A x \in stored'[m] : x \in stored[m] \/ (m = n /\ x = e)
  <2>1. stored \in [Node -> SUBSET Event]
    BY <1>2 DEF DInv, IInv, TypeOK
  <2> QED BY <1>1, <2>1
<1>4. SidesDiffer'
  <2>1. ASSUME NEW m \in Node, NEW y \in stored'[m], NEW z \in stored'[m], Apart(y, z)
        PROVE  y \in stored[m] /\ z \in stored[m]
    <3>1. Creator[y] # m
      <4>1. stored'[m] \in SUBSET Event /\ \A u \in stored'[m] : Parent[u] \subseteq stored'[m]
        BY <1>2 DEF DInv, IInv, TypeOK, ParentsStored
      <4>2. y \in Event /\ z \in Event
        BY <4>1
      <4>3. PICK a \in Line[y] \ Line[z], b \in Line[z] \ Line[y] : Tree[a] = Tree[b]
        BY <2>1, <4>2, LinesPart DEF Apart
      <4>4. a \in stored'[m] /\ b \in stored'[m]
        BY <4>1, LineHeld
      <4>5. Creator[a] = Creator[y] /\ Creator[b] = Creator[y]
        BY <2>1, <4>2, <4>3, Lineage DEF Apart
      <4>6. Siblings(m, a, b)'
        BY <4>3, <4>4, <4>5 DEF Siblings
      <4> QED BY <1>2, <4>4, <4>5, <4>6 DEF DInv, OwnUnforked
    <3> QED BY <1>1, <1>3, <2>1, <3>1 DEF Apart
  <2>2. ASSUME NEW m \in Node, NEW ex \in Sides, {ex[1], ex[2]} \subseteq stored'[m]
        PROVE  ~SameNumber(number[m][ex[1]], number[m][ex[2]])
    <3>1. Apart(ex[1], ex[2])
      BY DEF Sides, Apart
    <3>2. {ex[1], ex[2]} \subseteq stored[m]
      BY <2>1, <2>2, <3>1
    <3> QED BY <3>2 DEF SInv, SidesDiffer
  <2> QED BY <1>1, <2>2 DEF SidesDiffer
<1>5. MarkReachesAll'
  <2> SUFFICES ASSUME NEW m \in Node, NEW y \in stored'[m], NEW x \in stored'[m],
                      Creator[y] = Creator[x], mark[m][y] # -1, number[m][x] = 0
               PROVE  mark[m][x] # -1
    BY <1>1 DEF MarkReachesAll
  <2>1. Creator[y] # m
    <3>1. y \in stored'[m] /\ mark'[m][y] # -1
      BY <1>1
    <3>2. (OnlyForkersMarked /\ OwnUnforked)'
      BY <1>2 DEF DInv
    <3>3. ASSUME Creator[y] = m PROVE FALSE
      <4>1. PICK u, v \in StoredBy(m, m)' : u # v /\ Tree[u] = Tree[v]
        BY <3>1, <3>2, <3>3 DEF OnlyForkersMarked
      <4>2. Siblings(m, u, v)' /\ u \in stored'[m] /\ v \in stored'[m] /\ Creator[u] = m
        BY <4>1 DEF Siblings, StoredBy
      <4> QED BY <3>2, <4>2 DEF OwnUnforked
    <3> QED BY <3>3
  <2>2. y \in stored[m] /\ x \in stored[m]
    BY <1>1, <1>3, <2>1
  <2> QED BY <2>2 DEF SInv, MarkReachesAll
<1> QED BY <1>4, <1>5

LEMMA FindConsensusSides ==
  ASSUME SInv, NEW n \in Node, FindConsensus(n)
  PROVE  SidesDiffer' /\ MarkReachesAll'
<1> DEFINE h == height[n] + 1
           cs == NewReplayers(n, MergeEvents(n, h))
<1>1. mark' = [mark EXCEPT ![n] = Marked(n, cs, h)] /\ UNCHANGED <<stored, number>>
  BY DEF FindConsensus
<1>2. TypeOK
  BY DEF SInv, DInv, IInv
<1>3. h # -1
  BY <1>2, ReplaysAssumption DEF TypeOK
<1> HIDE DEF h, cs
<1>4. \A m \in Node : \A e \in stored[m] :
        mark'[m][e] = IF m = n /\ Creator[e] \in cs THEN h ELSE mark[m][e]
  BY <1>1, <1>2 DEF Marked, TypeOK
<1>5. SidesDiffer'
  BY <1>1 DEF SInv, SidesDiffer
<1>6. MarkReachesAll'
  BY <1>1, <1>3, <1>4 DEF SInv, MarkReachesAll
<1> QED BY <1>5, <1>6

LEMMA NextSInv ==
  ASSUME SInv, [Next]_vars
  PROVE  SInv'
<1>1. DInv'
  BY NextDInv DEF SInv
<1>2. ASSUME UNCHANGED <<stored, number, mark>>
      PROVE  SidesDiffer' /\ MarkReachesAll'
  BY <1>2 DEF SInv, SidesDiffer, MarkReachesAll
<1>3. ASSUME NEW n \in Node, WriteBlock(n) \/ NewSession(n)
      PROVE  UNCHANGED <<stored, number, mark>>
  BY <1>3 DEF WriteBlock, NewSession, records
<1>4. UNCHANGED vars => UNCHANGED <<stored, number, mark>>
  BY DEF vars, records
<1>5. SidesDiffer' /\ MarkReachesAll'
  BY <1>2, <1>3, <1>4, ReceiveSides, CreateSides, FindConsensusSides DEF Next
<1> QED BY <1>1, <1>5 DEF SInv

(* Of two stored events of one creator that follow the same one, once both  *)
(* are in blocks both are marked.                                           *)
SiblingsKnown ==
  \A n \in Node : \A e, x \in stored[n] :
    Siblings(n, e, x) /\ blockOf[n][e] # -1 /\ blockOf[n][x] # -1
      => mark[n][e] # -1 /\ mark[n][x] # -1

-----------------------------------------------------------------------------
(* Numbers, marks, blocks and memory keep their types, and memory holds     *)
(* only what is stored, whoever replays what.                               *)
THEOREM TypeCorrect == Spec => []TypeOK
<1>1. Spec => []IInv
  BY InitIInv, NextIInv, PTL DEF Spec
<1>2. IInv => TypeOK
  BY DEF IInv
<1> QED BY <1>1, <1>2, PTL

(* A peer never holds a marked event that was made at or after the height   *)
(* of its mark, through new sessions, marks that move and blocks that fail  *)
(* after their marks were written.                                          *)
THEOREM LateEventsRefused == Spec => []MadeBeforeMark
<1>1. Spec => []IInv
  BY InitIInv, NextIInv, PTL DEF Spec
<1>2. IInv => MadeBeforeMark
  BY DEF IInv
<1> QED BY <1>1, <1>2, PTL

(* No peer is marked of whom the node does not hold two events that follow  *)
(* the same one, whatever others fork and in whatever batches events come.  *)
THEOREM NoPeerPoisoned == Spec => []OnlyForkersMarked
<1>1. Spec => [](IInv /\ ForkersNumbered /\ OnlyForkersMarked)
  <2>1. Init => IInv /\ ForkersNumbered /\ OnlyForkersMarked
    BY InitIInv, InitForked
  <2>2. IInv /\ ForkersNumbered /\ OnlyForkersMarked /\ [Next]_vars
          => (IInv /\ ForkersNumbered /\ OnlyForkersMarked)'
    BY NextIInv, NextForked
  <2> QED BY <2>1, <2>2, PTL DEF Spec
<1> QED BY <1>1, PTL

(* Stored events on two sides of a fork have numbers that differ where they *)
(* are compared, however far from the fork they are, in whatever batches    *)
(* they came and whatever else their creator replays.                       *)
THEOREM SidesAreNumbered == Spec => []SidesDiffer
<1>1. Init => SInv
  BY InitDInv, InitSides DEF SInv
<1>2. Spec => []SInv
  BY <1>1, NextSInv, PTL DEF Spec
<1>3. SInv => SidesDiffer
  BY DEF SInv
<1> QED BY <1>2, <1>3, PTL

(* When events on two sides of a fork are in blocks of a node, the node has *)
(* marked both, in whatever order and batches they came, in whichever       *)
(* blocks they are, and wherever its sessions ended.                        *)
THEOREM ForksKnown == Spec => []ForkKnown
<1>1. Init => SInv
  BY InitDInv, InitSides DEF SInv
<1>2. Spec => []SInv
  BY <1>1, NextSInv, PTL DEF Spec
<1>3. SInv => ForkKnown
  <2> SUFFICES ASSUME SInv, NEW n \in Node, NEW ex \in Sides,
                      \A e \in {ex[1], ex[2]} : blockOf[n][e] # -1
               PROVE  \A e \in {ex[1], ex[2]} : mark[n][e] # -1
    BY DEF ForkKnown
  <2> DEFINE e == ex[1]
             x == ex[2]
  <2>1. e \in Event /\ x \in Event /\ Creator[e] = Creator[x]
    BY DEF Sides
  <2>2. e \in stored[n] /\ x \in stored[n]
    BY <2>1 DEF SInv, DInv, IInv, TypeOK
  <2>3. ~SameNumber(number[n][e], number[n][x])
    BY <2>2 DEF SInv, SidesDiffer
  <2>4. number[n][e] # 0 \/ number[n][x] # 0
    BY <2>3 DEF SameNumber, NaN
  <2>5. /\ number[n][e] # 0 => mark[n][e] # -1
        /\ number[n][x] # 0 => mark[n][x] # -1
    BY <2>2 DEF SInv, DInv, NumberedMarked
  <2>6. mark[n][e] # -1 /\ mark[n][x] # -1
    BY <2>1, <2>2, <2>4, <2>5 DEF SInv, MarkReachesAll
  <2> QED BY <2>6
<1> QED BY <1>2, <1>3, PTL

(* Every fork is found: when two events that one creator made after the     *)
(* same one are in blocks of a node, the node has marked both, in whatever  *)
(* order and batches they came, in whichever blocks they are, and wherever  *)
(* its sessions ended.                                                      *)
THEOREM ForksDetected == Spec => []SiblingsKnown
<1>1. Spec => []DInv
  BY InitDInv, NextDInv, PTL DEF Spec
<1>2. DInv => SiblingsKnown
  <2> SUFFICES ASSUME DInv, NEW n \in Node, NEW e \in stored[n], NEW x \in stored[n],
                      Siblings(n, e, x), blockOf[n][e] # -1, blockOf[n][x] # -1
               PROVE  mark[n][e] # -1 /\ mark[n][x] # -1
    BY DEF SiblingsKnown
  <2>1. Siblings(n, x, e)
    BY DEF Siblings
  <2>2. number[n][e] # 0 \/ number[n][x] # 0
    BY DEF DInv, SiblingsNumbered
  <2>3. /\ number[n][e] # 0 => mark[n][e] # -1
        /\ number[n][x] # 0 => mark[n][x] # -1
    BY DEF DInv, NumberedMarked
  <2> QED BY <2>1, <2>2, <2>3 DEF DInv, SiblingMarks
<1> QED BY <1>1, <1>2, PTL
=============================================================================
