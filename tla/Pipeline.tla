------------------------------ MODULE Pipeline ------------------------------
(***************************************************************************)
(* What the queue of local operations promises: a pipeline.  Operations    *)
(* leave it in the order in which they were accepted, each once, a chunk   *)
(* at a time.  A chunk is written to storage before the event that holds   *)
(* it; only a failure loses a chunk, and then no more than one.            *)
(***************************************************************************)
EXTENDS Integers, SequencesExt

CONSTANTS Operation, Basis, MaxOperations
VARIABLES
  accepted,   (* the operations accepted, in that order                      *)
  done,       (* how many of them have left the pipeline                     *)
  written,    (* the operations in storage                                   *)
  events,     (* the operations of each event                                *)
  failures

pipeline == <<accepted, done, written, events, failures>>

(* The n operations whose turn it is.                                       *)
Oldest(n) == SubSeq(accepted, done + 1, done + n)

(* They fit in an event and have the same basisBlockHeight.                 *)
Chunk(n) ==
  /\ done + n <= Len(accepted)
  /\ \A op \in ToSet(Oldest(n)) : Basis[op] = Basis[accepted[done + 1]]

Init == accepted = << >> /\ done = 0 /\ written = {} /\ events = << >> /\ failures = 0

Accept(op) ==
  /\ op \notin ToSet(accepted)
  /\ accepted' = Append(accepted, op)
  /\ UNCHANGED <<done, written, events, failures>>

Store(n) ==
  /\ Chunk(n)
  /\ written' = written \cup ToSet(Oldest(n))
  /\ UNCHANGED <<accepted, done, events, failures>>

Deliver(n) ==
  /\ Chunk(n)
  /\ ToSet(Oldest(n)) \subseteq written
  /\ events' = Append(events, Oldest(n))
  /\ done' = done + n
  /\ UNCHANGED <<accepted, written, failures>>

(* A session fails with nothing taken yet, or everything done, or a chunk.  *)
Fail(n) ==
  /\ n > 0 => Chunk(n)
  /\ done' = done + n
  /\ failures' = failures + 1
  /\ UNCHANGED <<accepted, written, events>>

Step == \/ \E op \in Operation : Accept(op)
        \/ \E n \in 1 .. MaxOperations : Store(n) \/ Deliver(n)
        \/ \E n \in 0 .. MaxOperations : Fail(n)

Spec == Init /\ [][Step]_pipeline
=============================================================================
