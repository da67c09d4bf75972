----------------------------- MODULE MCConflict -----------------------------
(***************************************************************************)
(* Four witnesses in one of three scenarios.  `prompt': nobody forks,      *)
(* everybody knows everything when it merges, and one of them may stop.    *)
(* `plan': all obey merge.js and keep merging, from a history on which     *)
(* they come to propose different consensus sets.  `forks': one of them is *)
(* byzantine and has forked into two branches, of which some witnesses     *)
(* have seen one and some the other; another witness has local operations  *)
(* to contribute.                                                          *)
(***************************************************************************)
EXTENDS Continuity

CONSTANTS w1, w2, w3, w4, w4fork,
          Scenarios,          (* those that are explored                     *)
          PromptGenerations,  (* bound: events of each witness in `prompt'   *)
          PlanGenerations,    (* ... in `plan'                               *)
          ForkGenerations,    (* ... in `forks', w1 and w4 one less, the     *)
                              (* other branch of w4 only one                 *)
          Planned             (* the merges that follow the plan of `plan'   *)

VARIABLE scenario

mcvars == <<vars, scenario>>

MCWitness == {w1, w2, w3, w4}
MCFork == {w4, w4fork}
MCBranch == MCWitness \cup MCFork
MCCreator == [b \in MCBranch |-> IF b \in MCFork THEN w4 ELSE b]
MCContributor == {w1}
MCBaseHeight == [b \in MCBranch |-> 0]

Limit == [prompt |-> [b \in MCBranch |-> PromptGenerations],
          plan   |-> [b \in MCBranch |-> PlanGenerations],
          forks  |-> [b \in MCBranch |-> CASE b \in {w1, w4} -> ForkGenerations - 1
                                           [] b = w4fork -> 1
                                           [] OTHER -> ForkGenerations]]
MCGenLimit ==
  [b \in MCBranch |-> Limit.prompt[b] + Limit.plan[b] + Limit.forks[b]]

(* The first merges: who merges, and the generations it has seen of w1, w2, *)
(* w3, w4 and w4fork.  Nobody misses more than the newest event of anybody. *)
Plan ==
  << <<w3, <<0, 0, 0, 0, 0>> >>, <<w4, <<0, 0, 0, 0, 0>> >>,
     <<w1, <<0, 0, 1, 1, 0>> >>, <<w2, <<0, 0, 1, 1, 0>> >>,
     <<w3, <<0, 1, 1, 1, 0>> >>, <<w4, <<1, 0, 1, 1, 0>> >>,
     <<w1, <<1, 1, 2, 1, 0>> >>, <<w2, <<1, 1, 2, 2, 0>> >>,
     <<w3, <<1, 2, 2, 2, 0>> >>, <<w4, <<2, 2, 2, 2, 0>> >>,
     <<w2, <<2, 2, 3, 2, 0>> >>, <<w1, <<2, 3, 3, 3, 0>> >>,
     <<w4, <<2, 3, 3, 3, 0>> >>, <<w3, <<2, 3, 3, 4, 0>> >> >>

ForkPlan ==
  << <<w4, <<0, 0, 0, 0, 0>> >>, <<w4fork, <<0, 0, 0, 0, 0>> >>,
     <<w1, <<0, 0, 0, 1, 0>> >>, <<w2, <<0, 0, 0, 0, 1>> >>,
     <<w3, <<1, 0, 0, 1, 0>> >> >>

Cut(seen) == [b \in MCBranch |-> CASE b = w1 -> seen[1] [] b = w2 -> seen[2]
                                   [] b = w3 -> seen[3] [] b = w4 -> seen[4]
                                   [] b = w4fork -> seen[5]]

Merges == Height(w1) + Height(w2) + Height(w3) + Height(w4) + Height(w4fork)

Merge(b, c) == /\ Height(b) < Limit[scenario][b]
               /\ MergeEmpty(b, c) \/ MergeLocal(b, c)

(* In the other scenarios w4 obeys merge.js too.                            *)
MergeByRule(b, c) ==
  /\ Height(b) < Limit[scenario][b]
  /\ Cardinality(ThresholdWitnesses(b, c, Seen(c) \ {b})) >= 2 * F
  /\ MergeEmpty(b, c)

(* The view that misses nothing.                                            *)
FullViews(b) == {View(b, [x \in Branch \ {b} |-> 0])} \cap Views(b)

PromptMerge(b) == \E c \in FullViews(b) : MergeByRule(b, c)

PlanNext ==
  IF Merges < Planned
  THEN LET step == Plan[Merges + 1]
       IN Cut(step[2]) \in Views(step[1]) /\ MergeByRule(step[1], Cut(step[2]))
  ELSE \E b \in MCWitness : \E c \in Views(b) : MergeByRule(b, c)

(* After the plan w4 may know anything when it merges, and the others know  *)
(* everything.                                                              *)
ForkNext ==
  IF Merges < Len(ForkPlan)
  THEN LET step == ForkPlan[Merges + 1]
       IN Cut(step[2]) \in Views(step[1]) /\ Merge(step[1], Cut(step[2]))
  ELSE \/ \E b \in MCFork : \E c \in Views(b) : Merge(b, c)
       \/ \E b \in MCWitness \ MCFork : \E c \in FullViews(b) : Merge(b, c)

MCInit == Init /\ scenario \in Scenarios

MCNext ==
  /\ \/ scenario = "prompt" /\ \E b \in MCWitness : PromptMerge(b)
     \/ scenario = "plan" /\ PlanNext
     \/ scenario = "forks" /\ ForkNext
  /\ UNCHANGED scenario

MCSpec == MCInit /\ [][MCNext]_mcvars

(* Of the witnesses that keep up, those other than w4 keep merging; w4 may  *)
(* stop at any time.                                                        *)
Fairness ==
  \A b \in MCWitness \ {w4} :
    WF_mcvars(scenario = "prompt" /\ PromptMerge(b) /\ UNCHANGED scenario)

LiveSpec == MCSpec /\ Fairness

(* If gossip keeps up and no more than f witnesses stop, consensus is       *)
(* reached: the event that decides spreads and every node builds the block. *)
EventuallyDecides == scenario = "prompt" => <>(Decisions # {})
=============================================================================
