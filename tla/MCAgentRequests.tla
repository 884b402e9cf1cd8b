-------------------------- MODULE MCAgentRequests --------------------------
(***************************************************************************)
(* Instances of AgentRequests for TLC: every behaviour follows one of a    *)
(* few plans, which bound who asks, which agents run, and what goes wrong. *)
(***************************************************************************)
EXTENDS AgentRequests, TLC

CONSTANTS
  k,      \* an idempotency key
  Plans   \* bounds: agents that run, callers that ask and what, stops, faults

VARIABLES plan, faults

Keyed    == [key |-> k, cmd |-> "run"]
Unkeyed  == [key |-> NoKey, cmd |-> "click"]
AnyOfTwo == {Keyed, Unkeyed}

Plan(agents, users, asked, stops, bad) ==
  [agents |-> agents, users |-> users, asked |-> asked, stops |-> stops, faults |-> bad]

Asking == {c \in Callers : pc'[c] # "idle"}

BoundedInit == RequestsInit /\ faults = 0 /\ plan \in Plans /\ alive = plan.agents

BoundedNext ==
  /\ \/ Calm /\ UNCHANGED faults
     \/ \E a \in Instances : Fault(a) /\ faults' = faults + 1
  /\ faults' <= plan.faults /\ stopping'.count <= plan.stops
  /\ Cardinality(Asking) <= plan.users
  /\ asks' # asks => asks'[Len(asks')] = plan.asked
  /\ UNCHANGED plan

BoundedSpec == BoundedInit /\ [][BoundedNext]_<<requestVars, plan, faults>>

-----------------------------------------------------------------------------
CONSTANTS a1, a2, s  \* two agents with the daemon's scripts, one with others

(* Two callers with one key; a retry while the agent is replaced; an agent *)
(* with old scripts; two callers whose results push each other out.        *)
SafetyPlans ==
  {Plan({a1, a2}, 2, Keyed, 0, 1), Plan({a1, a2}, 1, Keyed, 1, 1),
   Plan({a1, s}, 1, Keyed, 0, 1), Plan({a1}, 2, Unkeyed, 0, 0)}

RequestSymmetry == Permutations(Callers) \cup Permutations({a1, a2})

=============================================================================
