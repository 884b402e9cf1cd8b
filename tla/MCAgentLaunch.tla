--------------------------- MODULE MCAgentLaunch ---------------------------
(***************************************************************************)
(* Instances of AgentLaunch for TLC: one connect that launches, with a     *)
(* restart, a wedged agent or a disconnect; one that defers the launch,    *)
(* alone and, with a disconnect, before another; two connects, one of      *)
(* which launches.                                                         *)
(***************************************************************************)
EXTENDS AgentLaunch

LaunchPlan(modes, restarts, probes, breaks, disconnects, agents) ==
  [modes |-> modes, restarts |-> restarts, probes |-> probes, breaks |-> breaks,
   disconnects |-> disconnects, agents |-> agents]

CheckedLaunches ==
  {LaunchPlan(<<"launch">>, 1, 0, 1, 0, 2), LaunchPlan(<<"launch">>, 0, 1, 1, 0, 2),
   LaunchPlan(<<"launch">>, 1, 0, 0, 1, 1),
   LaunchPlan(<<"unattended", "launch">>, 0, 0, 0, 0, 1),
   LaunchPlan(<<"defer">>, 0, 0, 0, 0, 1), LaunchPlan(<<"defer", "launch">>, 0, 0, 0, 1, 1),
   LaunchPlan(<<"launch", "unattended">>, 0, 0, 0, 0, 1)}

=============================================================================
