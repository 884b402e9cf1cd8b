-------------------------- MODULE MCDaemonProcess ---------------------------
(***************************************************************************)
(* Two CLI invocations at a time on one session directory: which daemon is *)
(* there first, how many daemons crash, and what the two CLIs ask for.     *)
(***************************************************************************)
EXTENDS DaemonProcess

ProcessPlan(first, crash, a, b) ==
  [first |-> first, crashes |-> crash, runs |-> [c \in Clis |-> IF c = "a" THEN a ELSE b]]

CheckedProcesses ==
  {ProcessPlan("none", 0, "connect", "connect"), ProcessPlan("old", 0, "connect", "mutate"),
   ProcessPlan("ours", 0, "connect", "replace"), ProcessPlan("ours", 1, "mutate", "connect"),
   ProcessPlan("ours", 1, "read", "replace"), ProcessPlan("old", 1, "disconnect", "connect"),
   ProcessPlan("ours", 1, "disconnect", "read"), ProcessPlan("ours", 1, "mutate", "replace"),
   ProcessPlan("old", 0, "connect", "connect"), ProcessPlan("none", 1, "connect", "connect"),
   ProcessPlan("old", 1, "connect", "mutate"), ProcessPlan("ours", 1, "replace", "connect")}

=============================================================================
