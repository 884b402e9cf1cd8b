-------------------------- MODULE MCTimeoutLadder --------------------------
(* One command at a time, with the default timeout or one much shorter; a  *)
(* connect with a timeout that is just enough for it.                      *)
EXTENDS TimeoutLadder

Command(kind, base, own, parts) ==
  [kind |-> kind, base |-> base, chosen |-> base # 30000, own |-> own, parts |-> parts]

JustEnough == RdpTime + SurvivorWait + StopsStale + AttemptWorst(1) + AttemptWorst(2) + AttemptWorst(3)

CheckedCommands ==
  {Command(k, 30000, 0, <<>>) :
     k \in {"status", "query_result", "act", "run_detached", "restart", "connect", "transfer"}}
  \cup {Command(k, 1000, 0, <<>>) : k \in {"act", "run_detached", "restart", "transfer"}}
  \cup {Command(k, b, o, <<>>) :
          k \in {"run_wait", "wait_for"}, b \in {1000, 30000}, o \in {0, 10000, 600000}}
  \cup {Command("follow", b, 2000, <<>>) : b \in {1000, 30000}}
  \cup {Command("connect", JustEnough, 0, <<>>)}
  \cup {Command("keys", 1000, 0, <<1, 4, 6>>)}

=============================================================================
