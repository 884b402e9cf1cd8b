---------------------------- MODULE TimeoutLadder ----------------------------
(***************************************************************************)
(* Who gives up first on a slow command: the agent's deadline and the      *)
(* recovery ladder in the daemon (handlers/automate.rs), a launch's        *)
(* windows (bootstrap.rs), a transfer's budget (file_transfer.rs), the     *)
(* CLI's wait for the daemon (cli/commands), or the watchdog over the      *)
(* whole command (main.rs).                                                *)
(*                                                                         *)
(* Times are milliseconds.  What is waited for ends Quick, or only when    *)
(* the layer that waits gives it up; the transport itself costs nothing.   *)
(***************************************************************************)
EXTENDS Naturals, Sequences, FiniteSetsExt

CONSTANTS
  TimedCommands,  \* the commands: what is asked, and the times their callers chose
  RdpTime,   \* the longest the RDP handshake itself takes
  MaxSteps   \* bound: steps of a transfer

Kinds == {"status", "query_result", "act", "run_wait", "run_detached", "wait_for", "follow",
          "restart", "connect", "transfer", "keys"}

(* What ends early ends after a second, which is no longer than the longest*)
(* handshake.                                                              *)
Quick == 1000

(* How many keys the first n combinations of a key sequence have.          *)
PartsThrough(c, n) == IF n = 0 THEN 0 ELSE c.parts[n]

(* base is --timeout, or 30 s when the caller has chosen none; own is what *)
(* the command carries itself: a wait, or a follow's budget; parts counts  *)
(* the keys of a key sequence as its combinations add them up, and is      *)
(* empty for any other command.                                            *)
ASSUME LadderAssumption ==
  /\ RdpTime \in Nat /\ RdpTime >= Quick /\ MaxSteps \in Nat \ {0}
  /\ \A c \in TimedCommands :
       /\ c.kind \in Kinds /\ c.base \in Nat /\ c.own \in Nat
       /\ c.chosen \in BOOLEAN /\ (~c.chosen => c.base = 30000)
       /\ c.parts \in Seq(Nat) /\ (c.kind = "keys") = (c.parts # <<>>)
       /\ \A m, n \in 0 .. Len(c.parts) : m < n => PartsThrough(c, m) < PartsThrough(c, n)

-----------------------------------------------------------------------------
(* The budgets, each derived from the one below it.                        *)

StatusProbeTimeout == 5000
DefaultDvcTimeout  == 10000
SpawnTimeout       == 90000
KillVerifyBudget   == 20000

QueryResultAttempts == 3
QueryResultTimeout  == 10000
QueryResultBackoff  == 2000

ResolutionWorst == QueryResultTimeout * QueryResultAttempts + QueryResultBackoff * (1 + 2)

Carries(c)    == c.kind \in {"run_wait", "wait_for"}
KillBudget(c) == IF c.kind = "run_wait" THEN KillVerifyBudget ELSE 0

RequestTimeout(c) ==
  IF Carries(c) THEN c.own + DefaultDvcTimeout + KillBudget(c)
  ELSE IF c.kind = "run_detached" THEN Max({SpawnTimeout, DefaultDvcTimeout})
  ELSE DefaultDvcTimeout

DvcDeadline(c)  == IF c.kind = "status" THEN StatusProbeTimeout ELSE RequestTimeout(c)
SkipsLadder(c)  == c.kind \in {"status", "query_result"}
Automates(c)    == Carries(c) \/ SkipsLadder(c) \/ c.kind \in {"act", "run_detached", "follow"}

LadderAttempts     == 3
HandshakeWindow(i) == CASE i = 1 -> 25000 [] i = 2 -> 45000 [] OTHER -> 75000
FixedWaits         == 4800
PollOvershoot      == 5000
StopsStale         == 5000 + 5000
SurvivorWait       == 6000

(* One launch attempt: its window is extended once while PowerShell loads. *)
AttemptWorst(i) == FixedWaits + 2 * HandshakeWindow(i) + PollOvershoot

TransferBudget   == 540000
ChunkTimeout     == 60000
VerifyTimeout    == 300000
MinStepTimeout   == 5000
AbortTimeout     == 10000
CliTransferSlack == 30000

PressHold        == 50
PressKeyGap      == 10
PressSeqInterval == 40

(* Two scancodes are counted for every part of a combination, each with a  *)
(* gap after its press and after its release.                              *)
PressSeqHold(c) ==
  IF c.parts = <<>> THEN 0
  ELSE Len(c.parts) * PressHold + 4 * PressKeyGap * PartsThrough(c, Len(c.parts))
         + (Len(c.parts) - 1) * PressSeqInterval

(* How long the CLI waits for one reply of the daemon.                     *)
RestartMin     == 360000
ConnectDefault == 360000
DaemonSlack    == 30000

(* A connect has a default of its own; what the caller chose comes first.  *)
ConnectWait(c) == IF c.chosen THEN c.base ELSE ConnectDefault

IpcTimeout(c) ==
  CASE SkipsLadder(c)       -> c.base
    [] c.kind = "restart"   -> Max({c.base, RestartMin})
    [] c.kind = "connect"   -> ConnectWait(c)
    [] c.kind = "transfer"  -> c.base + TransferBudget + CliTransferSlack
    [] c.kind = "keys"      -> c.base + PressSeqHold(c)
    [] OTHER                -> Max({c.base, DvcDeadline(c)}) + ResolutionWorst + DaemonSlack

(* automate_ladder_ms and watchdog_budget_ms.                              *)
WatchdogGrace == 60000

(* Mutant: the grace period is left to cover the ladder.                   *)
GraceCoversLadder(c) == 0

LadderShare(c) == IF Automates(c) /\ ~SkipsLadder(c) THEN ResolutionWorst ELSE 0

Extension(c) ==
  CASE Carries(c) \/ c.kind = "follow" -> c.own
    [] c.kind = "run_detached"         -> SpawnTimeout
    [] c.kind = "restart"              -> RestartMin
    [] c.kind = "connect"              -> ConnectWait(c)
    [] c.kind = "transfer"             -> TransferBudget + CliTransferSlack
    [] c.kind = "keys"                 -> PressSeqHold(c)
    [] OTHER                           -> 0

WatchdogBudget(c) == c.base + LadderShare(c) + Extension(c) + WatchdogGrace

-----------------------------------------------------------------------------
VARIABLES
  command,  \* the command that runs
  clock,    \* since it was started
  rung,    \* what the daemon, or the CLI between two polls, is waiting for
  round,    \* which lookup, launch attempt, transfer step or combination
  sentAt,   \* when the CLI sent its current request
  polling,  \* a follow's start: when its first poll was answered
  ladderVerdict   \* what its caller hears

ladderVars == <<command, clock, rung, round, sentAt, polling, ladderVerdict>>

LadderInit ==
  /\ command \in TimedCommands
  /\ clock = 0 /\ rung = "send" /\ round = 1 /\ sentAt = 0 /\ polling = 0 /\ ladderVerdict = "none"

FirstStage(c) ==
  CASE Automates(c)          -> "reply"
    [] c.kind = "restart"    -> "evict"
    [] c.kind = "connect"    -> "handshake"
    [] c.kind = "transfer"   -> "step"
    [] c.kind = "keys"       -> "press"

(* step_timeout: what is left of the budget, if that is worth a try.       *)
BudgetLeft     == TransferBudget - Min({clock - sentAt, TransferBudget})
StepTimeout(s) == Min({s, BudgetLeft})
LastStep       == round = MaxSteps
LastPress      == round = Len(command.parts)

(* How long the daemon waits in a rung before it moves on by itself.       *)
WaitsFor ==
  CASE rung = "reply"     -> DvcDeadline(command)
    [] rung = "lookup"    -> QueryResultTimeout
    [] rung = "backoff"   -> QueryResultBackoff * round
    [] rung = "evict"     -> StopsStale
    [] rung = "handshake" -> RdpTime
    [] rung = "survivor"  -> SurvivorWait + StopsStale
    [] rung = "launch"    -> AttemptWorst(round)
    [] rung = "probe"     -> DefaultDvcTimeout
    [] rung = "step"      -> StepTimeout(IF LastStep THEN VerifyTimeout ELSE ChunkTimeout)
    [] rung = "abort"     -> AbortTimeout
    [] rung = "press"     ->
         PressHold
           + 4 * PressKeyGap * (command.parts[round] - PartsThrough(command, round - 1))
           + (IF LastPress THEN 0 ELSE PressSeqInterval)
    [] OTHER               -> 0

InDaemon       == rung \notin {"send", "pause", "over"}
SocketDeadline == sentAt + IpcTimeout(command)
Deadline       == Min({SocketDeadline, WatchdogBudget(command)})

(* What is waited for takes d, and nobody above gave up meanwhile.         *)
Passes(d) == clock' = clock + d /\ clock' <= Deadline

CliSends ==
  /\ rung = "send"
  /\ sentAt' = clock /\ round' = 1 /\ rung' = FirstStage(command)
  /\ UNCHANGED <<command, clock, polling, ladderVerdict>>

MovesTo(next, r) == rung' = next /\ round' = r /\ UNCHANGED ladderVerdict
EndsWith(o)      == rung' = "over" /\ ladderVerdict' = o /\ UNCHANGED round

(* The daemon has an answer; a follow that is not at its end polls again,  *)
(* until its own budget, counted from the first answer, is spent.          *)
DaemonAnswers(o) ==
  /\ polling' = IF polling = 0 THEN clock' ELSE polling
  /\ \/ EndsWith(o)
     \/ /\ command.kind = "follow" /\ o = "answered" /\ clock' < polling' + command.own
        /\ MovesTo("pause", round)

Unanswered == UNCHANGED polling

FollowPauses ==
  /\ rung = "pause"
  /\ Passes(500) /\ rung' = "send"
  /\ UNCHANGED <<command, round, sentAt, polling, ladderVerdict>>

AgentReplies ==
  /\ rung \in {"reply", "lookup", "probe"}
  /\ Passes(Quick) /\ DaemonAnswers("answered")
  /\ UNCHANGED <<command, sentAt>>

(* No reply within the deadline: the ladder asks the agent's journal.      *)
ReplyOverdue ==
  /\ rung = "reply" /\ Passes(WaitsFor)
  /\ IF SkipsLadder(command) THEN DaemonAnswers("unknown")
     ELSE MovesTo("lookup", 1) /\ Unanswered
  /\ UNCHANGED <<command, sentAt>>

LookupOverdue ==
  /\ rung = "lookup" /\ Passes(WaitsFor)
  /\ IF round < QueryResultAttempts THEN MovesTo("backoff", round) /\ Unanswered
     ELSE DaemonAnswers("unknown")
  /\ UNCHANGED <<command, sentAt>>

BacksOff ==
  /\ rung = "backoff" /\ Passes(WaitsFor)
  /\ MovesTo("lookup", round + 1) /\ Unanswered
  /\ UNCHANGED <<command, sentAt>>

(* The stages before a launch: the old agent is stopped, the RDP handshake *)
(* is made, an agent that outlived the last session is waited for.         *)
Prepares ==
  /\ rung \in {"evict", "handshake", "survivor"}
  /\ \E d \in {Quick, WaitsFor} : Passes(d)
  /\ MovesTo(IF rung = "handshake" THEN "survivor" ELSE "launch", 1) /\ Unanswered
  /\ UNCHANGED <<command, sentAt>>

LaunchOverdue ==
  /\ rung = "launch"
  /\ \/ /\ Passes(Quick)
        /\ IF command.kind = "restart" THEN MovesTo("probe", 1) /\ Unanswered
           ELSE DaemonAnswers("answered")
     \/ /\ Passes(WaitsFor)
        /\ IF round < LadderAttempts THEN MovesTo("launch", round + 1) /\ Unanswered
           ELSE IF command.kind = "restart" THEN MovesTo("probe", 1) /\ Unanswered
           ELSE DaemonAnswers("failed")
  /\ UNCHANGED <<command, sentAt>>

ProbeOverdue ==
  /\ rung = "probe" /\ Passes(WaitsFor) /\ DaemonAnswers("failed")
  /\ UNCHANGED <<command, sentAt>>

(* A transfer's chunk arrives; or takes as long as it may, and the         *)
(* transfer fails.                                                         *)
TransferStep ==
  /\ rung = "step"
  /\ IF BudgetLeft < MinStepTimeout
     THEN UNCHANGED clock /\ MovesTo("abort", 1) /\ Unanswered
     ELSE \/ /\ \E d \in {Quick, WaitsFor} : Passes(d)
             /\ IF LastStep THEN DaemonAnswers("answered")
                ELSE MovesTo("step", round + 1) /\ Unanswered
          \/ Passes(WaitsFor) /\ MovesTo("abort", 1) /\ Unanswered
  /\ UNCHANGED <<command, sentAt>>

AbortsTransfer ==
  /\ rung = "abort"
  /\ \E d \in {Quick, WaitsFor} : Passes(d)
  /\ DaemonAnswers("failed")
  /\ UNCHANGED <<command, sentAt>>

(* One combination of a sequence, its keys held and released.              *)
PressesNext ==
  /\ rung = "press"
  /\ Passes(WaitsFor)
  /\ IF LastPress THEN DaemonAnswers("answered")
     ELSE MovesTo("press", round + 1) /\ Unanswered
  /\ UNCHANGED <<command, sentAt>>

(* The CLI, or its watchdog, gives up while the daemon may still wait.     *)
CliGivesUp ==
  /\ InDaemon /\ clock + WaitsFor > Deadline
  /\ clock' = Deadline
  /\ EndsWith(IF SocketDeadline <= WatchdogBudget(command) THEN "timed_out" ELSE "aborted")
  /\ UNCHANGED <<command, sentAt, polling>>

LadderNext ==
  \/ CliSends \/ FollowPauses
  \/ AgentReplies \/ ReplyOverdue \/ LookupOverdue \/ BacksOff
  \/ Prepares \/ LaunchOverdue \/ ProbeOverdue
  \/ TransferStep \/ AbortsTransfer \/ PressesNext
  \/ CliGivesUp

LadderSpec == LadderInit /\ [][LadderNext]_ladderVars

-----------------------------------------------------------------------------
(* Properties.                                                             *)

LadderTypeOK ==
  /\ command \in TimedCommands /\ clock \in Nat /\ sentAt \in 0 .. clock /\ polling \in 0 .. clock
  /\ round \in 1 .. Max({MaxSteps, LadderAttempts, QueryResultAttempts, Len(command.parts)})
  /\ ladderVerdict \in {"none", "answered", "unknown", "failed", "timed_out", "aborted"}

(* The daemon is the layer that gives up first: whatever it waits for, and *)
(* in whatever order the waits run to their ends, the caller hears the     *)
(* daemon's verdict, and neither that the socket timed out nor that the    *)
(* watchdog aborted a command still waiting on its own timeout.            *)
DaemonGivesUpFirst == ladderVerdict \notin {"timed_out", "aborted"}

=============================================================================
