---------------------------- MODULE AgentLaunch ----------------------------
(***************************************************************************)
(* Who types Win+R, and what is recorded of it: the launch of the          *)
(* automation agent by connect, by `automate restart` and by the relaunch  *)
(* supervisor of each session (automation/bootstrap.rs, handlers/connect.rs*)
(* and handlers/automate.rs), all of them on one AutomationState that      *)
(* every connect initializes anew and every drop and disconnect wipes.     *)
(*                                                                         *)
(* Each action is one critical section of the automation state's lock, or  *)
(* one event on the remote desktop.  Backoff, input quiet and the relaunch *)
(* budget are times: whether they let a launch through is left open.  Two  *)
(* connects overlap only after the first has stored its session: what they *)
(* do before is DaemonSession's subject.                                   *)
(***************************************************************************)
EXTENDS Naturals, Sequences, FiniteSets

CONSTANTS
  MaxSessions,     \* bound: connects
  ConnectPlans,    \* bound: the modes of the connects, and what may go wrong
  MaxAgents,       \* bound: agent processes ever started
  LaunchAttempts,  \* LAUNCH_ATTEMPTS (3 in the code)
  MaxFailures,     \* MAX_LAUNCH_FAILURES (6 in the code)
  WedgeStrikes     \* WEDGE_STRIKES (3 in the code)

Modes == {"launch", "defer", "unattended"}

ASSUME LaunchAssumption ==
  /\ MaxSessions \in Nat
  /\ ConnectPlans \subseteq [modes : UNION {[1 .. n -> Modes] : n \in 0 .. MaxSessions},
                             restarts : Nat, probes : Nat, breaks : Nat, disconnects : Nat,
                             agents : 0 .. MaxAgents]
  /\ LaunchAttempts \in Nat \ {0} /\ MaxFailures \in Nat \ {0}
  /\ WedgeStrikes \in Nat \ {0} /\ MaxAgents \in Nat

Generations == 1 .. MaxSessions
Epochs      == 0 .. 2 * MaxSessions
Agents      == 1 .. MaxAgents
NoSession   == 0
NoAgent     == 0

Connecting(g)  == <<"connect", g>>
Supervisor(g)  == <<"super", g>>
Restart        == <<"restart", 0>>
LaunchTasks    == {Connecting(g) : g \in Generations} \cup {Supervisor(g) : g \in Generations}
                  \cup {Restart}

VARIABLES
  plan,        \* the modes of the connects to come
  sessionAt,   \* the rdp_session slot: the generation it holds
  claimed,     \* session_generation
  tearing,     \* the generation whose drop has yet to wipe the state
  leaving,     \* a disconnect has wiped the state, and has yet to take the session
  auto,        \* AutomationState
  holder,      \* per epoch's DVC state, the agent whose handshake it holds
  closings,    \* per epoch, whether a close waits in closed_rx
  procs,       \* agent processes that run on the remote desktop
  started,     \* how many were ever started
  stuck,       \* those that will never answer again
  home,        \* the epoch of each session's own DVC state
  job,         \* what each task is doing
  left,        \* what is left of the bounds
  strayed      \* Win+R was typed into a session the launch does not belong to

hostVars   == <<procs, started, stuck>>
roomVars   == <<plan, sessionAt, claimed, tearing, leaving, home>>
launchVars == <<roomVars, auto, holder, closings, hostVars, job, left, strayed>>

Off == [pc |-> "off", epoch |-> 0, attempt |-> 0, fresh |-> FALSE, ok |-> FALSE,
        old |-> NoAgent]

NewState ==
  [enabled |-> FALSE, epoch |-> 0, inFlight |-> FALSE, ready |-> FALSE, deferred |-> FALSE,
   due |-> FALSE, failures |-> 0, strikes |-> 0, wedged |-> FALSE, known |-> NoAgent,
   adopted |-> FALSE]

LaunchInit ==
  /\ \E p \in ConnectPlans :
       /\ plan = p.modes
       /\ left = [restarts |-> p.restarts, probes |-> p.probes, breaks |-> p.breaks,
                  disconnects |-> p.disconnects, agents |-> p.agents]
  /\ sessionAt = NoSession /\ claimed = 0 /\ tearing = NoSession /\ leaving = FALSE
  /\ home = [g \in Generations |-> 0]
  /\ auto = NewState
  /\ holder = [e \in Epochs |-> NoAgent] /\ closings = [e \in Epochs |-> FALSE]
  /\ procs = {} /\ started = 0 /\ stuck = {}
  /\ job = [t \in LaunchTasks |-> Off]
  /\ strayed = FALSE

Live      == sessionAt # NoSession
Here      == home[sessionAt]
Reachable == auto.enabled /\ holder[auto.epoch] # NoAgent

Launching   == {"adopt", "attempt", "settle", "wait", "done"}
Launches(t) == job[t].pc \in Launching
AtRest(t)   == job[t].pc \in {"off", "idle"}

Move(t, pc) == job' = [job EXCEPT ![t].pc = pc]
Rest(t)     == job' = [job EXCEPT ![t] = [Off EXCEPT !.pc = "idle"]]

-----------------------------------------------------------------------------
(* Sessions come and go.                                                   *)

(* cleanup(): the in-flight flag is left as it is.                         *)
Cleaned(s) ==
  IF ~s.enabled THEN s
  ELSE [s EXCEPT !.enabled = FALSE, !.ready = FALSE, !.due = FALSE, !.failures = 0,
                 !.adopted = FALSE, !.deferred = FALSE, !.epoch = @ + 1]

(* initialize(): a new DVC state, hence a new epoch.                       *)
Initialized(s) ==
  [s EXCEPT !.enabled = TRUE, !.inFlight = FALSE, !.due = FALSE, !.failures = 0,
            !.deferred = FALSE, !.epoch = @ + 1]

(* connect claims its generation, takes the old session away, and readies  *)
(* the automation state.                                                   *)
ConnectBegins ==
  /\ claimed < Len(plan)
  /\ \A g \in 1 .. claimed : job[Connecting(g)].pc # "building"
  /\ claimed' = claimed + 1 /\ sessionAt' = NoSession
  /\ auto' = Initialized(Cleaned(auto))
  /\ home' = [home EXCEPT ![claimed + 1] = auto'.epoch]
  /\ Move(Connecting(claimed + 1), "building")
  /\ UNCHANGED <<plan, tearing, leaving, holder, closings, hostVars, left, strayed>>

(* The session is stored, and its supervisor is spawned.                   *)
ConnectStores(g) ==
  /\ job[Connecting(g)].pc = "building"
  /\ sessionAt' = g
  /\ job' = [job EXCEPT ![Connecting(g)].pc = "tail", ![Supervisor(g)].pc = "idle"]
  /\ UNCHANGED <<plan, claimed, tearing, leaving, home, auto, holder, closings, hostVars, left,
                 strayed>>

(* The slot is emptied: the agent goes on.  IronRDP may or may not close   *)
(* the session's channel on the way out.                                   *)
SlotEmptied ==
  /\ sessionAt' = NoSession
  /\ \/ UNCHANGED <<holder, closings>>
     \/ /\ Live /\ holder[Here] # NoAgent
        /\ holder' = [holder EXCEPT ![Here] = NoAgent]
        /\ closings' = [closings EXCEPT ![Here] = TRUE]

(* The transport drops.                                                    *)
SessionEnds ==
  /\ Live /\ tearing = NoSession /\ tearing' = sessionAt
  /\ SlotEmptied
  /\ UNCHANGED <<plan, claimed, leaving, home, auto, hostVars, job, left, strayed>>

(* ... and only then, unless a newer connect has claimed the state, is it  *)
(* wiped.                                                                  *)
Wiped ==
  /\ tearing # NoSession /\ tearing' = NoSession
  /\ auto' = IF tearing = claimed THEN Cleaned(auto) ELSE auto
  /\ UNCHANGED <<plan, sessionAt, claimed, leaving, home, holder, closings, hostVars, job, left,
                 strayed>>

(* handle_disconnect goes the other way about, and looks at no generation: *)
(* the state there is is wiped, that of a connect under way included ...   *)
DisconnectWipes ==
  /\ left.disconnects > 0 /\ ~leaving /\ leaving' = TRUE
  /\ auto' = Cleaned(auto)
  /\ left' = [left EXCEPT !.disconnects = @ - 1]
  /\ UNCHANGED <<plan, sessionAt, claimed, tearing, home, holder, closings, hostVars, job, strayed>>

(* ... and later the session the slot holds by then is taken, if any.      *)
DisconnectTakes ==
  /\ leaving /\ leaving' = FALSE
  /\ SlotEmptied
  /\ UNCHANGED <<plan, claimed, tearing, home, auto, hostVars, job, left, strayed>>

-----------------------------------------------------------------------------
(* The remote desktop.                                                     *)

(* An agent opens a channel on the session that is up, and greets.  One    *)
(* that is not the first is told to exit.                                  *)
AgentGreets(a) ==
  /\ Live /\ a \in procs \ stuck
  /\ holder[Here] # a
  /\ IF holder[Here] = NoAgent
     THEN /\ holder' = [holder EXCEPT ![Here] = a]
          /\ job' = [t \in LaunchTasks |->
                       IF Launches(t) /\ job[t].epoch = Here
                       THEN [job[t] EXCEPT !.fresh = TRUE] ELSE job[t]]
          /\ UNCHANGED procs
     ELSE procs' = procs \ {a} /\ UNCHANGED <<holder, job>>
  /\ UNCHANGED <<roomVars, auto, closings, started, stuck, left, strayed>>

(* Its channel closes under a live session: it died, or will open another. *)
ChannelBreaks ==
  /\ Live /\ left.breaks > 0
  /\ holder[Here] # NoAgent
  /\ holder' = [holder EXCEPT ![Here] = NoAgent]
  /\ closings' = [closings EXCEPT ![Here] = TRUE]
  /\ \/ procs' = procs \ {holder[Here]}
     \/ holder[Here] \notin stuck /\ UNCHANGED procs
  /\ left' = [left EXCEPT !.breaks = @ - 1]
  /\ UNCHANGED <<roomVars, auto, started, stuck, job, strayed>>

(* It holds its channel and answers nothing any more.                      *)
AgentSticks(a) ==
  /\ a \in procs \ stuck /\ left.probes > 0 /\ \E e \in Epochs : holder[e] = a
  /\ stuck' = stuck \cup {a}
  /\ UNCHANGED <<roomVars, auto, holder, closings, procs, started, job, left, strayed>>

-----------------------------------------------------------------------------
(* A launch: launch_guarded, adopt_only, launch_and_wait.                  *)

(* note_agent, with what it says of the agent on the current channel: an   *)
(* epoch's channel without a handshake is recorded as pid 0.               *)
Noted(s) ==
  [s EXCEPT !.ready = TRUE, !.strikes = 0, !.wedged = FALSE, !.known = holder[s.epoch]]

(* launch_guarded: one launch at a time; it belongs to the epoch it finds. *)
(* The handshake it finds is the one it has to replace.                    *)
Guard(t, next) ==
  /\ IF auto.enabled /\ ~auto.inFlight
     THEN /\ auto' = [auto EXCEPT !.inFlight = TRUE, !.ready = FALSE, !.adopted = FALSE,
                                  !.deferred = FALSE, !.known = NoAgent]
          /\ job' = [job EXCEPT ![t] = [job[t] EXCEPT !.pc = next, !.epoch = auto.epoch,
                                   !.attempt = 1, !.fresh = FALSE, !.ok = FALSE]]
     ELSE auto' = auto /\ Rest(t)
  /\ UNCHANGED <<roomVars, holder, closings, hostVars, left, strayed>>

OnlyAdopts(t) == t[1] = "connect" /\ plan[t[2]] # "launch"

(* adopt_survivor: an agent is on the channel already.  Which epoch the    *)
(* state is at by now is not looked at, only whether it is enabled.        *)
AdoptsSurvivor(t) ==
  /\ job[t].pc = "adopt" /\ holder[job[t].epoch] # NoAgent
  /\ IF auto.enabled
     THEN /\ auto' = [Noted(auto) EXCEPT !.adopted = TRUE]
          /\ job' = [job EXCEPT ![t].pc = "done", ![t].ok = TRUE]
     ELSE /\ Move(t, IF OnlyAdopts(t) THEN "done" ELSE "attempt")
          /\ UNCHANGED auto
  /\ UNCHANGED <<roomVars, holder, closings, hostVars, left, strayed>>

NoSurvivor(t) ==
  /\ job[t].pc = "adopt" /\ holder[job[t].epoch] = NoAgent
  /\ job' = [job EXCEPT ![t].pc = IF OnlyAdopts(t) THEN "done" ELSE "attempt",
                        ![t].fresh = FALSE]
  /\ UNCHANGED <<roomVars, auto, holder, closings, hostVars, left, strayed>>

Ours(t) == auto.epoch = job[t].epoch

Fails(t) == [job[t] EXCEPT !.pc = "done", !.ok = FALSE]
NextAttempt(t) ==
  IF job[t].attempt = LaunchAttempts THEN Fails(t)
  ELSE [job[t] EXCEPT !.pc = "attempt", !.attempt = @ + 1]

(* The top of an attempt: gone() is asked; a launch that is visibly still  *)
(* starting is waited for instead of typed again.                          *)
Attempt(t) ==
  /\ job[t].pc = "attempt"
  /\ \/ ~Ours(t) /\ job' = [job EXCEPT ![t] = Fails(t)]
     \/ Ours(t) /\ Move(t, "settle")
     \/ Ours(t) /\ job[t].attempt > 1 /\ procs # {} /\ Move(t, "wait")
  /\ UNCHANGED <<roomVars, auto, holder, closings, hostVars, left, strayed>>

(* Two seconds later, Win+R is typed into the session the slot holds now.  *)
(* The Run dialog may swallow it, or the clipboard fail.                   *)
Type(t) ==
  /\ job[t].pc = "settle"
  /\ IF ~Live
     THEN job' = [job EXCEPT ![t] = NextAttempt(t)] /\ UNCHANGED <<started, procs, strayed>>
     ELSE \/ job' = [job EXCEPT ![t] = NextAttempt(t)] /\ UNCHANGED <<started, procs, strayed>>
          \/ /\ strayed' = (strayed \/ job[t].epoch # Here)
             /\ Move(t, "wait")
             /\ \/ UNCHANGED <<started, procs>>
                \/ /\ started < left.agents
                   /\ started' = started + 1 /\ procs' = procs \cup {started + 1}
  /\ UNCHANGED <<roomVars, auto, holder, closings, stuck, left>>

(* wait_for_handshake: a handshake newer than the one the launch found.    *)
AgentAnswers(t) == holder[job[t].epoch] # NoAgent /\ job[t].fresh

AgentAppears(t) ==
  /\ job[t].pc = "wait" /\ AgentAnswers(t)
  /\ IF Ours(t)
     THEN /\ auto' = Noted(auto)
          /\ job' = [job EXCEPT ![t].pc = "done", ![t].ok = TRUE]
     ELSE job' = [job EXCEPT ![t] = Fails(t)] /\ UNCHANGED auto
  /\ UNCHANGED <<roomVars, holder, closings, hostVars, left, strayed>>

(* The window closed, extended or not, or the session is gone.             *)
NoAgentAppears(t) ==
  /\ job[t].pc = "wait" /\ ~AgentAnswers(t)
  /\ job' = [job EXCEPT ![t] = NextAttempt(t)]
  /\ UNCHANGED <<roomVars, auto, holder, closings, hostVars, left, strayed>>

(* record_launch_outcome.                                                  *)
Recorded(s, ok) ==
  IF ok THEN [s EXCEPT !.due = FALSE, !.failures = 0]
  ELSE [s EXCEPT !.failures = IF @ < MaxFailures THEN @ + 1 ELSE @,
                 !.due = s.failures + 1 < MaxFailures]

(* Mutant: the flag of whatever session there is now is cleared.           *)
FinishUngated(t) ==
  /\ job[t].pc = "done" /\ ~OnlyAdopts(t)
  /\ auto' = LET s == [auto EXCEPT !.inFlight = FALSE]
             IN  IF s.enabled THEN Recorded(s, job[t].ok) ELSE s
  /\ Rest(t)
  /\ UNCHANGED <<roomVars, holder, closings, hostVars, left, strayed>>

(* finish_launch: nothing is recorded against another epoch's state.       *)
Finish(t) ==
  /\ job[t].pc = "done" /\ ~OnlyAdopts(t)
  /\ auto' = IF ~Ours(t) THEN auto
             ELSE LET s == [auto EXCEPT !.inFlight = FALSE]
                  IN  IF s.enabled THEN Recorded(s, job[t].ok) ELSE s
  /\ Rest(t)
  /\ UNCHANGED <<roomVars, holder, closings, hostVars, left, strayed>>

(* The end of adopt_only: no survivor is no failure.                       *)
FinishAdopting(t) ==
  /\ job[t].pc = "done" /\ OnlyAdopts(t)
  /\ LET adopted == Ours(t) /\ job[t].ok /\ auto.enabled
     IN  /\ auto' = IF ~Ours(t) THEN auto
                    ELSE LET s == [auto EXCEPT !.inFlight = FALSE]
                         IN  IF adopted THEN Recorded(s, TRUE) ELSE s
         /\ job' = [job EXCEPT ![t] = [Off EXCEPT !.pc = IF adopted THEN "idle" ELSE "unadopted"]]
  /\ UNCHANGED <<roomVars, holder, closings, hostVars, left, strayed>>

LaunchStep(t) ==
  \/ AdoptsSurvivor(t) \/ NoSurvivor(t) \/ Attempt(t) \/ Type(t)
  \/ AgentAppears(t) \/ NoAgentAppears(t) \/ Finish(t) \/ FinishAdopting(t)

-----------------------------------------------------------------------------
(* The automation tail of connect.                                         *)

TailLaunches(g) ==
  /\ job[Connecting(g)].pc = "tail" /\ plan[g] = "launch"
  /\ Guard(Connecting(g), "adopt")

(* --defer-agent: the supervisor is told to keep its hands off first.      *)
TailDefers(g) ==
  /\ job[Connecting(g)].pc = "tail" /\ plan[g] = "defer"
  /\ auto' = [auto EXCEPT !.deferred = TRUE]
  /\ Move(Connecting(g), "deferred")
  /\ UNCHANGED <<roomVars, holder, closings, hostVars, left, strayed>>

(* adopt_only.                                                             *)
TailAdopts(g) ==
  /\ \/ job[Connecting(g)].pc = "tail" /\ plan[g] = "unattended"
     \/ job[Connecting(g)].pc = "deferred"
  /\ IF auto.enabled /\ ~auto.inFlight
     THEN /\ auto' = [auto EXCEPT !.inFlight = TRUE, !.adopted = FALSE]
          /\ job' = [job EXCEPT ![Connecting(g)].pc = "adopt",
                                ![Connecting(g)].epoch = auto.epoch,
                                ![Connecting(g)].ok = FALSE]
     ELSE auto' = auto /\ Move(Connecting(g), "unadopted")
  /\ UNCHANGED <<roomVars, holder, closings, hostVars, left, strayed>>

(* Nobody adopted: a deferred launch is not to be retried, an unattended   *)
(* one is left to the supervisor.                                          *)
TailEnds(g) ==
  /\ job[Connecting(g)].pc = "unadopted"
  /\ auto' = [auto EXCEPT !.due = (plan[g] = "unattended"), !.failures = 0]
  /\ Move(Connecting(g), "idle")
  /\ UNCHANGED <<roomVars, holder, closings, hostVars, left, strayed>>

-----------------------------------------------------------------------------
(* The relaunch supervisor of session g.                                   *)

Superseded(g) == claimed # g

(* It ends with its session: a newer generation, or the DVC state dropped. *)
SupervisorEnds(g) ==
  /\ job[Supervisor(g)].pc = "idle" /\ (Superseded(g) \/ auto.epoch # home[g])
  /\ Move(Supervisor(g), "off")
  /\ UNCHANGED <<roomVars, auto, holder, closings, hostVars, left, strayed>>

HearsClose(g) ==
  /\ job[Supervisor(g)].pc = "idle" /\ ~Superseded(g)
  /\ closings[home[g]]
  /\ closings' = [closings EXCEPT ![home[g]] = FALSE]
  /\ Move(Supervisor(g), "closing")
  /\ UNCHANGED <<roomVars, auto, holder, hostVars, left, strayed>>

(* Mutant: a close is taken for the end of the session.                    *)
NeverArms(g) ==
  /\ job[Supervisor(g)].pc = "closing" /\ \A t \in LaunchTasks : job[t].pc # "done"
  /\ auto' = IF auto.enabled /\ ~auto.inFlight /\ ~Reachable
             THEN [auto EXCEPT !.ready = FALSE, !.known = NoAgent] ELSE auto
  /\ Move(Supervisor(g), "idle")
  /\ UNCHANGED <<roomVars, holder, closings, hostVars, left, strayed>>

(* After the settle, a close arms a retry.  The settle takes five seconds: *)
(* a launch that has its outcome has recorded it by then.                  *)
ArmsOnClose(g) ==
  /\ job[Supervisor(g)].pc = "closing" /\ \A t \in LaunchTasks : job[t].pc # "done"
  /\ auto' = IF auto.enabled /\ ~auto.inFlight /\ ~Reachable
             THEN [auto EXCEPT !.ready = FALSE, !.known = NoAgent, !.due = TRUE] ELSE auto
  /\ Move(Supervisor(g), "idle")
  /\ UNCHANGED <<roomVars, holder, closings, hostVars, left, strayed>>

(* A tick, with an agent that has spoken lately: its strikes are spent.    *)
TickHeard(g) ==
  /\ job[Supervisor(g)].pc = "idle" /\ ~Superseded(g)
  /\ Reachable /\ holder[auto.epoch] \notin stuck
  /\ auto' = [auto EXCEPT !.strikes = 0, !.wedged = FALSE]
  /\ UNCHANGED <<roomVars, holder, closings, hostVars, job, left, strayed>>

(* A tick that finds the agent quiet, nothing pending and the transport    *)
(* healthy asks it for its status.                                         *)
Probe(g) ==
  /\ job[Supervisor(g)].pc = "idle" /\ ~Superseded(g) /\ Live /\ Reachable
  /\ Move(Supervisor(g), "probing")
  /\ UNCHANGED <<roomVars, auto, holder, closings, hostVars, left, strayed>>

ProbeAnswered(g) ==
  /\ job[Supervisor(g)].pc = "probing" /\ Reachable /\ holder[auto.epoch] \notin stuck
  /\ auto' = [auto EXCEPT !.strikes = 0, !.wedged = FALSE, !.ready = @ \/ auto.wedged]
  /\ Move(Supervisor(g), "idle")
  /\ UNCHANGED <<roomVars, holder, closings, hostVars, left, strayed>>

(* The verdict after enough misses: no longer ready, and a retry is due.   *)
ProbeMissed(g) ==
  /\ job[Supervisor(g)].pc = "probing" /\ left.probes > 0
  /\ left' = [left EXCEPT !.probes = @ - 1]
  /\ auto' = LET s == [auto EXCEPT !.strikes = IF @ < WedgeStrikes THEN @ + 1 ELSE @]
             IN  IF s.strikes < WedgeStrikes \/ s.wedged THEN s
                 ELSE [s EXCEPT !.wedged = TRUE, !.ready = FALSE, !.due = TRUE]
  /\ Move(Supervisor(g), "idle")
  /\ UNCHANGED <<roomVars, holder, closings, hostVars, strayed>>

(* Something else was in flight too: the miss proves nothing.              *)
ProbeMoot(g) ==
  /\ job[Supervisor(g)].pc = "probing"
  /\ Move(Supervisor(g), "idle")
  /\ UNCHANGED <<roomVars, auto, holder, closings, hostVars, left, strayed>>

(* should_retry, up to the times: backoff, input quiet, a visible start.   *)
(* Every pass of the loop asks it; one that declines changes nothing.      *)
ShouldRetry(g) ==
  /\ ~Superseded(g) /\ ~auto.deferred /\ Live /\ auto.enabled /\ ~auto.inFlight
  /\ ~Reachable \/ auto.wedged
  /\ auto.due

Decides(g) ==
  /\ job[Supervisor(g)].pc = "idle" /\ ShouldRetry(g)
  /\ Move(Supervisor(g), "retry")
  /\ UNCHANGED <<roomVars, auto, holder, closings, hostVars, left, strayed>>

(* supervisor_attempt: the budget may refuse, and asks to be asked again.  *)
SupervisorLaunches(g) ==
  /\ job[Supervisor(g)].pc = "retry"
  /\ Guard(Supervisor(g), "attempt")

BudgetRefuses(g) ==
  /\ job[Supervisor(g)].pc = "retry"
  /\ auto' = [auto EXCEPT !.due = TRUE]
  /\ Move(Supervisor(g), "idle")
  /\ UNCHANGED <<roomVars, holder, closings, hostVars, left, strayed>>

SupervisorStep(g) ==
  \/ SupervisorEnds(g) \/ HearsClose(g) \/ ArmsOnClose(g) \/ TickHeard(g)
  \/ Probe(g) \/ ProbeAnswered(g) \/ ProbeMissed(g) \/ ProbeMoot(g)
  \/ Decides(g) \/ SupervisorLaunches(g) \/ BudgetRefuses(g)

-----------------------------------------------------------------------------
(* Commands on other clients: `automate restart`, and any other.           *)

(* handle_restart refuses while a launch runs; otherwise the operator      *)
(* overrides a give-up, and the agent that is up is asked to exit.         *)
RestartBegins ==
  /\ AtRest(Restart) /\ left.restarts > 0 /\ Live /\ auto.enabled
  /\ left' = [left EXCEPT !.restarts = @ - 1]
  /\ IF auto.inFlight THEN UNCHANGED <<auto, job>>
     ELSE /\ auto' = [auto EXCEPT !.failures = 0, !.due = FALSE]
          /\ job' = [job EXCEPT ![Restart] = [Off EXCEPT !.pc = "stopping", !.epoch = auto.epoch]]
  /\ UNCHANGED <<roomVars, holder, closings, hostVars, strayed>>

(* stop_running_agent: an agent that is ready is asked to exit.            *)
RestartAsks ==
  /\ job[Restart].pc = "stopping"
  /\ LET a == holder[job[Restart].epoch]
     IN  job' = [job EXCEPT ![Restart].pc = IF a = NoAgent THEN "retry" ELSE "asked",
                            ![Restart].old = a]
  /\ UNCHANGED <<roomVars, auto, holder, closings, hostVars, left, strayed>>

(* Answered or not, it is released if it still holds the channel; nobody   *)
(* is told.                                                                *)
RestartReleases ==
  /\ job[Restart].pc = "asked"
  /\ LET e == job[Restart].epoch
     IN  IF holder[e] = job[Restart].old
         THEN holder' = [holder EXCEPT ![e] = NoAgent] /\ procs' = procs \ {holder[e]}
         ELSE UNCHANGED <<holder, procs>>
  /\ Move(Restart, "retry")
  /\ UNCHANGED <<roomVars, auto, closings, started, stuck, left, strayed>>

(* The wait for a released agent's channel is a quarter of a second at     *)
(* least: a launch that has its outcome has recorded it by then.           *)
RestartLaunches ==
  /\ job[Restart].pc = "retry" /\ \A t \in LaunchTasks : job[t].pc # "done"
  /\ Guard(Restart, "attempt")

(* The gate of every command: sync_late_handshake.                         *)
LateHandshake ==
  /\ Live /\ Reachable /\ ~auto.ready /\ ~auto.inFlight
  /\ auto' = [Noted(auto) EXCEPT !.due = FALSE, !.adopted = TRUE]
  /\ UNCHANGED <<roomVars, holder, closings, hostVars, job, left, strayed>>

(* ... or reconcile_agent_identity: another agent took the channel over.   *)
AgentReplaced ==
  /\ Live /\ Reachable /\ auto.ready /\ ~auto.inFlight /\ auto.known # holder[auto.epoch]
  /\ auto' = [Noted(auto) EXCEPT !.adopted = TRUE]
  /\ UNCHANGED <<roomVars, holder, closings, hostVars, job, left, strayed>>

-----------------------------------------------------------------------------
LaunchNext ==
  \/ ConnectBegins \/ SessionEnds \/ Wiped \/ DisconnectWipes \/ DisconnectTakes
  \/ \E a \in Agents : AgentGreets(a) \/ AgentSticks(a)
  \/ ChannelBreaks
  \/ \E t \in LaunchTasks : LaunchStep(t)
  \/ \E g \in Generations :
       \/ ConnectStores(g) \/ TailLaunches(g) \/ TailDefers(g) \/ TailAdopts(g) \/ TailEnds(g)
       \/ SupervisorStep(g)
  \/ RestartBegins \/ RestartAsks \/ RestartReleases \/ RestartLaunches
  \/ LateHandshake \/ AgentReplaced

LaunchSpec == LaunchInit /\ [][LaunchNext]_launchVars

-----------------------------------------------------------------------------
(* Properties.                                                             *)

LaunchTypeOK ==
  /\ sessionAt \in 0 .. MaxSessions /\ claimed \in 0 .. MaxSessions
  /\ tearing \in 0 .. MaxSessions /\ leaving \in BOOLEAN
  /\ auto \in [enabled : BOOLEAN, epoch : Epochs, inFlight : BOOLEAN, ready : BOOLEAN,
               deferred : BOOLEAN, due : BOOLEAN, failures : 0 .. MaxFailures,
               strikes : 0 .. WedgeStrikes, wedged : BOOLEAN, known : 0 .. MaxAgents,
               adopted : BOOLEAN]
  /\ holder \in [Epochs -> 0 .. MaxAgents] /\ closings \in [Epochs -> BOOLEAN]
  /\ procs \subseteq 1 .. started /\ started \in 0 .. MaxAgents /\ stuck \subseteq Agents
  /\ \A t \in LaunchTasks : job[t].epoch \in Epochs /\ job[t].attempt \in 0 .. LaunchAttempts
  /\ strayed \in BOOLEAN

(* The in-flight flag is never lost and never left behind: it is set       *)
(* exactly while one launch of the current epoch runs, through drops and   *)
(* reconnects that take the state from under older launches.               *)
InFlightHasLauncher ==
  auto.enabled =>
    Cardinality({t \in LaunchTasks : Launches(t) /\ Ours(t)}) = IF auto.inFlight THEN 1 ELSE 0

(* A session whose agent is down is not forgotten: a launch runs, a retry  *)
(* is armed, the supervisor is about to hear of the close, connect's or    *)
(* restart's own bookkeeping is still to come, or the launches were given  *)
(* up.  A connect that defers its launch excuses it, an earlier one too:   *)
(* its tail writes to whatever state there is by then.                     *)
AgentDownIsScheduled ==
  Live /\ auto.enabled /\ ~Reachable =>
    \/ auto.inFlight \/ auto.due \/ auto.failures >= MaxFailures
    \/ \E g \in 1 .. claimed : plan[g] = "defer"
    \/ closings[auto.epoch] \/ job[Supervisor(sessionAt)].pc = "closing"
    \/ \E g \in Generations : ~AtRest(Connecting(g))
    \/ job[Restart].pc \in {"stopping", "asked", "retry"}

(* The newest connect is still on its way to a session.                    *)
BeingMade == claimed # 0 /\ job[Connecting(claimed)].pc = "building"

(* A session that is up works on the state its own connect made, or on     *)
(* none: never on that of another connect.                                 *)
OwnState == Live /\ auto.enabled => auto.epoch = Here

(* ... and nothing but a disconnect takes the state away from a session    *)
(* that is up or being made: the wipe of a session that dropped, however   *)
(* late it comes, spares the one after it.                                 *)
DropsSpareTheState ==
  [][(Live \/ BeingMade) /\ auto.enabled /\ ~auto'.enabled => DisconnectWipes]_launchVars

(* Known not to hold, and in no run: a session that is up has its state.   *)
(* The disconnect that wipes before it takes the session may do so while a *)
(* connect is under way, and that connect stores a session whose           *)
(* automation is off.                                                      *)
HasItsState == Live => auto.enabled \/ leaving

(* bootstrap.rs: "The one thing an abandoned launch must never do is type  *)
(* into a session it does not belong to."                                  *)
TypesIntoOwnSession == ~strayed

(* All it takes: a launch that asked gone() in time, and in the two seconds*)
(* before it types, a connect, a drop or a disconnect that has moved the   *)
(* state on.  The launch of the session that is up always types into it.   *)
StraysWhenOvertaken ==
  [][~strayed /\ strayed' =>
       Live /\ \E t \in LaunchTasks : job[t].pc = "settle" /\ ~Ours(t)]_launchVars

(* docs/AUTOMATION.md: "A verdict sets `wedged` in `automate status` and   *)
(* unblocks the relaunch gate, which a live handshake would otherwise      *)
(* satisfy forever."  The command that shows the verdict does not undo it. *)
VerdictShown == [][LateHandshake => ~auto.wedged]_launchVars

=============================================================================
