------------------------- MODULE AgentLaunch_proofs -------------------------
(***************************************************************************)
(* Proofs about AgentLaunch, for any number of connects, agents and        *)
(* attempts.                                                               *)
(***************************************************************************)
EXTENDS AgentLaunch, FiniteSetTheorems, TLAPS

(* What the assumption says of the bounds.                                 *)
LEMMA Bounds ==
  /\ MaxSessions \in Nat /\ MaxAgents \in Nat
  /\ LaunchAttempts \in Nat \ {0} /\ MaxFailures \in Nat \ {0} /\ WedgeStrikes \in Nat \ {0}
BY LaunchAssumption DEF LaunchAssumption

USE Bounds

-----------------------------------------------------------------------------
(* The inductive invariant.                                                *)

States == [enabled : BOOLEAN, epoch : Epochs, inFlight : BOOLEAN, ready : BOOLEAN,
           deferred : BOOLEAN, due : BOOLEAN, failures : 0 .. MaxFailures,
           strikes : 0 .. WedgeStrikes, wedged : BOOLEAN, known : 0 .. MaxAgents,
           adopted : BOOLEAN]

Steps == {"off", "idle", "building", "tail", "deferred", "adopt", "attempt", "settle", "wait",
          "done", "unadopted", "closing", "probing", "retry", "stopping", "asked"}

Jobs == [pc : Steps, epoch : Epochs, attempt : 0 .. LaunchAttempts, fresh : BOOLEAN,
         ok : BOOLEAN, old : 0 .. MaxAgents]

LaunchRanges ==
  /\ LaunchTypeOK
  /\ plan \in Seq(Modes) /\ Len(plan) <= MaxSessions
  /\ home \in [Generations -> Epochs]
  /\ job \in [LaunchTasks -> Jobs]
  /\ left \in [restarts : Nat, probes : Nat, breaks : Nat, disconnects : Nat,
                agents : 0 .. MaxAgents]

(* A connect makes one epoch, and what wipes it, a drop or a disconnect,   *)
(* another.                                                                *)
EpochsCounted ==
  /\ claimed <= Len(plan)
  /\ auto.epoch <= 2 * claimed - (IF auto.enabled THEN 1 ELSE 0)
  /\ \A t \in LaunchTasks : job[t].epoch <= auto.epoch

(* The newest connect owns the state, the slot, and what is being built.   *)
NewestOwns ==
  /\ auto.enabled => claimed # 0 /\ home[claimed] = auto.epoch
  /\ Live => sessionAt = claimed
  /\ \A g \in Generations :
       /\ job[Connecting(g)].pc = "building" => g = claimed
       /\ job[Connecting(g)].pc # "off" => g <= claimed
       /\ job[Connecting(g)].pc = "deferred" => plan[g] = "defer"
       /\ job[Connecting(g)].pc = "unadopted" => plan[g] # "launch"

(* A launch's epoch is one in which the automation is enabled; one launch  *)
(* of the current epoch runs, and only while the flag is set.              *)
Current(t) == Launches(t) /\ Ours(t)

OneLaunch ==
  /\ \A t \in LaunchTasks : Current(t) => auto.enabled
  /\ auto.enabled =>
    /\ auto.inFlight <=> \E t \in LaunchTasks : Current(t)
    /\ \A t, u \in LaunchTasks : Current(t) /\ Current(u) => t = u

(* A launch that has yet to record its success still has its agent, or the *)
(* loss of it will be seen.                                                *)
LossNoticed ==
  /\ closings[auto.epoch] \/ job[Supervisor(claimed)].pc = "closing" \/ job[Restart].pc = "retry"

SuccessStands ==
  auto.enabled =>
    \A t \in LaunchTasks :
      job[t].pc = "done" /\ job[t].ok /\ Ours(t) => holder[auto.epoch] # NoAgent \/ LossNoticed

(* A launch succeeds at its end only.                                      *)
SuccessIsLast == \A t \in LaunchTasks : job[t].ok => job[t].pc = "done"

(* A supervisor comes with its session, which the connect has stored.      *)
SupervisorsFollow ==
  \A g \in Generations :
    job[Supervisor(g)].pc # "off" => g <= claimed /\ job[Connecting(g)].pc # "building"

(* What makes up for an agent that is down.                                *)
Scheduled ==
  \/ auto.inFlight \/ auto.due \/ auto.failures >= MaxFailures
  \/ closings[auto.epoch] \/ job[Supervisor(claimed)].pc = "closing"
  \/ job[Connecting(claimed)].pc \in {"building", "tail"}
  \/ \E g \in Generations : job[Connecting(g)].pc = "unadopted"
  \/ job[Restart].pc \in {"stopping", "asked", "retry"}

NobodyDefers == \A g \in 1 .. claimed : plan[g] # "defer"

DownIsScheduled ==
  Live /\ auto.enabled /\ holder[auto.epoch] = NoAgent /\ NobodyDefers => Scheduled

LaunchInv ==
  /\ LaunchRanges /\ EpochsCounted /\ NewestOwns /\ OneLaunch /\ SuccessStands /\ SuccessIsLast
  /\ SupervisorsFollow /\ DownIsScheduled

-----------------------------------------------------------------------------
(* The tasks are told apart.                                               *)
LEMMA TaskFacts ==
  /\ Restart \in LaunchTasks
  /\ \A g \in Generations : /\ Connecting(g) \in LaunchTasks /\ Connecting(g) # Restart
                            /\ Supervisor(g) \in LaunchTasks /\ Supervisor(g) # Restart
  /\ \A g, h \in Generations : /\ Connecting(g) # Supervisor(h)
                               /\ Connecting(g) = Connecting(h) => g = h
                               /\ Supervisor(g) = Supervisor(h) => g = h
BY DEF LaunchTasks, Restart, Connecting, Supervisor

LEMMA AdoptingTasks ==
  ASSUME NEW t \in LaunchTasks, OnlyAdopts(t)
  PROVE  \E g \in Generations : t = Connecting(g) /\ plan[g] # "launch"
BY DEF LaunchTasks, Restart, Connecting, Supervisor, OnlyAdopts

(* What a step may do to a task's job.                                     *)
AsBefore(u) ==
  job'[u].pc = job[u].pc /\ job'[u].epoch = job[u].epoch /\ job'[u].ok = job[u].ok

LEMMA Moved ==
  ASSUME job \in [LaunchTasks -> Jobs], NEW t \in LaunchTasks, NEW p \in Steps, Move(t, p)
  PROVE  /\ job' \in [LaunchTasks -> Jobs]
         /\ job'[t].pc = p /\ job'[t].epoch = job[t].epoch /\ job'[t].ok = job[t].ok
         /\ \A u \in LaunchTasks \ {t} : job'[u] = job[u] /\ AsBefore(u)
BY DEF Move, Jobs, AsBefore

LEMMA OffIsJob == Off \in Jobs /\ \A p \in Steps : [Off EXCEPT !.pc = p] \in Jobs
<1>1. 0 \in Epochs /\ 0 \in 0 .. LaunchAttempts /\ 0 \in 0 .. MaxAgents
  BY DEF Epochs
<1>2. Off \in Jobs
  <2>1. Off = [pc |-> "off", epoch |-> 0, attempt |-> 0, fresh |-> FALSE, ok |-> FALSE,
               old |-> 0]
    BY Zenon DEF Off, NoAgent
  <2>2. "off" \in Steps /\ FALSE \in BOOLEAN
    BY DEF Steps
  <2>3. [pc |-> "off", epoch |-> 0, attempt |-> 0, fresh |-> FALSE, ok |-> FALSE,
         old |-> 0] \in Jobs
    BY <1>1, <2>2, Zenon DEF Jobs
  <2> QED
    BY <2>1, <2>3
<1> QED
  BY <1>2 DEF Jobs

LEMMA Rested ==
  ASSUME job \in [LaunchTasks -> Jobs], NEW t \in LaunchTasks, Rest(t)
  PROVE  /\ job' \in [LaunchTasks -> Jobs]
         /\ job'[t].pc = "idle" /\ job'[t].epoch = 0 /\ job'[t].ok = FALSE
         /\ \A u \in LaunchTasks \ {t} : job'[u] = job[u] /\ AsBefore(u)
<1>1. [Off EXCEPT !.pc = "idle"] \in Jobs
  <2>1. "idle" \in Steps
    BY DEF Steps
  <2> QED
    BY <2>1, OffIsJob, Zenon
<1> QED
  BY <1>1 DEF Rest, AsBefore, Off

LEMMA Replaced ==
  ASSUME job \in [LaunchTasks -> Jobs], NEW t \in LaunchTasks, NEW r \in Jobs,
         job' = [job EXCEPT ![t] = r]
  PROVE  /\ job' \in [LaunchTasks -> Jobs]
         /\ job'[t] = r
         /\ \A u \in LaunchTasks \ {t} : job'[u] = job[u] /\ AsBefore(u)
BY DEF AsBefore

-----------------------------------------------------------------------------
(* Steps of one epoch.                                                     *)

Steady ==
  /\ auto'.enabled = auto.enabled /\ auto'.epoch = auto.epoch
  /\ UNCHANGED <<plan, claimed, home>>

(* Only t's job changes.                                                   *)
OnlyJob(t) == \A u \in LaunchTasks \ {t} : AsBefore(u)

(* No task is born, and no session's making begins.                        *)
NoneBorn(u) ==
  /\ job[u].pc = "off" /\ u # Restart => job'[u].pc = "off"
  /\ job'[u].pc = "building" => job[u].pc = "building"

LEMMA StillFollow ==
  ASSUME LaunchInv, UNCHANGED claimed, \A u \in LaunchTasks : NoneBorn(u)
  PROVE  SupervisorsFollow'
BY TaskFacts DEF LaunchInv, SupervisorsFollow, NoneBorn

(* A launch that goes on.                                                  *)
LEMMA GoesOn ==
  ASSUME LaunchInv, LaunchRanges', NEW t \in LaunchTasks, Steady, OnlyJob(t),
         auto'.inFlight = auto.inFlight, auto'.due = auto.due, auto'.failures = auto.failures,
         UNCHANGED <<sessionAt, holder, closings>>,
         Launches(t), job[t].pc # "done", Launches(t)', job'[t].epoch = job[t].epoch,
         job'[t].ok => job'[t].pc = "done" /\ holder[job[t].epoch] # NoAgent
  PROVE  LaunchInv'
<1> USE DEF Steady
<1>1. \A u \in LaunchTasks : /\ Launches(u)' <=> Launches(u)
                             /\ job'[u].epoch = job[u].epoch
                             /\ Current(u)' <=> Current(u)
  BY DEF OnlyJob, AsBefore, Launches, Current, Ours
<1>2. \A u \in LaunchTasks : ~Launches(u) => u # t /\ AsBefore(u)
  BY DEF OnlyJob
<1>3. \A u \in LaunchTasks : job'[u].pc \notin Launching => job'[u].pc = job[u].pc
  BY <1>1, <1>2 DEF Launches, AsBefore
<1>4. EpochsCounted'
  BY <1>1 DEF LaunchInv, EpochsCounted
<1>5. NewestOwns'
  <2>1. \A g \in Generations : Connecting(g) \in LaunchTasks
    BY TaskFacts
  <2>2. \A g \in Generations :
          \/ job'[Connecting(g)].pc = job[Connecting(g)].pc
          \/ job'[Connecting(g)].pc \in Launching /\ job[Connecting(g)].pc \in Launching
    <3> TAKE g \in Generations
    <3> DEFINE u == Connecting(g)
    <3>1. u \in LaunchTasks
      BY <2>1
    <3> HIDE DEF u
    <3>2. (job'[u].pc \in Launching <=> job[u].pc \in Launching)
          /\ (job'[u].pc \notin Launching => job'[u].pc = job[u].pc)
      BY <1>1, <1>3, <3>1 DEF Launches
    <3> QED
      BY <3>2 DEF u
  <2> QED
    BY <2>2 DEF LaunchInv, NewestOwns, Live, Launching
<1>6. OneLaunch'
  BY <1>1 DEF LaunchInv, OneLaunch
<1>7. auto.enabled => claimed \in Generations
  BY DEF LaunchInv, NewestOwns, LaunchRanges, LaunchTypeOK, Generations
<1>8. \A u \in LaunchTasks : ~Launches(u) => job'[u].pc = job[u].pc
  BY <1>2 DEF AsBefore
<1>9. auto.enabled => /\ job[Supervisor(claimed)].pc = "closing"
                           => job'[Supervisor(claimed)].pc = "closing"
                      /\ job[Restart].pc \in {"stopping", "asked", "retry"}
                           => job'[Restart].pc = job[Restart].pc
                      /\ job[Connecting(claimed)].pc \in {"building", "tail"}
                           => job'[Connecting(claimed)].pc = job[Connecting(claimed)].pc
  BY <1>7, <1>8, TaskFacts DEF Launches, Launching
<1>10. SuccessStands'
  <2> SUFFICES ASSUME auto.enabled, NEW u \in LaunchTasks, job'[u].pc = "done", job'[u].ok, Ours(u)'
               PROVE  holder[auto.epoch] # NoAgent \/ LossNoticed'
    BY DEF SuccessStands
  <2>1. CASE u = t
    BY <2>1, <1>1 DEF Ours
  <2>2. CASE u # t
    <3>1. job[u].pc = "done" /\ job[u].ok /\ Ours(u)
      BY <2>2 DEF OnlyJob, AsBefore, Ours
    <3>2. holder[auto.epoch] # NoAgent \/ LossNoticed
      BY <3>1 DEF LaunchInv, SuccessStands
    <3> QED
      BY <3>2, <1>9 DEF LossNoticed
  <2> QED
    BY <2>1, <2>2
<1>11. DownIsScheduled'
  <2> SUFFICES ASSUME auto.enabled, Live, holder[auto.epoch] = NoAgent, NobodyDefers
               PROVE  Scheduled'
    BY DEF DownIsScheduled, Live, NobodyDefers
  <2>1. Scheduled
    BY DEF LaunchInv, DownIsScheduled
  <2>2. \A g \in Generations : job[Connecting(g)].pc = "unadopted"
          => job'[Connecting(g)].pc = "unadopted"
    BY <1>8, TaskFacts DEF Launches, Launching
  <2> QED
    BY <1>9, <2>1, <2>2 DEF Scheduled
<1>12. SuccessIsLast'
  BY DEF LaunchInv, SuccessIsLast, OnlyJob, AsBefore
<1>13. SupervisorsFollow'
  <2>1. \A u \in LaunchTasks : NoneBorn(u)
    BY DEF OnlyJob, AsBefore, NoneBorn, Launches, Launching
  <2> QED
    BY <2>1, StillFollow
<1> QED
  BY <1>4, <1>5, <1>6, <1>10, <1>11, <1>12, <1>13 DEF LaunchInv

(* A launch that ends: the flag goes down with it if it is of this epoch.  *)
LEMMA LaunchEnds ==
  ASSUME LaunchInv, LaunchRanges', NEW t \in LaunchTasks, Steady, OnlyJob(t),
         auto'.inFlight = (IF Ours(t) THEN FALSE ELSE auto.inFlight),
         UNCHANGED <<sessionAt, holder, closings>>,
         job[t].pc = "done", job'[t].pc \in {"idle", "unadopted"}, job'[t].epoch = 0, ~job'[t].ok,
         ~Ours(t) => auto'.due = auto.due /\ auto'.failures = auto.failures,
         Ours(t) /\ auto.enabled => \/ auto'.due \/ auto'.failures >= MaxFailures
                                    \/ job[t].ok
                                    \/ job'[t].pc = "unadopted",
         job'[t].pc = "unadopted" => \E g \in Generations : t = Connecting(g) /\ plan[g] # "launch"
  PROVE  LaunchInv'
<1> USE DEF Steady
<1>1. \A u \in LaunchTasks \ {t} : /\ Launches(u)' <=> Launches(u)
                                   /\ job'[u].epoch = job[u].epoch /\ job'[u].pc = job[u].pc
                                   /\ job'[u].ok = job[u].ok
                                   /\ Current(u)' <=> Current(u)
  BY DEF OnlyJob, AsBefore, Launches, Current, Ours
<1>2. Launches(t) /\ ~Launches(t)' /\ ~Current(t)'
  BY DEF Launches, Launching, Current
<1>3. \A u \in LaunchTasks : ~Launches(u) => u # t
  BY <1>2
<1>4. EpochsCounted'
  <2>1. auto.epoch \in Nat
    BY DEF LaunchInv, LaunchRanges, LaunchTypeOK, Epochs
  <2> QED
    BY <1>1, <2>1 DEF LaunchInv, EpochsCounted
<1>5. NewestOwns'
  <2> SUFFICES ASSUME NEW g \in Generations
               PROVE  /\ job'[Connecting(g)].pc = "building" => g = claimed
                      /\ job'[Connecting(g)].pc # "off" => g <= claimed
                      /\ job'[Connecting(g)].pc = "deferred" => plan[g] = "defer"
                      /\ job'[Connecting(g)].pc = "unadopted" => plan[g] # "launch"
    BY DEF LaunchInv, NewestOwns, Live
  <2>1. Connecting(g) \in LaunchTasks
    BY TaskFacts
  <2>2. CASE Connecting(g) = t
    BY <2>2, TaskFacts DEF LaunchInv, NewestOwns
  <2>3. CASE Connecting(g) # t
    BY <2>1, <2>3, <1>1 DEF LaunchInv, NewestOwns
  <2> QED
    BY <2>2, <2>3
<1>6. OneLaunch'
  <2>1. CASE ~Ours(t)
    <3>1. ~Current(t)
      BY <2>1 DEF Current
    <3>2. \A u \in LaunchTasks : Current(u)' <=> Current(u)
      BY <3>1, <1>1, <1>2
    <3> QED
      BY <2>1, <3>2 DEF LaunchInv, OneLaunch
  <2>2. CASE Ours(t) /\ auto.enabled
    <3>1. \A u \in LaunchTasks : Current(u) => u = t
      BY <2>2, <1>2 DEF LaunchInv, OneLaunch, Current
    <3>2. \A u \in LaunchTasks : ~Current(u)'
      BY <3>1, <1>1, <1>2
    <3> QED
      BY <2>2, <3>2 DEF OneLaunch
  <2>3. CASE ~auto.enabled
    BY <1>1, <1>2, <2>3 DEF LaunchInv, OneLaunch
  <2> QED
    BY <2>1, <2>2, <2>3
<1>7. auto.enabled => claimed \in Generations
  BY DEF LaunchInv, NewestOwns, LaunchRanges, LaunchTypeOK, Generations
<1>9. auto.enabled => /\ job[Supervisor(claimed)].pc = "closing"
                           => job'[Supervisor(claimed)].pc = "closing"
                      /\ job[Restart].pc \in {"stopping", "asked", "retry"}
                           => job'[Restart].pc = job[Restart].pc
                      /\ job[Connecting(claimed)].pc \in {"building", "tail"}
                           => job'[Connecting(claimed)].pc = job[Connecting(claimed)].pc
  BY <1>7, <1>1, TaskFacts
<1>10. SuccessStands'
  <2> SUFFICES ASSUME auto.enabled, NEW u \in LaunchTasks, job'[u].pc = "done", job'[u].ok, Ours(u)'
               PROVE  holder[auto.epoch] # NoAgent \/ LossNoticed'
    BY DEF SuccessStands
  <2>1. u # t
    OBVIOUS
  <2>2. job[u].pc = "done" /\ job[u].ok /\ Ours(u)
    BY <1>1, <2>1 DEF Ours
  <2>3. holder[auto.epoch] # NoAgent \/ LossNoticed
    BY <2>2 DEF LaunchInv, SuccessStands
  <2> QED
    BY <2>3, <1>9 DEF LossNoticed
<1>11. DownIsScheduled'
  <2> SUFFICES ASSUME auto.enabled, Live, holder[auto.epoch] = NoAgent, NobodyDefers
               PROVE  Scheduled'
    BY DEF DownIsScheduled, Live, NobodyDefers
  <2>1. Scheduled
    BY DEF LaunchInv, DownIsScheduled
  <2>2. \A g \in Generations : job[Connecting(g)].pc = "unadopted"
          => job'[Connecting(g)].pc = "unadopted"
    BY <1>1, TaskFacts
  <2>3. CASE ~Ours(t)
    BY <1>9, <2>1, <2>2, <2>3 DEF Scheduled
  <2>4. CASE Ours(t) /\ job[t].ok
    <3>1. LossNoticed
      BY <2>4 DEF LaunchInv, SuccessStands
    <3> QED
      BY <3>1, <1>9 DEF Scheduled, LossNoticed
  <2>5. CASE Ours(t) /\ job'[t].pc = "unadopted"
    BY <2>5 DEF Scheduled
  <2> QED
    BY <2>3, <2>4, <2>5 DEF Scheduled
<1>12. SuccessIsLast'
  BY DEF LaunchInv, SuccessIsLast, OnlyJob, AsBefore
<1>13. SupervisorsFollow'
  <2>1. \A u \in LaunchTasks : NoneBorn(u)
    BY DEF OnlyJob, AsBefore, NoneBorn, Launches, Launching
  <2> QED
    BY <2>1, StillFollow
<1> QED
  BY <1>4, <1>5, <1>6, <1>10, <1>11, <1>12, <1>13 DEF LaunchInv

(* A launch that begins, under the flag.                                   *)
LEMMA Begins ==
  ASSUME LaunchInv, LaunchRanges', NEW t \in LaunchTasks, Steady, OnlyJob(t),
         auto.enabled, ~auto.inFlight, auto'.inFlight,
         UNCHANGED <<sessionAt, holder, closings>>,
         job[t].pc \in {"tail", "deferred", "retry"},
         job[t].pc = "retry" /\ t = Restart => \A u \in LaunchTasks : job[u].pc # "done",
         job'[t].pc \in {"adopt", "attempt"}, job'[t].epoch = auto.epoch, ~job'[t].ok
  PROVE  LaunchInv'
<1> USE DEF Steady
<1>1. \A u \in LaunchTasks \ {t} : /\ Launches(u)' <=> Launches(u)
                                   /\ job'[u].epoch = job[u].epoch /\ job'[u].pc = job[u].pc
                                   /\ job'[u].ok = job[u].ok
                                   /\ Current(u)' <=> Current(u)
  BY DEF OnlyJob, AsBefore, Launches, Current, Ours
<1>2. Current(t)'
  BY DEF Launches, Launching, Current, Ours
<1>4. EpochsCounted'
  <2>1. auto.epoch \in Nat
    BY DEF LaunchInv, LaunchRanges, LaunchTypeOK, Epochs
  <2> QED
    BY <1>1, <2>1 DEF LaunchInv, EpochsCounted
<1>5. NewestOwns'
  <2> SUFFICES ASSUME NEW g \in Generations
               PROVE  /\ job'[Connecting(g)].pc = "building" => g = claimed
                      /\ job'[Connecting(g)].pc # "off" => g <= claimed
                      /\ job'[Connecting(g)].pc = "deferred" => plan[g] = "defer"
                      /\ job'[Connecting(g)].pc = "unadopted" => plan[g] # "launch"
    BY DEF LaunchInv, NewestOwns, Live
  <2>1. Connecting(g) \in LaunchTasks
    BY TaskFacts
  <2>2. CASE Connecting(g) = t
    BY <2>2, TaskFacts DEF LaunchInv, NewestOwns
  <2>3. CASE Connecting(g) # t
    BY <2>1, <2>3, <1>1 DEF LaunchInv, NewestOwns
  <2> QED
    BY <2>2, <2>3
<1>6. OneLaunch'
  <2>1. \A u \in LaunchTasks : ~Current(u)
    BY DEF LaunchInv, OneLaunch
  <2>2. \A u \in LaunchTasks : Current(u)' <=> u = t
    BY <2>1, <1>1, <1>2
  <2> QED
    BY <2>2 DEF OneLaunch
<1>7. claimed \in Generations
  BY DEF LaunchInv, NewestOwns, LaunchRanges, LaunchTypeOK, Generations
<1>10. SuccessStands'
  <2> SUFFICES ASSUME NEW u \in LaunchTasks, job'[u].pc = "done", job'[u].ok, Ours(u)'
               PROVE  holder[auto.epoch] # NoAgent \/ LossNoticed'
    BY DEF SuccessStands
  <2>1. u # t
    OBVIOUS
  <2>2. job[u].pc = "done" /\ job[u].ok /\ Ours(u)
    BY <1>1, <2>1 DEF Ours
  <2>3. holder[auto.epoch] # NoAgent \/ LossNoticed
    BY <2>2 DEF LaunchInv, SuccessStands
  <2>4. job[Supervisor(claimed)].pc = "closing" => job'[Supervisor(claimed)].pc = "closing"
    BY <1>1, <1>7, TaskFacts
  <2>5. job[Restart].pc = "retry" => job'[Restart].pc = "retry"
    BY <2>2, <1>1, TaskFacts
  <2> QED
    BY <2>3, <2>4, <2>5 DEF LossNoticed
<1>11. DownIsScheduled'
  BY DEF DownIsScheduled, Scheduled
<1>12. SuccessIsLast'
  BY DEF LaunchInv, SuccessIsLast, OnlyJob, AsBefore
<1>13. SupervisorsFollow'
  <2>1. \A u \in LaunchTasks : NoneBorn(u)
    BY DEF OnlyJob, AsBefore, NoneBorn, Launches, Launching
  <2> QED
    BY <2>1, StillFollow
<1> QED
  BY <1>4, <1>5, <1>6, <1>10, <1>11, <1>12, <1>13 DEF LaunchInv

(* A step that begins and ends no launch.                                  *)
LEMMA KeepsBooksOf ==
  ASSUME LaunchInv, LaunchRanges', Steady, NewestOwns', DownIsScheduled', SupervisorsFollow',
         auto'.inFlight = auto.inFlight,
         \A u \in LaunchTasks :
           /\ Launches(u) \/ Launches(u)' => AsBefore(u)
           /\ job'[u].epoch \in {job[u].epoch, 0, auto.epoch}
           /\ job'[u].ok => job[u].ok,
         auto.enabled /\ (\E u \in LaunchTasks : job[u].pc = "done")
           => (holder[auto.epoch] # NoAgent \/ LossNoticed
                 => holder'[auto.epoch] # NoAgent \/ LossNoticed')
  PROVE  LaunchInv'
<1> USE DEF Steady
<1>1. \A u \in LaunchTasks : Current(u)' <=> Current(u)
  BY DEF AsBefore, Launches, Current, Ours
<1>2. EpochsCounted'
  <2>1. auto.epoch \in Nat
    BY DEF LaunchInv, LaunchRanges, LaunchTypeOK, Epochs
  <2> QED
    BY <2>1 DEF LaunchInv, EpochsCounted
<1>3. OneLaunch'
  BY <1>1 DEF LaunchInv, OneLaunch
<1>4. SuccessStands'
  <2> SUFFICES ASSUME auto.enabled, NEW u \in LaunchTasks, job'[u].pc = "done", job'[u].ok, Ours(u)'
               PROVE  holder'[auto.epoch] # NoAgent \/ LossNoticed'
    BY DEF SuccessStands
  <2>1. job[u].pc = "done" /\ job[u].ok /\ Ours(u)
    BY DEF Launches, Launching, AsBefore, Ours
  <2>2. holder[auto.epoch] # NoAgent \/ LossNoticed
    BY <2>1 DEF LaunchInv, SuccessStands
  <2> QED
    BY <2>1, <2>2
<1>5. SuccessIsLast'
  BY DEF LaunchInv, SuccessIsLast, Launches, Launching, AsBefore
<1> QED
  BY <1>2, <1>3, <1>4, <1>5 DEF LaunchInv

LEMMA KeepsBooks ==
  ASSUME LaunchInv, LaunchRanges', Steady, NewestOwns', DownIsScheduled',
         auto'.inFlight = auto.inFlight,
         \A u \in LaunchTasks :
           /\ Launches(u) \/ Launches(u)' => AsBefore(u)
           /\ job'[u].epoch \in {job[u].epoch, 0, auto.epoch}
           /\ job'[u].ok => job[u].ok
           /\ NoneBorn(u),
         auto.enabled /\ (\E u \in LaunchTasks : job[u].pc = "done")
           => (holder[auto.epoch] # NoAgent \/ LossNoticed
                 => holder'[auto.epoch] # NoAgent \/ LossNoticed')
  PROVE  LaunchInv'
<1>1. SupervisorsFollow'
  BY StillFollow DEF Steady
<1> QED
  BY <1>1, KeepsBooksOf

-----------------------------------------------------------------------------
(* LaunchRanges, piece by piece.                                           *)

LEMMA LaunchRangesKept ==
  ASSUME LaunchRanges, job' \in [LaunchTasks -> Jobs], auto' \in States, UNCHANGED plan,
         sessionAt' \in 0 .. MaxSessions, claimed' \in 0 .. MaxSessions,
         tearing' \in 0 .. MaxSessions, home' \in [Generations -> Epochs],
         holder' \in [Epochs -> 0 .. MaxAgents], closings' \in [Epochs -> BOOLEAN],
         procs' \subseteq 1 .. started', started' \in 0 .. MaxAgents, stuck' \subseteq Agents,
         strayed' \in BOOLEAN, leaving' \in BOOLEAN,
         left' \in [restarts : Nat, probes : Nat, breaks : Nat, disconnects : Nat,
                agents : 0 .. MaxAgents]
  PROVE  LaunchRanges'
<1>1. \A t \in LaunchTasks :
        job'[t].epoch \in Epochs /\ job'[t].attempt \in 0 .. LaunchAttempts
  BY DEF Jobs
<1> QED
  BY <1>1 DEF LaunchRanges, LaunchTypeOK, States

LEMMA RangesUntouched ==
  ASSUME LaunchRanges, job' \in [LaunchTasks -> Jobs], auto' \in States,
         UNCHANGED <<roomVars, holder, closings, hostVars, left, strayed>>
  PROVE  LaunchRanges'
BY LaunchRangesKept DEF LaunchRanges, LaunchTypeOK, roomVars, hostVars

LEMMA Known ==
  ASSUME LaunchRanges
  PROVE  /\ auto \in States /\ auto.epoch \in Epochs /\ job \in [LaunchTasks -> Jobs]
         /\ \A e \in Epochs : holder[e] \in 0 .. MaxAgents
         /\ \A t \in LaunchTasks : job[t] \in Jobs /\ job[t].epoch \in Epochs
<1>1. auto \in States /\ job \in [LaunchTasks -> Jobs]
  BY DEF LaunchRanges, LaunchTypeOK, States
<1>2. auto.epoch \in Epochs
  BY <1>1 DEF States
<1>3. \A e \in Epochs : holder[e] \in 0 .. MaxAgents
  BY DEF LaunchRanges, LaunchTypeOK
<1>4. \A t \in LaunchTasks : job[t] \in Jobs /\ job[t].epoch \in Epochs
  BY <1>1 DEF Jobs
<1> QED
  BY <1>1, <1>2, <1>3, <1>4

LEMMA NotedFacts ==
  ASSUME LaunchRanges, NEW s \in States
  PROVE  /\ Noted(s) \in States
         /\ [Noted(s) EXCEPT !.adopted = TRUE] \in States
         /\ [Noted(s) EXCEPT !.due = FALSE, !.adopted = TRUE] \in States
         /\ \A n \in {Noted(s), [Noted(s) EXCEPT !.adopted = TRUE],
                      [Noted(s) EXCEPT !.due = FALSE, !.adopted = TRUE]} :
              /\ n.enabled = s.enabled /\ n.epoch = s.epoch /\ n.inFlight = s.inFlight
              /\ n.failures = s.failures
         /\ Noted(s).due = s.due /\ [Noted(s) EXCEPT !.adopted = TRUE].due = s.due
<1>1. holder[s.epoch] \in 0 .. MaxAgents
  BY DEF LaunchRanges, LaunchTypeOK, States
<1>2. 0 \in 0 .. WedgeStrikes
  OBVIOUS
<1> QED
  BY <1>1, <1>2 DEF Noted, States

LEMMA RecordedFacts ==
  ASSUME NEW s \in States, NEW ok \in BOOLEAN
  PROVE  /\ Recorded(s, ok) \in States
         /\ Recorded(s, ok).enabled = s.enabled /\ Recorded(s, ok).epoch = s.epoch
         /\ Recorded(s, ok).inFlight = s.inFlight
         /\ ~ok => Recorded(s, ok).due \/ Recorded(s, ok).failures >= MaxFailures
<1>1. s.failures \in 0 .. MaxFailures /\ 0 \in 0 .. MaxFailures
  BY DEF States
<1>2. CASE ok
  BY <1>1, <1>2 DEF Recorded, States
<1>3. CASE ~ok
  <2> DEFINE f == IF s.failures < MaxFailures THEN s.failures + 1 ELSE s.failures
             d == s.failures + 1 < MaxFailures
  <2>1. f \in 0 .. MaxFailures /\ d \in BOOLEAN
    BY <1>1
  <2>2. Recorded(s, ok) = [s EXCEPT !.failures = f, !.due = d]
    BY <1>3 DEF Recorded
  <2>3. d \/ f >= MaxFailures
    BY <1>1
  <2> HIDE DEF f, d
  <2> QED
    BY <1>3, <2>1, <2>2, <2>3 DEF States
<1> QED
  BY <1>2, <1>3

-----------------------------------------------------------------------------
(* The steps of a launch.                                                  *)

LEMMA Succeeded ==
  ASSUME job \in [LaunchTasks -> Jobs], NEW t \in LaunchTasks,
         job' = [job EXCEPT ![t].pc = "done", ![t].ok = TRUE]
  PROVE  /\ job' \in [LaunchTasks -> Jobs]
         /\ job'[t].pc = "done" /\ job'[t].ok /\ job'[t].epoch = job[t].epoch
         /\ \A u \in LaunchTasks \ {t} : AsBefore(u)
BY ZenonT(30) DEF Jobs, Steps, AsBefore

LEMMA FailsOrGoesOn ==
  ASSUME job \in [LaunchTasks -> Jobs], NEW t \in LaunchTasks,
         \/ job' = [job EXCEPT ![t] = NextAttempt(t)]
         \/ job' = [job EXCEPT ![t] = Fails(t)]
  PROVE  /\ job' \in [LaunchTasks -> Jobs]
         /\ job'[t].pc \in {"done", "attempt"} /\ job'[t].epoch = job[t].epoch
         /\ ~job[t].ok => ~job'[t].ok
         /\ OnlyJob(t)
<1>1. Fails(t) \in Jobs /\ Fails(t).pc = "done" /\ ~Fails(t).ok /\ Fails(t).epoch = job[t].epoch
  BY DEF Fails, Jobs, Steps
<1> DEFINE a == job[t].attempt + 1
<1>2. job[t].attempt # LaunchAttempts =>
        LET r == [job[t] EXCEPT !.pc = "attempt", !.attempt = a]
        IN  r \in Jobs /\ r.pc = "attempt" /\ r.epoch = job[t].epoch /\ r.ok = job[t].ok
  <2>1. job[t].attempt # LaunchAttempts => a \in 0 .. LaunchAttempts
    BY DEF Jobs
  <2> HIDE DEF a
  <2> QED
    BY <2>1 DEF Jobs, Steps
<1>3. /\ NextAttempt(t) \in Jobs /\ NextAttempt(t).pc \in {"done", "attempt"}
      /\ NextAttempt(t).epoch = job[t].epoch
      /\ ~job[t].ok => ~NextAttempt(t).ok
  BY <1>1, <1>2 DEF NextAttempt
<1> HIDE DEF a
<1>4. CASE job' = [job EXCEPT ![t] = NextAttempt(t)]
  BY <1>3, <1>4, Replaced DEF OnlyJob
<1>5. CASE job' = [job EXCEPT ![t] = Fails(t)]
  BY <1>1, <1>5, Replaced DEF OnlyJob
<1> QED
  BY <1>4, <1>5

LEMMA AdoptsSurvivorKeeps ==
  ASSUME LaunchInv, NEW t \in LaunchTasks, AdoptsSurvivor(t)
  PROVE  LaunchInv'
<1> LaunchRanges
  BY DEF LaunchInv
<1> /\ auto \in States /\ job \in [LaunchTasks -> Jobs]
  BY Known
<1>s. job[t].pc # "done" => ~job[t].ok
  BY DEF LaunchInv, SuccessIsLast
<1>0. /\ job[t].pc = "adopt" /\ holder[job[t].epoch] # NoAgent
      /\ UNCHANGED <<roomVars, holder, closings, hostVars, left, strayed>>
  BY DEF AdoptsSurvivor
<1>1. CASE auto.enabled
  <2>1. /\ auto' = [Noted(auto) EXCEPT !.adopted = TRUE]
        /\ job' = [job EXCEPT ![t].pc = "done", ![t].ok = TRUE]
    BY <1>1 DEF AdoptsSurvivor
  <2>2. /\ auto' \in States /\ auto'.enabled = auto.enabled /\ auto'.epoch = auto.epoch
        /\ auto'.inFlight = auto.inFlight /\ auto'.due = auto.due
        /\ auto'.failures = auto.failures
    BY <2>1, NotedFacts
  <2>3. /\ job' \in [LaunchTasks -> Jobs] /\ OnlyJob(t)
        /\ job'[t].pc = "done" /\ job'[t].epoch = job[t].epoch
    BY <2>1, Succeeded DEF OnlyJob
  <2>4. LaunchRanges'
    BY <1>s, <1>0, <2>2, <2>3, RangesUntouched
  <2> QED
    BY <1>s, <1>0, <2>2, <2>3, <2>4, GoesOn DEF Steady, roomVars, Launches, Launching
<1>2. CASE ~auto.enabled
  <2>1. PICK p \in {"done", "attempt"} : Move(t, p)
    BY <1>2 DEF AdoptsSurvivor
  <2>2. auto' = auto
    BY <1>2 DEF AdoptsSurvivor
  <2>3. /\ job' \in [LaunchTasks -> Jobs] /\ OnlyJob(t) /\ ~job'[t].ok
        /\ job'[t].pc = p /\ job'[t].epoch = job[t].epoch
    BY <1>s, <1>0, <2>1, Moved DEF OnlyJob, Steps
  <2>4. LaunchRanges'
    BY <1>s, <1>0, <2>2, <2>3, RangesUntouched
  <2> QED
    BY <1>s, <1>0, <2>2, <2>3, <2>4, GoesOn DEF Steady, roomVars, Launches, Launching
<1> QED
  BY <1>1, <1>2

LEMMA NoSurvivorKeeps ==
  ASSUME LaunchInv, NEW t \in LaunchTasks, NoSurvivor(t)
  PROVE  LaunchInv'
<1> LaunchRanges
  BY DEF LaunchInv
<1> /\ auto \in States /\ job \in [LaunchTasks -> Jobs]
  BY Known
<1>s. job[t].pc # "done" => ~job[t].ok
  BY DEF LaunchInv, SuccessIsLast
<1>0. /\ job[t].pc = "adopt"
      /\ UNCHANGED <<roomVars, auto, holder, closings, hostVars, left, strayed>>
  BY DEF NoSurvivor
<1>1. PICK p \in {"done", "attempt"} : job' = [job EXCEPT ![t].pc = p, ![t].fresh = FALSE]
  BY DEF NoSurvivor
<1>2. /\ job' \in [LaunchTasks -> Jobs] /\ OnlyJob(t) /\ ~job'[t].ok
      /\ job'[t].pc = p /\ job'[t].epoch = job[t].epoch
  <2>1. ~job[t].ok
    BY <1>s, <1>0
  <2> DEFINE r == [job[t] EXCEPT !.pc = p, !.fresh = FALSE]
  <2>2. r \in Jobs /\ r.pc = p /\ r.epoch = job[t].epoch /\ r.ok = job[t].ok
    BY DEF Jobs, Steps
  <2>3. job' = [job EXCEPT ![t] = r]
    BY <1>1
  <2> HIDE DEF r
  <2> QED
    BY <2>1, <2>2, <2>3, Replaced DEF OnlyJob
<1>3. LaunchRanges'
  BY <1>s, <1>0, <1>2, RangesUntouched
<1>4. Steady /\ Launches(t) /\ Launches(t)'
  BY <1>s, <1>0, <1>2 DEF Steady, roomVars, Launches, Launching
<1>5. UNCHANGED <<sessionAt, auto, holder, closings>>
  BY <1>0 DEF roomVars
<1>6. holder[job[t].epoch] = NoAgent /\ job[t].pc # "done"
  BY <1>0 DEF NoSurvivor
<1> QED
  BY <1>s, <1>0, <1>2, <1>3, <1>4, <1>5, GoesOn

LEMMA AttemptKeeps ==
  ASSUME LaunchInv, NEW t \in LaunchTasks, Attempt(t)
  PROVE  LaunchInv'
<1> LaunchRanges
  BY DEF LaunchInv
<1> /\ auto \in States /\ job \in [LaunchTasks -> Jobs]
  BY Known
<1>s. job[t].pc # "done" => ~job[t].ok
  BY DEF LaunchInv, SuccessIsLast
<1>0. /\ job[t].pc = "attempt"
      /\ UNCHANGED <<roomVars, auto, holder, closings, hostVars, left, strayed>>
  BY DEF Attempt
<1>1. /\ job' \in [LaunchTasks -> Jobs] /\ OnlyJob(t)
      /\ job'[t].pc \in Launching /\ job'[t].epoch = job[t].epoch
      /\ ~job'[t].ok
  <2>1. CASE job' = [job EXCEPT ![t] = Fails(t)]
    BY <1>s, <1>0, <2>1, FailsOrGoesOn DEF Launching
  <2>2. CASE Move(t, "settle") \/ Move(t, "wait")
    BY <1>s, <1>0, <2>2, Moved DEF OnlyJob, Steps, Launching
  <2> QED
    BY <2>1, <2>2 DEF Attempt
<1>2. LaunchRanges'
  BY <1>s, <1>0, <1>1, RangesUntouched
<1> QED
  BY <1>s, <1>0, <1>1, <1>2, GoesOn DEF Steady, roomVars, Launches, Launching

LEMMA TypeKeeps ==
  ASSUME LaunchInv, NEW t \in LaunchTasks, Type(t)
  PROVE  LaunchInv'
<1> LaunchRanges
  BY DEF LaunchInv
<1> /\ auto \in States /\ job \in [LaunchTasks -> Jobs]
  BY Known
<1>s. job[t].pc # "done" => ~job[t].ok
  BY DEF LaunchInv, SuccessIsLast
<1>0. /\ job[t].pc = "settle"
      /\ UNCHANGED <<roomVars, auto, holder, closings, stuck, left>>
  BY DEF Type
<1>1. /\ job' \in [LaunchTasks -> Jobs] /\ OnlyJob(t)
      /\ job'[t].pc \in Launching /\ job'[t].epoch = job[t].epoch
      /\ ~job'[t].ok
  <2>1. CASE job' = [job EXCEPT ![t] = NextAttempt(t)]
    BY <1>s, <1>0, <2>1, FailsOrGoesOn DEF Launching
  <2>2. CASE Move(t, "wait")
    BY <1>s, <1>0, <2>2, Moved DEF OnlyJob, Steps, Launching
  <2> QED
    BY <2>1, <2>2 DEF Type
<1>2. procs' \subseteq 1 .. started' /\ started' \in 0 .. MaxAgents
  <2> procs \subseteq 1 .. started /\ started \in 0 .. MaxAgents /\ left.agents \in 0 .. MaxAgents
    BY DEF LaunchRanges, LaunchTypeOK
  <2>1. CASE UNCHANGED <<started, procs>>
    BY <2>1
  <2>2. CASE started < left.agents /\ started' = started + 1 /\ procs' = procs \cup {started + 1}
    BY <2>2
  <2> QED
    BY <2>1, <2>2 DEF Type
<1>3. strayed' \in BOOLEAN
  <2>1. strayed \in BOOLEAN
    BY DEF LaunchRanges, LaunchTypeOK
  <2>2. strayed' = strayed \/ strayed' = (strayed \/ job[t].epoch # Here)
    BY Zenon DEF Type
  <2> QED
    BY <2>1, <2>2
<1>4. LaunchRanges'
  BY <1>s, <1>0, <1>1, <1>2, <1>3, LaunchRangesKept DEF LaunchRanges, LaunchTypeOK, roomVars
<1> QED
  BY <1>s, <1>0, <1>1, <1>4, GoesOn DEF Steady, roomVars, Launches, Launching

LEMMA AgentAppearsKeeps ==
  ASSUME LaunchInv, NEW t \in LaunchTasks, AgentAppears(t)
  PROVE  LaunchInv'
<1> LaunchRanges
  BY DEF LaunchInv
<1> /\ auto \in States /\ job \in [LaunchTasks -> Jobs]
  BY Known
<1>s. job[t].pc # "done" => ~job[t].ok
  BY DEF LaunchInv, SuccessIsLast
<1>0. /\ job[t].pc = "wait" /\ holder[job[t].epoch] # NoAgent
      /\ UNCHANGED <<roomVars, holder, closings, hostVars, left, strayed>>
  BY DEF AgentAppears, AgentAnswers
<1>1. /\ auto' \in States /\ auto'.enabled = auto.enabled /\ auto'.epoch = auto.epoch
      /\ auto'.inFlight = auto.inFlight /\ auto'.due = auto.due
      /\ auto'.failures = auto.failures
  BY NotedFacts DEF AgentAppears
<1>2. /\ job' \in [LaunchTasks -> Jobs] /\ OnlyJob(t)
      /\ job'[t].pc \in Launching /\ job'[t].epoch = job[t].epoch
      /\ job'[t].ok => job'[t].pc = "done"
  <2>1. CASE job' = [job EXCEPT ![t].pc = "done", ![t].ok = TRUE]
    BY <2>1, Succeeded DEF OnlyJob, Launching
  <2>2. CASE job' = [job EXCEPT ![t] = Fails(t)]
    BY <1>s, <1>0, <2>2, FailsOrGoesOn DEF Launching
  <2> QED
    BY <2>1, <2>2 DEF AgentAppears
<1>3. LaunchRanges'
  BY <1>s, <1>0, <1>1, <1>2, RangesUntouched
<1> QED
  BY <1>s, <1>0, <1>1, <1>2, <1>3, GoesOn DEF Steady, roomVars, Launches, Launching

LEMMA NoAgentAppearsKeeps ==
  ASSUME LaunchInv, NEW t \in LaunchTasks, NoAgentAppears(t)
  PROVE  LaunchInv'
<1> LaunchRanges
  BY DEF LaunchInv
<1> /\ auto \in States /\ job \in [LaunchTasks -> Jobs]
  BY Known
<1>s. job[t].pc # "done" => ~job[t].ok
  BY DEF LaunchInv, SuccessIsLast
<1>0. /\ job[t].pc = "wait"
      /\ UNCHANGED <<roomVars, auto, holder, closings, hostVars, left, strayed>>
  BY DEF NoAgentAppears
<1>1. /\ job' \in [LaunchTasks -> Jobs] /\ OnlyJob(t)
      /\ job'[t].pc \in Launching /\ job'[t].epoch = job[t].epoch
      /\ ~job'[t].ok
  BY <1>s, <1>0, FailsOrGoesOn DEF NoAgentAppears, Launching
<1>2. LaunchRanges'
  BY <1>s, <1>0, <1>1, RangesUntouched
<1> QED
  BY <1>s, <1>0, <1>1, <1>2, GoesOn DEF Steady, roomVars, Launches, Launching

LEMMA FinishKeeps ==
  ASSUME LaunchInv, NEW t \in LaunchTasks, Finish(t)
  PROVE  LaunchInv'
<1> LaunchRanges
  BY DEF LaunchInv
<1> /\ auto \in States /\ job \in [LaunchTasks -> Jobs]
  BY Known
<1>0. /\ job[t].pc = "done" /\ Rest(t) /\ job[t].ok \in BOOLEAN
      /\ UNCHANGED <<roomVars, holder, closings, hostVars, left, strayed>>
  BY DEF Finish, Jobs
<1>1. /\ job' \in [LaunchTasks -> Jobs] /\ OnlyJob(t)
      /\ job'[t].pc = "idle" /\ job'[t].epoch = 0 /\ ~job'[t].ok
  BY <1>0, Rested DEF OnlyJob
<1> DEFINE s == [auto EXCEPT !.inFlight = FALSE]
<1>2. /\ s \in States /\ s.enabled = auto.enabled /\ s.epoch = auto.epoch /\ ~s.inFlight
  BY DEF States
<1>3. auto' = IF ~Ours(t) THEN auto ELSE IF s.enabled THEN Recorded(s, job[t].ok) ELSE s
  BY DEF Finish
<1> HIDE DEF s
<1>4. /\ auto' \in States /\ auto'.enabled = auto.enabled /\ auto'.epoch = auto.epoch
      /\ auto'.inFlight = (IF Ours(t) THEN FALSE ELSE auto.inFlight)
      /\ ~Ours(t) => auto'.due = auto.due /\ auto'.failures = auto.failures
      /\ Ours(t) /\ auto.enabled /\ ~job[t].ok => auto'.due \/ auto'.failures >= MaxFailures
  <2>1. CASE ~Ours(t)
    BY <1>3, <2>1
  <2>2. CASE Ours(t) /\ ~s.enabled
    BY <1>2, <1>3, <2>2 DEF States
  <2>3. CASE Ours(t) /\ s.enabled
    <3>1. auto' = Recorded(s, job[t].ok)
      BY <1>3, <2>3
    <3>2. /\ auto' \in States /\ auto'.enabled = s.enabled /\ auto'.epoch = s.epoch
          /\ auto'.inFlight = s.inFlight
          /\ ~job[t].ok => auto'.due \/ auto'.failures >= MaxFailures
      BY <1>0, <1>2, <3>1, RecordedFacts
    <3>3. s.inFlight = FALSE
      BY <1>2 DEF States
    <3> QED
      BY <1>2, <2>3, <3>2, <3>3
  <2> QED
    BY <2>1, <2>2, <2>3
<1>5. LaunchRanges'
  BY <1>0, <1>1, <1>4, RangesUntouched
<1> QED
  BY <1>0, <1>1, <1>4, <1>5, LaunchEnds DEF Steady, roomVars

LEMMA FinishAdoptingKeeps ==
  ASSUME LaunchInv, NEW t \in LaunchTasks, FinishAdopting(t)
  PROVE  LaunchInv'
<1> LaunchRanges
  BY DEF LaunchInv
<1> /\ auto \in States /\ job \in [LaunchTasks -> Jobs]
  BY Known
<1> DEFINE adopted == Ours(t) /\ job[t].ok /\ auto.enabled
           s == [auto EXCEPT !.inFlight = FALSE]
<1>0. /\ job[t].pc = "done" /\ OnlyAdopts(t)
      /\ UNCHANGED <<roomVars, holder, closings, hostVars, left, strayed>>
      /\ auto' = IF ~Ours(t) THEN auto ELSE IF adopted THEN Recorded(s, TRUE) ELSE s
      /\ job' = [job EXCEPT ![t] = [Off EXCEPT !.pc = IF adopted THEN "idle" ELSE "unadopted"]]
  BY DEF FinishAdopting
<1>1. \E g \in Generations : t = Connecting(g) /\ plan[g] # "launch"
  BY <1>0, AdoptingTasks
<1>2. /\ s \in States /\ s.enabled = auto.enabled /\ s.epoch = auto.epoch /\ ~s.inFlight
  BY DEF States
<1>3. PICK p \in {"idle", "unadopted"} : /\ job' = [job EXCEPT ![t] = [Off EXCEPT !.pc = p]]
                                         /\ p = "idle" => adopted
  BY <1>0
<1> DEFINE r == [Off EXCEPT !.pc = p]
<1>4. r \in Jobs /\ r.pc = p /\ r.epoch = 0 /\ ~r.ok
  BY OffIsJob DEF Off, Steps
<1> HIDE DEF s, r
<1>5. /\ job' \in [LaunchTasks -> Jobs] /\ OnlyJob(t)
      /\ job'[t].pc = p /\ job'[t].epoch = 0 /\ ~job'[t].ok
  BY <1>3, <1>4, Replaced DEF OnlyJob, r
<1>6. /\ auto' \in States /\ auto'.enabled = auto.enabled /\ auto'.epoch = auto.epoch
      /\ auto'.inFlight = (IF Ours(t) THEN FALSE ELSE auto.inFlight)
      /\ ~Ours(t) => auto'.due = auto.due /\ auto'.failures = auto.failures
  <2>1. CASE ~Ours(t)
    BY <1>0, <2>1
  <2>2. CASE Ours(t) /\ ~adopted
    BY <1>0, <1>2, <2>2 DEF States
  <2>3. CASE Ours(t) /\ adopted
    BY <1>0, <1>2, <2>3, RecordedFacts DEF States
  <2> QED
    BY <2>1, <2>2, <2>3
<1>7. LaunchRanges'
  BY <1>0, <1>5, <1>6, RangesUntouched
<1> QED
  BY <1>0, <1>1, <1>3, <1>5, <1>6, <1>7, LaunchEnds DEF Steady, roomVars

-----------------------------------------------------------------------------
(* Steps between the launches.                                             *)

LEMMA OwnershipKept ==
  ASSUME LaunchInv, NEW t \in LaunchTasks, Steady, OnlyJob(t), UNCHANGED sessionAt,
         job[t].pc # "off" \/ t = Restart,
         job'[t].pc \notin {"building", "deferred", "unadopted"}
  PROVE  NewestOwns'
<1> SUFFICES ASSUME NEW g \in Generations
             PROVE  /\ job'[Connecting(g)].pc = "building" => g = claimed
                    /\ job'[Connecting(g)].pc # "off" => g <= claimed
                    /\ job'[Connecting(g)].pc = "deferred" => plan[g] = "defer"
                    /\ job'[Connecting(g)].pc = "unadopted" => plan[g] # "launch"
  BY DEF LaunchInv, NewestOwns, Live, Steady
<1>1. Connecting(g) \in LaunchTasks /\ Connecting(g) # Restart
  BY TaskFacts
<1>2. CASE Connecting(g) = t
  BY <1>1, <1>2 DEF LaunchInv, NewestOwns
<1>3. CASE Connecting(g) # t
  BY <1>1, <1>3 DEF LaunchInv, NewestOwns, OnlyJob, AsBefore
<1> QED
  BY <1>2, <1>3

(* Whoever it is that the state and the slot belong to is a task.          *)
LEMMA NewestIsTask ==
  ASSUME LaunchInv, auto.enabled
  PROVE  /\ claimed \in Generations
         /\ Supervisor(claimed) \in LaunchTasks /\ Connecting(claimed) \in LaunchTasks
         /\ Restart \in LaunchTasks
         /\ Supervisor(claimed) # Restart /\ Connecting(claimed) # Restart
         /\ home[claimed] = auto.epoch
<1>1. claimed \in Generations /\ home[claimed] = auto.epoch
  BY DEF LaunchInv, NewestOwns, LaunchRanges, LaunchTypeOK, Generations
<1> QED
  BY <1>1, TaskFacts

(* Some task that has no part in what is pending goes from one rest to     *)
(* another.                                                                *)
LEMMA MovesQuietly ==
  ASSUME LaunchInv, LaunchRanges', NEW t \in LaunchTasks, Steady, OnlyJob(t),
         UNCHANGED <<sessionAt, holder, closings>>,
         auto'.inFlight = auto.inFlight, auto.due => auto'.due,
         auto'.failures = auto.failures,
         job[t].pc \in {"idle", "probing", "retry"}, job[t].pc = "retry" => t # Restart,
         job'[t].pc \in {"off", "idle", "probing", "retry", "closing"},
         job'[t].epoch = job[t].epoch, job'[t].ok = job[t].ok
  PROVE  LaunchInv'
<1>1. NewestOwns'
  BY OwnershipKept
<1>2. \A u \in LaunchTasks :
        /\ Launches(u) \/ Launches(u)' => AsBefore(u)
        /\ job'[u].epoch \in {job[u].epoch, 0, auto.epoch} /\ (job'[u].ok => job[u].ok)
        /\ NoneBorn(u)
  BY DEF NoneBorn, OnlyJob, AsBefore, Launches, Launching
<1>3. auto.enabled =>
        /\ job[Supervisor(claimed)].pc = "closing" => job'[Supervisor(claimed)].pc = "closing"
        /\ job[Restart].pc \in {"stopping", "asked", "retry"} => job'[Restart].pc = job[Restart].pc
        /\ job[Connecting(claimed)].pc \in {"building", "tail"}
             => job'[Connecting(claimed)].pc = job[Connecting(claimed)].pc
  BY NewestIsTask DEF OnlyJob, AsBefore
<1>4. \A g \in Generations : job[Connecting(g)].pc = "unadopted"
                               => job'[Connecting(g)].pc = "unadopted"
  BY TaskFacts DEF OnlyJob, AsBefore
<1>5. auto.enabled /\ LossNoticed => LossNoticed'
  BY <1>3 DEF LossNoticed, Steady
<1>6. DownIsScheduled'
  <2> SUFFICES ASSUME auto.enabled, Live, holder[auto.epoch] = NoAgent, NobodyDefers
               PROVE  Scheduled'
    BY DEF DownIsScheduled, Live, NobodyDefers, Steady
  <2>1. Scheduled
    BY DEF LaunchInv, DownIsScheduled
  <2> QED
    BY <1>3, <1>4, <2>1 DEF Scheduled, Steady
<1> QED
  BY <1>1, <1>2, <1>5, <1>6, KeepsBooks

LEMMA GuardKeeps ==
  ASSUME LaunchInv, NEW t \in LaunchTasks, NEW next \in {"adopt", "attempt"}, Guard(t, next),
         job[t].pc \in {"tail", "retry"},
         t = Restart => \A u \in LaunchTasks : job[u].pc # "done"
  PROVE  LaunchInv'
<1> LaunchRanges
  BY DEF LaunchInv
<1> /\ auto \in States /\ job \in [LaunchTasks -> Jobs] /\ auto.epoch \in Epochs
  BY Known
<1>0. UNCHANGED <<roomVars, holder, closings, hostVars, left, strayed>>
  BY DEF Guard
<1>1. CASE auto.enabled /\ ~auto.inFlight
  <2>1. auto' = [auto EXCEPT !.inFlight = TRUE, !.ready = FALSE, !.adopted = FALSE,
                             !.deferred = FALSE, !.known = NoAgent]
    BY <1>1 DEF Guard
  <2>0. 0 \in 0 .. MaxAgents /\ 1 \in 0 .. LaunchAttempts /\ next \in Steps
    BY DEF Steps
  <2>2. /\ auto' \in States /\ auto'.enabled = auto.enabled /\ auto'.epoch = auto.epoch
        /\ auto'.inFlight
    BY <2>0, <2>1 DEF States, NoAgent
  <2> DEFINE r == [job[t] EXCEPT !.pc = next, !.epoch = auto.epoch,
                                 !.attempt = 1, !.fresh = FALSE, !.ok = FALSE]
  <2>3. r \in Jobs /\ r.pc = next /\ r.epoch = auto.epoch /\ ~r.ok
    BY <2>0 DEF Jobs
  <2>4. job' = [job EXCEPT ![t] = r]
    BY <1>1 DEF Guard
  <2> HIDE DEF r
  <2>5. /\ job' \in [LaunchTasks -> Jobs] /\ OnlyJob(t)
        /\ job'[t].pc = next /\ job'[t].epoch = auto.epoch /\ ~job'[t].ok
    BY <2>3, <2>4, Replaced DEF OnlyJob
  <2>6. LaunchRanges'
    BY <1>0, <2>2, <2>5, RangesUntouched
  <2> QED
    BY <1>0, <1>1, <2>2, <2>5, <2>6, Begins DEF Steady, roomVars
<1>2. CASE ~(auto.enabled /\ ~auto.inFlight)
  <2>1. auto' = auto /\ Rest(t)
    BY <1>2 DEF Guard
  <2>2. /\ job' \in [LaunchTasks -> Jobs] /\ OnlyJob(t)
        /\ job'[t].pc = "idle" /\ job'[t].epoch = 0 /\ ~job'[t].ok
    BY <2>1, Rested DEF OnlyJob
  <2>3. LaunchRanges'
    BY <1>0, <2>1, <2>2, RangesUntouched
  <2>4. Steady /\ UNCHANGED <<sessionAt, holder, closings>>
    BY <1>0, <2>1 DEF Steady, roomVars
  <2>5. NewestOwns'
    BY <2>2, <2>4, OwnershipKept
  <2>6. \A u \in LaunchTasks :
          /\ Launches(u) \/ Launches(u)' => AsBefore(u)
          /\ job'[u].epoch \in {job[u].epoch, 0, auto.epoch} /\ (job'[u].ok => job[u].ok)
          /\ NoneBorn(u)
    BY <2>2 DEF NoneBorn, OnlyJob, AsBefore, Launches, Launching
  <2>7. DownIsScheduled'
    BY <1>2, <2>1 DEF DownIsScheduled, Scheduled
  <2>8. auto.enabled /\ (\E u \in LaunchTasks : job[u].pc = "done")
          => (LossNoticed => LossNoticed')
    BY <2>2, <2>4, NewestIsTask DEF LossNoticed, OnlyJob, AsBefore, Steady
  <2> QED
    BY <2>1, <2>3, <2>4, <2>5, <2>6, <2>7, <2>8, KeepsBooks
<1> QED
  BY <1>1, <1>2

LEMMA SupervisorMovesKeep ==
  ASSUME LaunchInv, NEW g \in Generations,
         \/ SupervisorEnds(g) \/ TickHeard(g) \/ Probe(g) \/ ProbeAnswered(g)
         \/ ProbeMissed(g) \/ ProbeMoot(g) \/ Decides(g) \/ BudgetRefuses(g)
  PROVE  LaunchInv'
<1> DEFINE t == Supervisor(g)
<1> LaunchRanges
  BY DEF LaunchInv
<1> /\ auto \in States /\ job \in [LaunchTasks -> Jobs]
  BY Known
<1>1. t \in LaunchTasks /\ t # Restart
  BY TaskFacts
<1>2. /\ job[t].pc \in {"idle", "probing", "retry"}
      /\ Move(t, "off") \/ Move(t, "idle") \/ Move(t, "probing") \/ Move(t, "retry")
         \/ UNCHANGED job
      /\ UNCHANGED <<roomVars, holder, closings, hostVars, strayed>>
  BY DEF SupervisorEnds, TickHeard, Probe, ProbeAnswered, ProbeMissed, ProbeMoot, Decides,
         BudgetRefuses
<1>3. /\ job' \in [LaunchTasks -> Jobs] /\ OnlyJob(t)
      /\ job'[t].pc \in {"off", "idle", "probing", "retry"}
      /\ job'[t].epoch = job[t].epoch /\ job'[t].ok = job[t].ok
  <2> HIDE DEF t
  <2>1. CASE UNCHANGED job
    BY <1>1, <1>2, <2>1 DEF OnlyJob, AsBefore
  <2>2. CASE \E p \in {"off", "idle", "probing", "retry"} : Move(t, p)
    BY <1>1, <2>2, Moved DEF OnlyJob, Steps
  <2> QED
    BY <1>2, <2>1, <2>2
<1>4. /\ auto' \in States /\ auto'.enabled = auto.enabled /\ auto'.epoch = auto.epoch
      /\ auto'.inFlight = auto.inFlight /\ auto'.failures = auto.failures
      /\ auto.due => auto'.due
  <2>1. CASE UNCHANGED auto
    BY <2>1
  <2>0. 0 \in 0 .. WedgeStrikes /\ \A x, y \in BOOLEAN : (x \/ y) \in BOOLEAN
    OBVIOUS
  <2>2. CASE TickHeard(g)
    BY <2>0, <2>2 DEF TickHeard, States
  <2>3. CASE ProbeAnswered(g)
    <3> DEFINE b == auto.ready \/ auto.wedged
    <3>1. auto' = [auto EXCEPT !.strikes = 0, !.wedged = FALSE, !.ready = b]
      BY <2>3 DEF ProbeAnswered
    <3>2. b \in BOOLEAN
      OBVIOUS
    <3> HIDE DEF b
    <3> QED
      BY <2>0, <3>1, <3>2 DEF States
  <2>4. CASE BudgetRefuses(g)
    BY <2>4 DEF BudgetRefuses, States
  <2>5. CASE ProbeMissed(g)
    <3> DEFINE n == IF auto.strikes < WedgeStrikes THEN auto.strikes + 1 ELSE auto.strikes
               s == [auto EXCEPT !.strikes = n]
    <3>1. n \in 0 .. WedgeStrikes
      BY DEF States
    <3>2. auto' = IF s.strikes < WedgeStrikes \/ s.wedged THEN s
                  ELSE [s EXCEPT !.wedged = TRUE, !.ready = FALSE, !.due = TRUE]
      BY <2>5 DEF ProbeMissed
    <3> HIDE DEF n
    <3>3. s \in States /\ s.enabled = auto.enabled /\ s.epoch = auto.epoch
          /\ s.inFlight = auto.inFlight /\ s.failures = auto.failures /\ s.due = auto.due
      BY <3>1 DEF States
    <3> HIDE DEF s
    <3> QED
      BY <3>2, <3>3 DEF States
  <2> QED
    BY <2>1, <2>2, <2>3, <2>4, <2>5
       DEF SupervisorEnds, Probe, ProbeMoot, Decides
<1>5. left' \in [restarts : Nat, probes : Nat, breaks : Nat, disconnects : Nat,
                agents : 0 .. MaxAgents]
  <2>1. CASE ProbeMissed(g)
    BY SMTT(20), <2>1 DEF ProbeMissed, LaunchRanges
  <2>2. CASE UNCHANGED left
    BY <2>2 DEF LaunchRanges
  <2> QED
    BY <2>1, <2>2
       DEF SupervisorEnds, TickHeard, Probe, ProbeAnswered, ProbeMoot, Decides, BudgetRefuses
<1>6. LaunchRanges'
  BY <1>2, <1>3, <1>4, <1>5, LaunchRangesKept DEF LaunchRanges, LaunchTypeOK, roomVars, hostVars
<1>7. Steady /\ UNCHANGED <<sessionAt, holder, closings>>
  BY <1>2, <1>4 DEF Steady, roomVars
<1> HIDE DEF t
<1> QED
  BY <1>1, <1>2, <1>3, <1>4, <1>6, <1>7, MovesQuietly

-----------------------------------------------------------------------------
(* The tail of connect.                                                    *)

LEMMA TailDefersKeeps ==
  ASSUME LaunchInv, NEW g \in Generations, TailDefers(g)
  PROVE  LaunchInv'
<1> DEFINE t == Connecting(g)
<1> LaunchRanges
  BY DEF LaunchInv
<1> /\ auto \in States /\ job \in [LaunchTasks -> Jobs]
  BY Known
<1>0. /\ t \in LaunchTasks /\ t # Restart /\ job[t].pc = "tail" /\ plan[g] = "defer"
      /\ Move(t, "deferred") /\ auto' = [auto EXCEPT !.deferred = TRUE]
      /\ UNCHANGED <<roomVars, holder, closings, hostVars, left, strayed>>
  BY TaskFacts DEF TailDefers
<1>1. \A h \in Generations : Connecting(h) \in LaunchTasks /\ (Connecting(h) = t => h = g)
  BY TaskFacts
<1> HIDE DEF t
<1>2. /\ job' \in [LaunchTasks -> Jobs] /\ OnlyJob(t)
      /\ job'[t].pc = "deferred" /\ job'[t].epoch = job[t].epoch /\ job'[t].ok = job[t].ok
  BY <1>0, Moved DEF OnlyJob, Steps
<1>3. /\ auto' \in States /\ auto'.enabled = auto.enabled /\ auto'.epoch = auto.epoch
      /\ auto'.inFlight = auto.inFlight
  BY <1>0 DEF States
<1>4. LaunchRanges'
  BY <1>0, <1>2, <1>3, RangesUntouched
<1>5. Steady /\ UNCHANGED <<sessionAt, holder, closings>>
  BY <1>0, <1>3 DEF Steady, roomVars
<1>6. g <= claimed
  BY <1>0, <1>2 DEF LaunchInv, NewestOwns, t
<1>7. NewestOwns'
  <2> SUFFICES ASSUME NEW h \in Generations
               PROVE  /\ job'[Connecting(h)].pc = "building" => h = claimed
                      /\ job'[Connecting(h)].pc # "off" => h <= claimed
                      /\ job'[Connecting(h)].pc = "deferred" => plan[h] = "defer"
                      /\ job'[Connecting(h)].pc = "unadopted" => plan[h] # "launch"
    BY <1>5 DEF LaunchInv, NewestOwns, Live, Steady
  <2>1. CASE Connecting(h) = t
    BY <1>0, <1>1, <1>2, <1>6, <2>1
  <2>2. CASE Connecting(h) # t
    BY <1>1, <1>2, <2>2 DEF LaunchInv, NewestOwns, OnlyJob, AsBefore
  <2> QED
    BY <2>1, <2>2
<1>8. \A u \in LaunchTasks :
        /\ Launches(u) \/ Launches(u)' => AsBefore(u)
        /\ job'[u].epoch \in {job[u].epoch, 0, auto.epoch} /\ (job'[u].ok => job[u].ok)
        /\ NoneBorn(u)
  BY <1>0, <1>2 DEF NoneBorn, OnlyJob, AsBefore, Launches, Launching
<1>9. DownIsScheduled'
  <2>1. g \in 1 .. claimed
    BY <1>6 DEF Generations, LaunchRanges, LaunchTypeOK
  <2> QED
    BY <1>0, <1>5, <2>1 DEF DownIsScheduled, NobodyDefers, Steady
<1>10. auto.enabled /\ LossNoticed => LossNoticed'
  BY <1>0, <1>2, <1>5, NewestIsTask DEF LossNoticed, OnlyJob, AsBefore, Steady
<1> QED
  BY <1>3, <1>4, <1>5, <1>7, <1>8, <1>9, <1>10, KeepsBooks

LEMMA TailAdoptsKeeps ==
  ASSUME LaunchInv, NEW g \in Generations, TailAdopts(g)
  PROVE  LaunchInv'
<1> DEFINE t == Connecting(g)
<1> LaunchRanges
  BY DEF LaunchInv
<1> /\ auto \in States /\ job \in [LaunchTasks -> Jobs] /\ auto.epoch \in Epochs
  BY Known
<1>0. /\ t \in LaunchTasks /\ t # Restart /\ job[t].pc \in {"tail", "deferred"}
      /\ UNCHANGED <<roomVars, holder, closings, hostVars, left, strayed>>
      /\ plan[g] # "launch"
  BY TaskFacts DEF TailAdopts, LaunchInv, NewestOwns
<1>1. \A h \in Generations : Connecting(h) \in LaunchTasks /\ (Connecting(h) = t => h = g)
  BY TaskFacts
<1>2. CASE auto.enabled /\ ~auto.inFlight
  <2>1. auto' = [auto EXCEPT !.inFlight = TRUE, !.adopted = FALSE]
    BY <1>2 DEF TailAdopts
  <2>2. /\ auto' \in States /\ auto'.enabled = auto.enabled /\ auto'.epoch = auto.epoch
        /\ auto'.inFlight
    BY <2>1 DEF States
  <2>3. job' = [job EXCEPT ![t].pc = "adopt", ![t].epoch = auto.epoch, ![t].ok = FALSE]
    BY <1>2 DEF TailAdopts
  <2> HIDE DEF t
  <2> DEFINE r == [job[t] EXCEPT !.pc = "adopt", !.epoch = auto.epoch, !.ok = FALSE]
  <2>4. r \in Jobs /\ r.pc = "adopt" /\ r.epoch = auto.epoch /\ ~r.ok
    BY <1>0 DEF Jobs, Steps
  <2>5. job' = [job EXCEPT ![t] = r]
    BY <1>0, <2>3
  <2> HIDE DEF r
  <2>6. /\ job' \in [LaunchTasks -> Jobs] /\ OnlyJob(t)
        /\ job'[t].pc = "adopt" /\ job'[t].epoch = auto.epoch /\ ~job'[t].ok
    BY <1>0, <2>4, <2>5, Replaced DEF OnlyJob
  <2>7. LaunchRanges'
    BY <1>0, <2>2, <2>6, RangesUntouched
  <2> QED
    BY <1>0, <1>2, <2>2, <2>6, <2>7, Begins DEF Steady, roomVars
<1>3. CASE ~(auto.enabled /\ ~auto.inFlight)
  <2>1. auto' = auto /\ Move(t, "unadopted")
    BY <1>3 DEF TailAdopts
  <2> HIDE DEF t
  <2>2. /\ job' \in [LaunchTasks -> Jobs] /\ OnlyJob(t)
        /\ job'[t].pc = "unadopted" /\ job'[t].epoch = job[t].epoch /\ job'[t].ok = job[t].ok
    BY <1>0, <2>1, Moved DEF OnlyJob, Steps
  <2>3. LaunchRanges'
    BY <1>0, <2>1, <2>2, RangesUntouched
  <2>4. Steady /\ UNCHANGED <<sessionAt, holder, closings>>
    BY <1>0, <2>1 DEF Steady, roomVars
  <2>5. g <= claimed
    BY <1>0 DEF LaunchInv, NewestOwns, t
  <2>6. NewestOwns'
    <3> SUFFICES ASSUME NEW h \in Generations
                 PROVE  /\ job'[Connecting(h)].pc = "building" => h = claimed
                        /\ job'[Connecting(h)].pc # "off" => h <= claimed
                        /\ job'[Connecting(h)].pc = "deferred" => plan[h] = "defer"
                        /\ job'[Connecting(h)].pc = "unadopted" => plan[h] # "launch"
      BY <2>1, <2>4 DEF LaunchInv, NewestOwns, Live, Steady
    <3>1. CASE Connecting(h) = t
      BY <1>0, <1>1, <2>2, <2>5, <3>1
    <3>2. CASE Connecting(h) # t
      BY <1>1, <2>2, <3>2 DEF LaunchInv, NewestOwns, OnlyJob, AsBefore
    <3> QED
      BY <3>1, <3>2
  <2>7. \A u \in LaunchTasks :
          /\ Launches(u) \/ Launches(u)' => AsBefore(u)
          /\ job'[u].epoch \in {job[u].epoch, 0, auto.epoch} /\ (job'[u].ok => job[u].ok)
          /\ NoneBorn(u)
    BY <1>0, <2>2 DEF NoneBorn, OnlyJob, AsBefore, Launches, Launching
  <2>8. DownIsScheduled'
    BY <1>3, <2>1 DEF DownIsScheduled, Scheduled
  <2>9. auto.enabled /\ LossNoticed => LossNoticed'
    BY <1>0, <2>2, <2>4, NewestIsTask DEF LossNoticed, OnlyJob, AsBefore, Steady
  <2> QED
    BY <2>1, <2>3, <2>4, <2>6, <2>7, <2>8, <2>9, KeepsBooks
<1> QED
  BY <1>2, <1>3

LEMMA TailEndsKeeps ==
  ASSUME LaunchInv, NEW g \in Generations, TailEnds(g)
  PROVE  LaunchInv'
<1> DEFINE t == Connecting(g)
           d == plan[g] = "unattended"
<1> LaunchRanges
  BY DEF LaunchInv
<1> /\ auto \in States /\ job \in [LaunchTasks -> Jobs]
  BY Known
<1>0. /\ t \in LaunchTasks /\ t # Restart /\ job[t].pc = "unadopted" /\ plan[g] # "launch"
      /\ Move(t, "idle") /\ auto' = [auto EXCEPT !.due = d, !.failures = 0]
      /\ UNCHANGED <<roomVars, holder, closings, hostVars, left, strayed>>
  BY TaskFacts DEF TailEnds, LaunchInv, NewestOwns
<1>1. g \in 1 .. claimed /\ plan[g] \in Modes
  <2>1. g <= claimed /\ claimed <= Len(plan) /\ plan \in Seq(Modes)
    BY <1>0 DEF LaunchInv, NewestOwns, EpochsCounted, LaunchRanges
  <2> QED
    BY <2>1 DEF Generations, LaunchRanges, LaunchTypeOK
<1> HIDE DEF t
<1>2. /\ job' \in [LaunchTasks -> Jobs] /\ OnlyJob(t)
      /\ job'[t].pc = "idle" /\ job'[t].epoch = job[t].epoch /\ job'[t].ok = job[t].ok
  BY <1>0, Moved DEF OnlyJob, Steps
<1>3. /\ auto' \in States /\ auto'.enabled = auto.enabled /\ auto'.epoch = auto.epoch
      /\ auto'.inFlight = auto.inFlight /\ auto'.due = d
  <2>1. d \in BOOLEAN /\ 0 \in 0 .. MaxFailures
    OBVIOUS
  <2> HIDE DEF d
  <2> QED
    BY <1>0, <2>1 DEF States
<1>4. LaunchRanges'
  BY <1>0, <1>2, <1>3, RangesUntouched
<1>5. Steady /\ UNCHANGED <<sessionAt, holder, closings>>
  BY <1>0, <1>3 DEF Steady, roomVars
<1>6. NewestOwns'
  BY <1>0, <1>2, <1>5, OwnershipKept
<1>7. \A u \in LaunchTasks :
        /\ Launches(u) \/ Launches(u)' => AsBefore(u)
        /\ job'[u].epoch \in {job[u].epoch, 0, auto.epoch} /\ (job'[u].ok => job[u].ok)
        /\ NoneBorn(u)
  BY <1>0, <1>2 DEF NoneBorn, OnlyJob, AsBefore, Launches, Launching
<1>8. DownIsScheduled'
  <2>1. NobodyDefers => d
    BY <1>0, <1>1 DEF NobodyDefers, Modes
  <2> QED
    BY <1>3, <1>5, <2>1 DEF DownIsScheduled, Scheduled, NobodyDefers, Steady
<1>9. auto.enabled /\ LossNoticed => LossNoticed'
  BY <1>0, <1>2, <1>5, NewestIsTask DEF LossNoticed, OnlyJob, AsBefore, Steady
<1> QED
  BY <1>3, <1>4, <1>5, <1>6, <1>7, <1>8, <1>9, KeepsBooks

-----------------------------------------------------------------------------
(* The supervisor hears of a close, and arms a retry.                      *)

LEMMA HearsCloseKeeps ==
  ASSUME LaunchInv, NEW g \in Generations, HearsClose(g)
  PROVE  LaunchInv'
<1> DEFINE t == Supervisor(g)
<1> LaunchRanges
  BY DEF LaunchInv
<1> /\ auto \in States /\ job \in [LaunchTasks -> Jobs]
  BY Known
<1>0. /\ t \in LaunchTasks /\ t # Restart /\ job[t].pc = "idle" /\ claimed = g
      /\ Move(t, "closing") /\ closings' = [closings EXCEPT ![home[g]] = FALSE]
      /\ UNCHANGED <<roomVars, auto, holder, hostVars, left, strayed>>
  BY TaskFacts DEF HearsClose, Superseded
<1>1. \A h \in Generations : Connecting(h) \in LaunchTasks /\ Connecting(h) # t
  BY TaskFacts
<1>2. /\ job' \in [LaunchTasks -> Jobs] /\ OnlyJob(t)
      /\ job'[t].pc = "closing" /\ job'[t].epoch = job[t].epoch /\ job'[t].ok = job[t].ok
  <2> HIDE DEF t
  <2> QED
    BY <1>0, Moved DEF OnlyJob, Steps
<1>3. LaunchRanges'
  <2>1. closings' \in [Epochs -> BOOLEAN]
    BY <1>0 DEF LaunchRanges, LaunchTypeOK
  <2> QED
    BY <1>0, <1>2, <2>1, LaunchRangesKept DEF LaunchRanges, LaunchTypeOK, roomVars, hostVars
<1>4. Steady /\ UNCHANGED sessionAt /\ job'[Supervisor(claimed)].pc = "closing"
  BY <1>0, <1>2 DEF Steady, roomVars
<1> HIDE DEF t
<1>5. NewestOwns'
  BY <1>0, <1>2, <1>4, OwnershipKept
<1>6. \A u \in LaunchTasks :
        /\ Launches(u) \/ Launches(u)' => AsBefore(u)
        /\ job'[u].epoch \in {job[u].epoch, 0, auto.epoch} /\ (job'[u].ok => job[u].ok)
        /\ NoneBorn(u)
  BY <1>0, <1>2 DEF NoneBorn, OnlyJob, AsBefore, Launches, Launching
<1>7. DownIsScheduled' /\ LossNoticed'
  BY <1>4 DEF DownIsScheduled, Scheduled, LossNoticed, Steady
<1> QED
  BY <1>0, <1>3, <1>4, <1>5, <1>6, <1>7, KeepsBooks

LEMMA ArmsOnCloseKeeps ==
  ASSUME LaunchInv, NEW g \in Generations, ArmsOnClose(g)
  PROVE  LaunchInv'
<1> DEFINE t == Supervisor(g)
<1> LaunchRanges
  BY DEF LaunchInv
<1> /\ auto \in States /\ job \in [LaunchTasks -> Jobs]
  BY Known
<1>0. /\ t \in LaunchTasks /\ t # Restart /\ job[t].pc = "closing"
      /\ \A u \in LaunchTasks : job[u].pc # "done"
      /\ Move(t, "idle")
      /\ UNCHANGED <<roomVars, holder, closings, hostVars, left, strayed>>
  BY TaskFacts DEF ArmsOnClose
<1> HIDE DEF t
<1>1. /\ job' \in [LaunchTasks -> Jobs] /\ OnlyJob(t)
      /\ job'[t].pc = "idle" /\ job'[t].epoch = job[t].epoch /\ job'[t].ok = job[t].ok
  BY <1>0, Moved DEF OnlyJob, Steps
<1>2. /\ auto' \in States /\ auto'.enabled = auto.enabled /\ auto'.epoch = auto.epoch
      /\ auto'.inFlight = auto.inFlight
      /\ auto.enabled /\ holder[auto.epoch] = NoAgent => auto'.inFlight \/ auto'.due
  <2>1. CASE auto.enabled /\ ~auto.inFlight /\ ~Reachable
    <3>1. auto' = [auto EXCEPT !.ready = FALSE, !.known = NoAgent, !.due = TRUE]
      BY <2>1 DEF ArmsOnClose
    <3>2. 0 \in 0 .. MaxAgents
      OBVIOUS
    <3> QED
      BY <3>1, <3>2 DEF States, NoAgent
  <2>2. CASE ~(auto.enabled /\ ~auto.inFlight /\ ~Reachable)
    BY <2>2 DEF ArmsOnClose, Reachable
  <2> QED
    BY <2>1, <2>2
<1>3. LaunchRanges'
  BY <1>0, <1>1, <1>2, RangesUntouched
<1>4. Steady /\ UNCHANGED <<sessionAt, holder, closings>>
  BY <1>0, <1>2 DEF Steady, roomVars
<1>5. NewestOwns'
  BY <1>0, <1>1, <1>4, OwnershipKept
<1>6. \A u \in LaunchTasks :
        /\ Launches(u) \/ Launches(u)' => AsBefore(u)
        /\ job'[u].epoch \in {job[u].epoch, 0, auto.epoch} /\ (job'[u].ok => job[u].ok)
        /\ NoneBorn(u)
  BY <1>0, <1>1 DEF NoneBorn, OnlyJob, AsBefore, Launches, Launching
<1>7. DownIsScheduled'
  BY <1>2, <1>4 DEF DownIsScheduled, Scheduled, Steady
<1> QED
  BY <1>0, <1>2, <1>3, <1>4, <1>5, <1>6, <1>7, KeepsBooks

-----------------------------------------------------------------------------
(* `automate restart`, and the gate of every command.                      *)

(* A step of the restart command before it launches, that leaves it with   *)
(* more to do.                                                             *)
LEMMA RestartMoves ==
  ASSUME LaunchInv, LaunchRanges', Steady, OnlyJob(Restart), UNCHANGED <<sessionAt, closings>>,
         auto'.inFlight = auto.inFlight,
         job[Restart].pc \in {"off", "idle", "stopping", "asked"},
         job'[Restart].pc \in {"stopping", "asked", "retry"},
         job'[Restart].epoch \in {job[Restart].epoch, auto.epoch},
         job'[Restart].ok => job[Restart].ok,
         auto.enabled => job'[Restart].pc = "retry" \/ UNCHANGED holder
  PROVE  LaunchInv'
<1>1. Restart \in LaunchTasks
  BY TaskFacts
<1>2. NewestOwns'
  BY <1>1, OwnershipKept
<1>3. \A u \in LaunchTasks :
        /\ Launches(u) \/ Launches(u)' => AsBefore(u)
        /\ job'[u].epoch \in {job[u].epoch, 0, auto.epoch} /\ (job'[u].ok => job[u].ok)
        /\ NoneBorn(u)
  BY <1>1 DEF NoneBorn, OnlyJob, AsBefore, Launches, Launching
<1>4. DownIsScheduled'
  BY DEF DownIsScheduled, Scheduled
<1>5. auto.enabled /\ (holder[auto.epoch] # NoAgent \/ LossNoticed)
        => holder'[auto.epoch] # NoAgent \/ LossNoticed'
  BY NewestIsTask DEF LossNoticed, OnlyJob, AsBefore, Steady
<1> QED
  BY <1>2, <1>3, <1>4, <1>5, KeepsBooks

LEMMA RestartBeginsKeeps ==
  ASSUME LaunchInv, RestartBegins
  PROVE  LaunchInv'
<1> LaunchRanges
  BY DEF LaunchInv
<1> /\ auto \in States /\ job \in [LaunchTasks -> Jobs] /\ auto.epoch \in Epochs
  BY Known
<1>0. /\ Restart \in LaunchTasks /\ job[Restart].pc \in {"off", "idle"} /\ auto.enabled
      /\ UNCHANGED <<roomVars, holder, closings, hostVars, strayed>>
      /\ left' \in [restarts : Nat, probes : Nat, breaks : Nat, disconnects : Nat,
                agents : 0 .. MaxAgents]
  BY TaskFacts DEF RestartBegins, AtRest, LaunchRanges
<1>1. CASE auto.inFlight
  <2>1. UNCHANGED <<auto, job>>
    BY <1>1 DEF RestartBegins
  <2>2. LaunchRanges'
    BY <1>0, <2>1, LaunchRangesKept DEF LaunchRanges, LaunchTypeOK, roomVars, hostVars
  <2>3. Steady /\ NewestOwns' /\ DownIsScheduled' /\ (LossNoticed => LossNoticed')
    BY <1>0, <2>1 DEF Steady, LaunchInv, NewestOwns, DownIsScheduled, Scheduled, LossNoticed,
                     NobodyDefers, Live, roomVars
  <2>4. \A u \in LaunchTasks :
          /\ Launches(u) \/ Launches(u)' => AsBefore(u)
          /\ job'[u].epoch \in {job[u].epoch, 0, auto.epoch} /\ (job'[u].ok => job[u].ok)
          /\ NoneBorn(u)
    BY <2>1 DEF NoneBorn, AsBefore
  <2> QED
    BY <1>0, <2>1, <2>2, <2>3, <2>4, KeepsBooks
<1>2. CASE ~auto.inFlight
  <2> DEFINE r == [Off EXCEPT !.pc = "stopping", !.epoch = auto.epoch]
  <2>1. /\ auto' = [auto EXCEPT !.failures = 0, !.due = FALSE]
        /\ job' = [job EXCEPT ![Restart] = r]
    BY <1>2 DEF RestartBegins
  <2>2. /\ auto' \in States /\ auto'.enabled = auto.enabled /\ auto'.epoch = auto.epoch
        /\ auto'.inFlight = auto.inFlight
    <3>1. 0 \in 0 .. MaxFailures
      OBVIOUS
    <3> QED
      BY <2>1, <3>1 DEF States
  <2>3. r \in Jobs /\ r.pc = "stopping" /\ r.epoch = auto.epoch /\ ~r.ok
    <3>1. Off \in Jobs /\ ~Off.ok
      BY OffIsJob DEF Off
    <3> QED
      BY <3>1 DEF Jobs, Steps
  <2> HIDE DEF r
  <2>4. /\ job' \in [LaunchTasks -> Jobs] /\ OnlyJob(Restart) /\ job'[Restart].pc = "stopping"
        /\ job'[Restart].epoch = auto.epoch /\ ~job'[Restart].ok
    BY <1>0, <2>1, <2>3, Replaced DEF OnlyJob
  <2>5. LaunchRanges'
    BY <1>0, <2>2, <2>4, LaunchRangesKept DEF LaunchRanges, LaunchTypeOK, roomVars, hostVars
  <2>6. Steady /\ UNCHANGED <<sessionAt, holder, closings>>
    BY <1>0, <2>2 DEF Steady, roomVars
  <2> QED
    BY <1>0, <2>2, <2>4, <2>5, <2>6, RestartMoves
<1> QED
  BY <1>1, <1>2

LEMMA RestartAsksKeeps ==
  ASSUME LaunchInv, RestartAsks
  PROVE  LaunchInv'
<1> LaunchRanges
  BY DEF LaunchInv
<1> /\ auto \in States /\ job \in [LaunchTasks -> Jobs]
  BY Known
<1>0. /\ Restart \in LaunchTasks /\ job[Restart].pc = "stopping"
      /\ UNCHANGED <<roomVars, auto, holder, closings, hostVars, left, strayed>>
  BY TaskFacts DEF RestartAsks
<1> DEFINE a == holder[job[Restart].epoch]
           p == IF a = NoAgent THEN "retry" ELSE "asked"
           r == [job[Restart] EXCEPT !.pc = p, !.old = a]
<1>1. a \in 0 .. MaxAgents /\ p \in {"retry", "asked"}
  BY <1>0, Known
<1>2. job' = [job EXCEPT ![Restart].pc = p, ![Restart].old = a]
  BY DEF RestartAsks
<1> HIDE DEF a, p
<1>3. job' = [job EXCEPT ![Restart] = r]
  BY <1>0, <1>2
<1>4. r \in Jobs /\ r.pc = p /\ r.epoch = job[Restart].epoch /\ r.ok = job[Restart].ok
  BY <1>0, <1>1 DEF Jobs, Steps
<1> HIDE DEF r
<1>5. /\ job' \in [LaunchTasks -> Jobs] /\ OnlyJob(Restart) /\ job'[Restart].pc = p
      /\ job'[Restart].epoch = job[Restart].epoch /\ job'[Restart].ok = job[Restart].ok
  BY <1>0, <1>3, <1>4, Replaced DEF OnlyJob
<1>6. LaunchRanges'
  BY <1>0, <1>5, RangesUntouched
<1> QED
  BY <1>0, <1>1, <1>5, <1>6, RestartMoves DEF Steady, roomVars

LEMMA RestartReleasesKeeps ==
  ASSUME LaunchInv, RestartReleases
  PROVE  LaunchInv'
<1> LaunchRanges
  BY DEF LaunchInv
<1> /\ auto \in States /\ job \in [LaunchTasks -> Jobs]
  BY Known
<1>0. /\ Restart \in LaunchTasks /\ job[Restart].pc = "asked" /\ Move(Restart, "retry")
      /\ UNCHANGED <<roomVars, auto, closings, started, stuck, left, strayed>>
      /\ procs' \subseteq procs
  BY TaskFacts DEF RestartReleases
<1>1. /\ job' \in [LaunchTasks -> Jobs] /\ OnlyJob(Restart) /\ job'[Restart].pc = "retry"
      /\ job'[Restart].epoch = job[Restart].epoch /\ job'[Restart].ok = job[Restart].ok
  BY <1>0, Moved DEF OnlyJob, Steps
<1>2. holder' \in [Epochs -> 0 .. MaxAgents]
  <2>1. 0 \in 0 .. MaxAgents /\ holder \in [Epochs -> 0 .. MaxAgents]
    BY DEF LaunchRanges, LaunchTypeOK
  <2> QED
    BY <2>1 DEF RestartReleases, NoAgent
<1>3. LaunchRanges'
  <2>1. procs' \subseteq 1 .. started'
    BY <1>0 DEF LaunchRanges, LaunchTypeOK
  <2> QED
    BY <1>0, <1>1, <1>2, <2>1, LaunchRangesKept DEF LaunchRanges, LaunchTypeOK, roomVars
<1> QED
  BY <1>0, <1>1, <1>3, RestartMoves DEF Steady, roomVars

LEMMA GateKeeps ==
  ASSUME LaunchInv, LateHandshake \/ AgentReplaced
  PROVE  LaunchInv'
<1> LaunchRanges
  BY DEF LaunchInv
<1> /\ auto \in States /\ job \in [LaunchTasks -> Jobs]
  BY Known
<1>0. /\ UNCHANGED <<roomVars, holder, closings, hostVars, job, left, strayed>>
      /\ holder[auto.epoch] # NoAgent
  BY DEF LateHandshake, AgentReplaced, Reachable
<1>1. /\ auto' \in States /\ auto'.enabled = auto.enabled /\ auto'.epoch = auto.epoch
      /\ auto'.inFlight = auto.inFlight
  BY NotedFacts DEF LateHandshake, AgentReplaced
<1>2. LaunchRanges'
  BY <1>0, <1>1, RangesUntouched
<1>3. Steady /\ NewestOwns' /\ DownIsScheduled' /\ holder'[auto.epoch] # NoAgent
  BY <1>0, <1>1 DEF Steady, LaunchInv, NewestOwns, DownIsScheduled, Live, roomVars
<1>4. \A u \in LaunchTasks :
        /\ Launches(u) \/ Launches(u)' => AsBefore(u)
        /\ job'[u].epoch \in {job[u].epoch, 0, auto.epoch} /\ (job'[u].ok => job[u].ok)
        /\ NoneBorn(u)
  BY <1>0 DEF NoneBorn, AsBefore
<1> QED
  BY <1>1, <1>2, <1>3, <1>4, KeepsBooks

-----------------------------------------------------------------------------
(* Sessions and agents come and go.                                        *)

(* A step that leaves the state, the jobs' standing and the sessions       *)
(* alone: agents greet, hang or close their channels.                      *)
LEMMA AgentsMove ==
  ASSUME LaunchInv, LaunchRanges', UNCHANGED <<auto, plan, claimed, home, sessionAt>>,
         \A u \in LaunchTasks : AsBefore(u),
         \A e \in Epochs :
           /\ holder[e] # NoAgent => holder'[e] # NoAgent \/ closings'[e]
           /\ closings[e] => closings'[e]
  PROVE  LaunchInv'
<1>1. auto.epoch \in Epochs /\ Steady
  BY Known DEF Steady, LaunchInv
<1>2. NewestOwns'
  <2>1. \A g \in Generations : job'[Connecting(g)].pc = job[Connecting(g)].pc
    BY TaskFacts DEF AsBefore
  <2> QED
    BY <2>1 DEF LaunchInv, NewestOwns, Live
<1>3. auto.enabled /\ LossNoticed => LossNoticed'
  BY <1>1, NewestIsTask DEF LossNoticed, AsBefore
<1>4. DownIsScheduled'
  <2> SUFFICES ASSUME auto.enabled, Live, holder'[auto.epoch] = NoAgent, NobodyDefers
               PROVE  Scheduled'
    BY DEF DownIsScheduled, Live, NobodyDefers
  <2>1. CASE holder[auto.epoch] # NoAgent
    BY <1>1, <2>1 DEF Scheduled
  <2>2. CASE holder[auto.epoch] = NoAgent
    <3>1. Scheduled
      BY <2>2 DEF LaunchInv, DownIsScheduled
    <3>2. \A g \in Generations : job'[Connecting(g)].pc = job[Connecting(g)].pc
      BY TaskFacts DEF AsBefore
    <3> QED
      BY <1>1, <3>1, <3>2, NewestIsTask DEF Scheduled, AsBefore
  <2> QED
    BY <2>1, <2>2
<1>5. auto.enabled => (holder[auto.epoch] # NoAgent \/ LossNoticed
                         => holder'[auto.epoch] # NoAgent \/ LossNoticed')
  BY <1>1, <1>3 DEF LossNoticed
<1>6. \A u \in LaunchTasks : /\ (job'[u].ok => job[u].ok) /\ job'[u].epoch = job[u].epoch
                             /\ NoneBorn(u)
  BY DEF AsBefore, NoneBorn
<1> QED
  BY <1>1, <1>2, <1>4, <1>5, <1>6, KeepsBooks

LEMMA AgentGreetsKeeps ==
  ASSUME LaunchInv, NEW a \in Agents, AgentGreets(a)
  PROVE  LaunchInv'
<1> LaunchRanges
  BY DEF LaunchInv
<1> /\ auto \in States /\ job \in [LaunchTasks -> Jobs]
  BY Known
<1> /\ holder \in [Epochs -> 0 .. MaxAgents] /\ a \in 0 .. MaxAgents /\ a # NoAgent
  BY DEF LaunchRanges, LaunchTypeOK, Agents, NoAgent
<1>0. UNCHANGED <<roomVars, auto, closings, started, stuck, left, strayed>>
  BY DEF AgentGreets
<1>1. job' \in [LaunchTasks -> Jobs] /\ \A u \in LaunchTasks : AsBefore(u)
  <2>1. CASE UNCHANGED job
    BY <2>1 DEF AsBefore
  <2>2. CASE job' = [t \in LaunchTasks |->
                       IF Launches(t) /\ job[t].epoch = Here
                       THEN [job[t] EXCEPT !.fresh = TRUE] ELSE job[t]]
    <3>1. \A t \in LaunchTasks : /\ [job[t] EXCEPT !.fresh = TRUE] \in Jobs
                                 /\ [job[t] EXCEPT !.fresh = TRUE].pc = job[t].pc
                                 /\ [job[t] EXCEPT !.fresh = TRUE].epoch = job[t].epoch
                                 /\ [job[t] EXCEPT !.fresh = TRUE].ok = job[t].ok
      BY DEF Jobs
    <3> QED
      BY <2>2, <3>1 DEF AsBefore
  <2> QED
    BY <2>1, <2>2 DEF AgentGreets
<1>2. /\ holder' \in [Epochs -> 0 .. MaxAgents]
      /\ \A e \in Epochs : holder[e] # NoAgent => holder'[e] # NoAgent
      /\ procs' \subseteq procs
  BY DEF AgentGreets
<1>3. LaunchRanges'
  <2>1. procs' \subseteq 1 .. started'
    BY <1>0, <1>2 DEF LaunchRanges, LaunchTypeOK
  <2> QED
    BY <1>0, <1>1, <1>2, <2>1, LaunchRangesKept DEF LaunchRanges, LaunchTypeOK, roomVars
<1> QED
  BY <1>0, <1>1, <1>2, <1>3, AgentsMove DEF roomVars

LEMMA ChannelBreaksKeeps ==
  ASSUME LaunchInv, ChannelBreaks
  PROVE  LaunchInv'
<1> LaunchRanges
  BY DEF LaunchInv
<1> /\ auto \in States /\ job \in [LaunchTasks -> Jobs]
  BY Known
<1> /\ holder \in [Epochs -> 0 .. MaxAgents] /\ closings \in [Epochs -> BOOLEAN]
    /\ 0 \in 0 .. MaxAgents
  BY DEF LaunchRanges, LaunchTypeOK
<1>0. /\ UNCHANGED <<roomVars, auto, started, stuck, job, strayed>>
      /\ procs' \subseteq procs
      /\ holder' = [holder EXCEPT ![Here] = NoAgent]
      /\ closings' = [closings EXCEPT ![Here] = TRUE]
      /\ left.breaks > 0 /\ left' = [left EXCEPT !.breaks = @ - 1]
  BY DEF ChannelBreaks
<1>1. LaunchRanges'
  <2>1. procs' \subseteq 1 .. started'
    BY <1>0 DEF LaunchRanges, LaunchTypeOK
  <2>2. left' \in [restarts : Nat, probes : Nat, breaks : Nat, disconnects : Nat,
                   agents : 0 .. MaxAgents]
    <3> DEFINE b == left.breaks - 1
    <3>1. b \in Nat /\ left' = [left EXCEPT !.breaks = b]
      BY <1>0 DEF LaunchRanges
    <3> HIDE DEF b
    <3> QED
      BY <3>1 DEF LaunchRanges
  <2>3. holder' \in [Epochs -> 0 .. MaxAgents] /\ closings' \in [Epochs -> BOOLEAN]
    BY <1>0 DEF NoAgent
  <2> QED
    BY <1>0, <2>1, <2>2, <2>3, LaunchRangesKept DEF LaunchRanges, LaunchTypeOK, roomVars
<1>2. /\ \A u \in LaunchTasks : AsBefore(u)
      /\ \A e \in Epochs : /\ holder[e] # NoAgent => holder'[e] # NoAgent \/ closings'[e]
                           /\ closings[e] => closings'[e]
  BY <1>0 DEF AsBefore
<1> QED
  BY <1>0, <1>1, <1>2, AgentsMove DEF roomVars

LEMMA AgentSticksKeeps ==
  ASSUME LaunchInv, NEW a \in Agents, AgentSticks(a)
  PROVE  LaunchInv'
<1>0. UNCHANGED <<roomVars, auto, holder, closings, procs, started, job, left, strayed>>
  BY DEF AgentSticks
<1>1. LaunchRanges'
  <2>1. stuck' \subseteq Agents
    BY DEF AgentSticks, LaunchInv, LaunchRanges, LaunchTypeOK
  <2>2. auto \in States /\ LaunchRanges
    BY Known DEF LaunchInv
  <2> QED
    BY <1>0, <2>1, <2>2, LaunchRangesKept DEF LaunchRanges, LaunchTypeOK, roomVars
<1> QED
  BY <1>0, <1>1, AgentsMove DEF roomVars, AsBefore

LEMMA ConnectStoresKeeps ==
  ASSUME LaunchInv, NEW g \in Generations, ConnectStores(g)
  PROVE  LaunchInv'
<1> DEFINE c == Connecting(g)
           s == Supervisor(g)
<1> LaunchRanges
  BY DEF LaunchInv
<1> /\ auto \in States /\ job \in [LaunchTasks -> Jobs]
  BY Known
<1>0. /\ c \in LaunchTasks /\ s \in LaunchTasks /\ c # s /\ c # Restart /\ s # Restart
      /\ job[c].pc = "building" /\ sessionAt' = g
      /\ job' = [job EXCEPT ![c].pc = "tail", ![s].pc = "idle"]
      /\ UNCHANGED <<plan, claimed, tearing, leaving, home, auto, holder, closings, hostVars, left,
                     strayed>>
  BY TaskFacts DEF ConnectStores
<1>1. \A h \in Generations : /\ Connecting(h) \in LaunchTasks /\ Connecting(h) # s
                             /\ (Connecting(h) = c => h = g)
  BY TaskFacts
<1>2. g = claimed
  BY <1>0 DEF LaunchInv, NewestOwns
<1> HIDE DEF c, s
<1>3. /\ job' \in [LaunchTasks -> Jobs] /\ job'[c].pc = "tail" /\ job'[s].pc = "idle"
      /\ \A u \in LaunchTasks : job'[u].epoch = job[u].epoch /\ job'[u].ok = job[u].ok
      /\ \A u \in LaunchTasks \ {c, s} : AsBefore(u)
  <2> DEFINE jc == [job[c] EXCEPT !.pc = "tail"]
             js == [job[s] EXCEPT !.pc = "idle"]
  <2>1. /\ jc \in Jobs /\ jc.pc = "tail" /\ jc.epoch = job[c].epoch /\ jc.ok = job[c].ok
        /\ js \in Jobs /\ js.pc = "idle" /\ js.epoch = job[s].epoch /\ js.ok = job[s].ok
    BY <1>0 DEF Jobs, Steps
  <2>2. job' = [job EXCEPT ![c] = jc, ![s] = js]
    BY <1>0
  <2> HIDE DEF jc, js
  <2> QED
    BY <1>0, <2>1, <2>2 DEF AsBefore
<1>4. LaunchRanges' /\ Steady
  <2>1. LaunchRanges'
    <3>1. sessionAt' \in 0 .. MaxSessions
      BY <1>0 DEF Generations
    <3>2. UNCHANGED <<plan, claimed, tearing, leaving, home, auto, holder, closings, procs, started,
                      stuck, left, strayed>>
      BY <1>0 DEF hostVars
    <3> QED
      BY <1>3, <3>1, <3>2, LaunchRangesKept DEF LaunchRanges, LaunchTypeOK
  <2> QED
    BY <1>0, <2>1 DEF Steady
<1>5. ~Launches(c) /\ ~Launches(c)' /\ ~Launches(s) /\ ~Launches(s)' /\ job[s].pc = "off"
  BY <1>0, <1>3 DEF Launches, Launching, LaunchInv, SupervisorsFollow, c, s
<1>6. NewestOwns'
  <2> SUFFICES ASSUME NEW h \in Generations
               PROVE  /\ job'[Connecting(h)].pc = "building" => h = claimed
                      /\ job'[Connecting(h)].pc # "off" => h <= claimed
                      /\ job'[Connecting(h)].pc = "deferred" => plan[h] = "defer"
                      /\ job'[Connecting(h)].pc = "unadopted" => plan[h] # "launch"
    BY <1>0, <1>2 DEF LaunchInv, NewestOwns, Live
  <2>1. CASE Connecting(h) = c
    <3>1. h = claimed /\ claimed <= claimed /\ job'[Connecting(h)].pc = "tail"
      BY <1>1, <1>2, <1>3, <2>1 DEF Generations
    <3> QED
      BY <3>1
  <2>2. CASE Connecting(h) # c
    BY <1>1, <1>3, <2>2 DEF LaunchInv, NewestOwns, AsBefore
  <2> QED
    BY <2>1, <2>2
<1>7. DownIsScheduled'
  BY <1>0, <1>2, <1>3 DEF DownIsScheduled, Scheduled, c
<1>8. SupervisorsFollow'
  <2> SUFFICES ASSUME NEW h \in Generations, job'[Supervisor(h)].pc # "off"
               PROVE  h <= claimed /\ job'[Connecting(h)].pc # "building"
    BY <1>4 DEF SupervisorsFollow, Steady
  <2>1. CASE h = g
    BY <1>2, <1>3, <2>1 DEF c, LaunchRanges, LaunchTypeOK
  <2>2. CASE h # g
    <3>1. /\ Connecting(h) \in LaunchTasks \ {c, s} /\ Supervisor(h) \in LaunchTasks \ {c, s}
      BY <2>2, TaskFacts DEF c, s
    <3> QED
      BY <1>3, <3>1 DEF LaunchInv, SupervisorsFollow, AsBefore
  <2> QED
    BY <2>1, <2>2
<1>9. \A u \in LaunchTasks : Launches(u) \/ Launches(u)' => AsBefore(u)
  BY <1>3, <1>5
<1>10. LossNoticed /\ auto.enabled => LossNoticed'
  <2>1. auto.enabled => job[Supervisor(claimed)].pc = "off" /\ AsBefore(Restart)
    BY <1>0, <1>2, <1>3, <1>5, TaskFacts DEF s
  <2> QED
    BY <1>0, <2>1 DEF LossNoticed, AsBefore
<1> QED
  BY <1>0, <1>3, <1>4, <1>6, <1>7, <1>8, <1>9, <1>10, KeepsBooksOf


LEMMA SlotEmptiedKeeps ==
  ASSUME LaunchInv, SessionEnds \/ DisconnectTakes
  PROVE  LaunchInv'
<1> LaunchRanges
  BY DEF LaunchInv
<1> /\ auto \in States /\ job \in [LaunchTasks -> Jobs] /\ auto.epoch \in Epochs
  BY Known
<1> /\ holder \in [Epochs -> 0 .. MaxAgents] /\ closings \in [Epochs -> BOOLEAN]
    /\ sessionAt \in 0 .. MaxSessions /\ 0 \in 0 .. MaxAgents
  BY DEF LaunchRanges, LaunchTypeOK
<1>0. /\ UNCHANGED <<plan, claimed, home, auto, hostVars, job, left, strayed>>
      /\ SlotEmptied /\ sessionAt' = NoSession
  BY DEF SessionEnds, DisconnectTakes, SlotEmptied
<1>1. /\ holder' \in [Epochs -> 0 .. MaxAgents] /\ closings' \in [Epochs -> BOOLEAN]
      /\ \A e \in Epochs : /\ holder[e] # NoAgent => holder'[e] # NoAgent \/ closings'[e]
                           /\ closings[e] => closings'[e]
  <2>1. CASE UNCHANGED <<holder, closings>>
    BY <2>1
  <2>2. CASE /\ holder' = [holder EXCEPT ![Here] = NoAgent]
             /\ closings' = [closings EXCEPT ![Here] = TRUE]
    BY <2>2 DEF NoAgent
  <2> QED
    BY <1>0, <2>1, <2>2 DEF SlotEmptied
<1>2. LaunchRanges'
  <2>1. /\ sessionAt' \in 0 .. MaxSessions /\ tearing' \in 0 .. MaxSessions
        /\ leaving' \in BOOLEAN
    <3>1. CASE SessionEnds
      <4>1. leaving \in BOOLEAN /\ leaving' = leaving /\ tearing' = sessionAt
        BY <3>1 DEF SessionEnds, LaunchRanges, LaunchTypeOK
      <4> QED
        BY <1>0, <4>1 DEF NoSession
    <3>2. CASE DisconnectTakes
      <4>1. sessionAt' \in 0 .. MaxSessions
        BY <1>0 DEF NoSession
      <4>2. leaving' = FALSE /\ tearing' = tearing /\ tearing \in 0 .. MaxSessions
        BY <3>2 DEF DisconnectTakes, LaunchRanges, LaunchTypeOK
      <4> QED
        BY <4>1, <4>2
    <3> QED
      BY <3>1, <3>2
  <2>2. UNCHANGED <<plan, claimed, home, auto, procs, started, stuck, job, left, strayed>>
    BY <1>0 DEF hostVars
  <2> QED
    BY <1>1, <2>1, <2>2, LaunchRangesKept DEF LaunchRanges, LaunchTypeOK
<1>3. Steady /\ NewestOwns' /\ DownIsScheduled'
  BY <1>0 DEF Steady, LaunchInv, NewestOwns, DownIsScheduled, Live
<1>4. \A u \in LaunchTasks : /\ AsBefore(u) /\ (job'[u].ok => job[u].ok)
                             /\ job'[u].epoch = job[u].epoch /\ NoneBorn(u)
  BY <1>0 DEF AsBefore, NoneBorn
<1>5. auto.enabled => (holder[auto.epoch] # NoAgent \/ LossNoticed
                         => holder'[auto.epoch] # NoAgent \/ LossNoticed')
  BY <1>0, <1>1 DEF LossNoticed
<1> QED
  BY <1>0, <1>2, <1>3, <1>4, <1>5, KeepsBooks

-----------------------------------------------------------------------------
(* A new epoch: nothing that runs belongs to it.                           *)

LEMMA CleanedFacts ==
  ASSUME NEW s \in States, s.enabled => s.epoch + 1 \in Epochs
  PROVE  /\ Cleaned(s) \in States /\ ~Cleaned(s).enabled
         /\ Cleaned(s).epoch = IF s.enabled THEN s.epoch + 1 ELSE s.epoch
<1>1. CASE s.enabled
  <2> DEFINE e == s.epoch + 1
  <2>1. e \in Epochs /\ 0 \in 0 .. MaxFailures
    BY <1>1
  <2>2. Cleaned(s) = [s EXCEPT !.enabled = FALSE, !.ready = FALSE, !.due = FALSE,
                               !.failures = 0, !.adopted = FALSE, !.deferred = FALSE,
                               !.epoch = e]
    BY <1>1 DEF Cleaned
  <2>3. Cleaned(s) \in States /\ Cleaned(s).enabled = FALSE /\ Cleaned(s).epoch = e
    <3> HIDE DEF e
    <3> QED
      BY <2>1, <2>2 DEF States
  <2> QED
    BY <1>1, <2>3
<1>2. CASE ~s.enabled
  BY <1>2 DEF Cleaned
<1> QED
  BY <1>1, <1>2

LEMMA InitializedFacts ==
  ASSUME NEW s \in States, s.epoch + 1 \in Epochs
  PROVE  /\ Initialized(s) \in States /\ Initialized(s).enabled
         /\ Initialized(s).inFlight = FALSE /\ Initialized(s).epoch = s.epoch + 1
<1> DEFINE e == s.epoch + 1
<1>1. e \in Epochs /\ 0 \in 0 .. MaxFailures
  OBVIOUS
<1>2. Initialized(s) = [s EXCEPT !.enabled = TRUE, !.inFlight = FALSE, !.due = FALSE,
                                 !.failures = 0, !.deferred = FALSE, !.epoch = e]
  BY DEF Initialized
<1>3. /\ Initialized(s) \in States /\ Initialized(s).enabled
      /\ Initialized(s).inFlight = FALSE /\ Initialized(s).epoch = e
  <2> HIDE DEF e
  <2> QED
    BY <1>1, <1>2 DEF States
<1> QED
  BY <1>3

LEMMA ConnectBeginsKeeps ==
  ASSUME LaunchInv, ConnectBegins
  PROVE  LaunchInv'
<1> DEFINE n == claimed + 1
           t == Connecting(n)
<1> LaunchRanges
  BY DEF LaunchInv
<1> /\ auto \in States /\ job \in [LaunchTasks -> Jobs] /\ auto.epoch \in Epochs
  BY Known
<1>0. /\ claimed < Len(plan) /\ claimed' = n /\ sessionAt' = NoSession
      /\ \A g \in 1 .. claimed : job[Connecting(g)].pc # "building"
      /\ auto' = Initialized(Cleaned(auto))
      /\ home' = [home EXCEPT ![n] = auto'.epoch]
      /\ Move(t, "building")
      /\ UNCHANGED <<plan, tearing, leaving, holder, closings, hostVars, left, strayed>>
  BY DEF ConnectBegins
<1>1. /\ n \in Generations /\ n \in 0 .. MaxSessions /\ n <= Len(plan) /\ claimed \in Nat
      /\ n = claimed + 1 /\ MaxSessions \in Nat
  <2>1. claimed \in 0 .. MaxSessions /\ Len(plan) <= MaxSessions /\ Len(plan) \in Nat
    BY DEF LaunchRanges, LaunchTypeOK
  <2> QED
    BY <1>0, <2>1 DEF Generations
<1>2. t \in LaunchTasks /\ \A g \in Generations : /\ Connecting(g) \in LaunchTasks
                                                  /\ Supervisor(g) \in LaunchTasks \ {t}
                                                  /\ (Connecting(g) = t => g = n)
  BY <1>1, TaskFacts
<1>3. auto.epoch <= 2 * claimed - (IF auto.enabled THEN 1 ELSE 0) /\ auto.epoch \in Nat
  BY DEF LaunchInv, EpochsCounted, Epochs
<1>4. job[t].pc = "off" /\ job[t].ok = FALSE
  <2>1. ~(n <= claimed)
    BY <1>1
  <2> HIDE DEF n, t
  <2>2. job[t].pc = "off"
    BY <1>1, <2>1 DEF LaunchInv, NewestOwns, t
  <2>3. job[t].ok \in BOOLEAN
    BY <1>2 DEF Jobs
  <2> QED
    BY <1>2, <2>2, <2>3 DEF LaunchInv, SuccessIsLast
<1> HIDE DEF n, t
<1>5. /\ auto' \in States /\ auto'.enabled /\ auto'.inFlight = FALSE
      /\ auto'.epoch > auto.epoch /\ auto'.epoch <= 2 * n - 1
  <2>1. /\ auto.enabled => auto.epoch + 1 \in Epochs
        /\ auto.enabled => auto.epoch + 2 \in Epochs /\ auto.epoch + 2 <= 2 * n - 1
        /\ \/ auto.epoch + 1 \in Epochs /\ auto.epoch + 1 <= 2 * n - 1
           \/ auto.enabled
    BY <1>1, <1>3 DEF Epochs
  <2>2. /\ Cleaned(auto) \in States
        /\ Cleaned(auto).epoch = IF auto.enabled THEN auto.epoch + 1 ELSE auto.epoch
    BY <2>1, CleanedFacts
  <2>3. /\ Cleaned(auto).epoch + 1 \in Epochs /\ Cleaned(auto).epoch + 1 <= 2 * n - 1
        /\ Cleaned(auto).epoch + 1 > auto.epoch
    BY <1>3, <2>1, <2>2
  <2> QED
    BY <1>0, <2>2, <2>3, InitializedFacts
<1>6. /\ job' \in [LaunchTasks -> Jobs] /\ OnlyJob(t)
      /\ job'[t].pc = "building" /\ job'[t].epoch = job[t].epoch /\ job'[t].ok = job[t].ok
  BY <1>0, <1>2, Moved DEF OnlyJob, Steps
<1>7. /\ auto'.epoch \in Epochs /\ home' \in [Generations -> Epochs]
      /\ home'[n] = auto'.epoch
  <2>1. auto'.epoch \in Epochs
    BY <1>5 DEF States
  <2>2. home \in [Generations -> Epochs]
    BY DEF LaunchRanges
  <2> QED
    BY <1>0, <1>1, <2>1, <2>2
<1>8. LaunchRanges'
  <2>1. sessionAt' \in 0 .. MaxSessions /\ claimed' \in 0 .. MaxSessions
    BY <1>0, <1>1 DEF NoSession
  <2>2. UNCHANGED <<plan, tearing, leaving, holder, closings, procs, started, stuck, left, strayed>>
    BY <1>0 DEF hostVars
  <2> QED
    BY <1>5, <1>6, <1>7, <2>1, <2>2, LaunchRangesKept DEF LaunchRanges, LaunchTypeOK
<1>9. \A u \in LaunchTasks : job'[u].epoch <= auto.epoch /\ job'[u].epoch \in Nat
  <2>1. \A u \in LaunchTasks : job[u].epoch <= auto.epoch /\ job[u].epoch \in Nat
    BY Known DEF LaunchInv, EpochsCounted, Epochs
  <2> QED
    BY <1>6, <2>1 DEF OnlyJob, AsBefore
<1>10. \A u \in LaunchTasks : job'[u].epoch <= auto'.epoch /\ ~Ours(u)'
  BY <1>3, <1>5, <1>7, <1>9 DEF Ours, Epochs
<1>11. EpochsCounted'
  BY <1>0, <1>1, <1>5, <1>10 DEF EpochsCounted
<1>12. NewestOwns'
  <2>1. n # 0
    BY <1>1
  <2>2. ASSUME NEW g \in Generations
        PROVE  /\ job'[Connecting(g)].pc = "building" => g = n
               /\ job'[Connecting(g)].pc # "off" => g <= n
               /\ job'[Connecting(g)].pc = "deferred" => plan[g] = "defer"
               /\ job'[Connecting(g)].pc = "unadopted" => plan[g] # "launch"
    <3>1. CASE Connecting(g) = t
      BY <1>1, <1>2, <1>6, <3>1
    <3>2. CASE Connecting(g) # t
      <4>1. job'[Connecting(g)].pc = job[Connecting(g)].pc
        BY <1>2, <1>6, <3>2 DEF OnlyJob, AsBefore
      <4>2. job[Connecting(g)].pc # "off" => g \in 1 .. claimed
        BY <1>1 DEF LaunchInv, NewestOwns, Generations
      <4>3. g \in 1 .. claimed => g <= n
        BY <1>1
      <4> QED
        BY <1>0, <4>1, <4>2, <4>3 DEF LaunchInv, NewestOwns
    <3> QED
      BY <3>1, <3>2
  <2> QED
    BY <1>0, <1>7, <2>1, <2>2 DEF NewestOwns, Live
<1>13. OneLaunch' /\ SuccessStands'
  BY <1>5, <1>10 DEF OneLaunch, SuccessStands, Current
<1>14. SuccessIsLast'
  BY <1>4, <1>6 DEF LaunchInv, SuccessIsLast, OnlyJob, AsBefore
<1>15. SupervisorsFollow'
  <2> SUFFICES ASSUME NEW g \in Generations, job'[Supervisor(g)].pc # "off"
               PROVE  g <= n /\ job'[Connecting(g)].pc # "building"
    BY <1>0 DEF SupervisorsFollow
  <2>1. g <= claimed /\ job[Connecting(g)].pc # "building"
    BY <1>2, <1>6 DEF LaunchInv, SupervisorsFollow, OnlyJob, AsBefore
  <2>2. g # n /\ g <= n
    BY <1>1, <2>1 DEF Generations
  <2> QED
    BY <1>2, <1>6, <2>1, <2>2 DEF OnlyJob, AsBefore
<1>16. DownIsScheduled'
  BY <1>0 DEF DownIsScheduled, Live
<1> QED
  BY <1>8, <1>11, <1>12, <1>13, <1>14, <1>15, <1>16 DEF LaunchInv

LEMMA WipedKeeps ==
  ASSUME LaunchInv, Wiped \/ DisconnectWipes
  PROVE  LaunchInv'
<1> LaunchRanges
  BY DEF LaunchInv
<1> /\ auto \in States /\ job \in [LaunchTasks -> Jobs] /\ auto.epoch \in Epochs
  BY Known
<1>0. /\ UNCHANGED <<plan, sessionAt, claimed, home, holder, closings, hostVars, job, strayed>>
      /\ auto' = auto \/ auto' = Cleaned(auto)
  BY DEF Wiped, DisconnectWipes
<1>1. ASSUME auto' \in States PROVE LaunchRanges'
  <2>1. tearing' \in 0 .. MaxSessions /\ leaving' \in BOOLEAN
    <3>1. CASE Wiped
      <4>1. leaving \in BOOLEAN /\ leaving' = leaving /\ tearing' = NoSession
        BY <3>1 DEF Wiped, LaunchRanges, LaunchTypeOK
      <4> QED
        BY <4>1 DEF NoSession
    <3>2. CASE DisconnectWipes
      <4>1. leaving' = TRUE /\ tearing' = tearing /\ tearing \in 0 .. MaxSessions
        BY <3>2 DEF DisconnectWipes, LaunchRanges, LaunchTypeOK
      <4> QED
        BY <4>1
    <3> QED
      BY <3>1, <3>2
  <2>2. UNCHANGED <<plan, sessionAt, claimed, home, holder, closings, procs, started, stuck, job,
                    strayed>>
    BY <1>0 DEF hostVars
  <2>3. left' \in [restarts : Nat, probes : Nat, breaks : Nat, disconnects : Nat,
                   agents : 0 .. MaxAgents]
    <3>1. CASE Wiped
      BY <3>1 DEF Wiped, LaunchRanges
    <3>2. CASE DisconnectWipes
      <4> DEFINE d == left.disconnects - 1
      <4>1. d \in Nat /\ left' = [left EXCEPT !.disconnects = d]
        BY <3>2 DEF DisconnectWipes, LaunchRanges
      <4> HIDE DEF d
      <4> QED
        BY <4>1 DEF LaunchRanges
    <3> QED
      BY <3>1, <3>2
  <2> QED
    BY <1>1, <2>1, <2>2, <2>3, LaunchRangesKept DEF LaunchRanges, LaunchTypeOK
<1>2. SupervisorsFollow' /\ SuccessIsLast'
  BY <1>0 DEF LaunchInv, SupervisorsFollow, SuccessIsLast
<1>3. CASE auto' = auto
  <2>1. LaunchRanges'
    BY <1>1, <1>3
  <2> QED
    BY <1>0, <1>2, <1>3, <2>1
       DEF LaunchInv, EpochsCounted, NewestOwns, OneLaunch, Current, Ours, Launches, SuccessStands,
           LossNoticed, DownIsScheduled, Scheduled, NobodyDefers, Live
<1>4. CASE auto' # auto
  <2>1. auto' = Cleaned(auto) /\ auto.enabled
    BY <1>0, <1>4 DEF Cleaned
  <2>2. auto.epoch <= 2 * claimed - 1 /\ auto.epoch \in Nat /\ claimed \in 0 .. MaxSessions
    BY <2>1 DEF LaunchInv, EpochsCounted, Epochs, LaunchRanges, LaunchTypeOK
  <2>3. auto.epoch + 1 \in Epochs /\ auto.epoch + 1 <= 2 * claimed
    BY <2>2 DEF Epochs
  <2>4. auto' \in States /\ ~auto'.enabled /\ auto'.epoch = auto.epoch + 1
    BY <2>1, <2>3, CleanedFacts
  <2>5. LaunchRanges'
    BY <1>1, <2>4
  <2>6. EpochsCounted'
    <3>1. \A u \in LaunchTasks : job[u].epoch <= auto.epoch /\ job[u].epoch \in Nat
      BY Known DEF LaunchInv, EpochsCounted, Epochs
    <3>2. claimed <= Len(plan)
      BY DEF LaunchInv, EpochsCounted
    <3> QED
      BY <1>0, <2>2, <2>3, <2>4, <3>1, <3>2 DEF EpochsCounted
  <2>7. \A u \in LaunchTasks : ~Ours(u)'
    <3>1. \A u \in LaunchTasks : job[u].epoch <= auto.epoch /\ job[u].epoch \in Nat
      BY Known DEF LaunchInv, EpochsCounted, Epochs
    <3> QED
      BY <1>0, <2>2, <2>4, <3>1 DEF Ours
  <2> QED
    BY <1>0, <1>2, <2>4, <2>5, <2>6, <2>7
       DEF LaunchInv, NewestOwns, OneLaunch, Current, SuccessStands, DownIsScheduled, Live
<1> QED
  BY <1>3, <1>4

-----------------------------------------------------------------------------
LEMMA InitLaunchInv ==
  ASSUME LaunchInit
  PROVE  LaunchInv
<1>1. PICK p \in ConnectPlans :
        /\ plan = p.modes
        /\ left = [restarts |-> p.restarts, probes |-> p.probes, breaks |-> p.breaks,
                   disconnects |-> p.disconnects, agents |-> p.agents]
  BY DEF LaunchInit
<1>2. /\ plan \in UNION {[1 .. n -> Modes] : n \in 0 .. MaxSessions}
      /\ p.restarts \in Nat /\ p.probes \in Nat /\ p.breaks \in Nat
      /\ p.disconnects \in Nat /\ p.agents \in 0 .. MaxAgents
  BY <1>1, LaunchAssumption DEF LaunchAssumption
<1>3. PICK n \in 0 .. MaxSessions : plan \in [1 .. n -> Modes]
  BY <1>2
<1>4. plan \in Seq(Modes) /\ Len(plan) = n
  BY <1>3
<1>5. left \in [restarts : Nat, probes : Nat, breaks : Nat, disconnects : Nat,
                agents : 0 .. MaxAgents]
  BY <1>1, <1>2
<1>6. /\ 0 \in Epochs /\ 0 \in 0 .. MaxAgents /\ 0 \in 0 .. MaxFailures /\ 0 \in 0 .. WedgeStrikes
      /\ 0 \in 0 .. MaxSessions
  BY DEF Epochs
<1>7. auto \in States
  BY <1>6 DEF LaunchInit, NewState, States, NoAgent
<1>8. job \in [LaunchTasks -> Jobs] /\ \A t \in LaunchTasks : job[t] = Off
  BY OffIsJob DEF LaunchInit
<1>9. \A t \in LaunchTasks : /\ job[t].pc = "off" /\ job[t].epoch = 0 /\ job[t].ok = FALSE
                             /\ job[t].attempt = 0
  BY <1>8 DEF Off
<1>10. LaunchRanges
  <2>1. /\ sessionAt \in 0 .. MaxSessions /\ claimed \in 0 .. MaxSessions
        /\ tearing \in 0 .. MaxSessions /\ leaving \in BOOLEAN
        /\ holder \in [Epochs -> 0 .. MaxAgents] /\ closings \in [Epochs -> BOOLEAN]
        /\ procs \subseteq 1 .. started /\ started \in 0 .. MaxAgents /\ stuck \subseteq Agents
        /\ home \in [Generations -> Epochs] /\ strayed \in BOOLEAN
    BY <1>6 DEF LaunchInit, NoSession, NoAgent
  <2>2. \A t \in LaunchTasks : job[t].epoch \in Epochs /\ job[t].attempt \in 0 .. LaunchAttempts
    BY <1>6, <1>9
  <2>3. Len(plan) <= MaxSessions
    BY <1>4
  <2> QED
    BY <1>4, <1>5, <1>7, <1>8, <2>1, <2>2, <2>3 DEF LaunchRanges, LaunchTypeOK, States
<1>11. ~auto.enabled /\ auto.epoch = 0 /\ claimed = 0 /\ sessionAt = 0
  BY DEF LaunchInit, NewState, NoSession
<1>12. EpochsCounted
  BY <1>4, <1>9, <1>11 DEF EpochsCounted
<1>13. \A g \in Generations : job[Connecting(g)].pc = "off" /\ job[Supervisor(g)].pc = "off"
  BY <1>9, TaskFacts
<1> QED
  BY <1>9, <1>10, <1>11, <1>12, <1>13
     DEF LaunchInv, NewestOwns, OneLaunch, Current, Launches, Launching, SuccessStands,
         SuccessIsLast, SupervisorsFollow, DownIsScheduled, Live, NoSession

LEMMA NextLaunchInv ==
  ASSUME LaunchInv, [LaunchNext]_launchVars
  PROVE  LaunchInv'
<1>1. CASE UNCHANGED launchVars
  BY SMTT(20), <1>1 DEF LaunchInv, LaunchRanges, LaunchTypeOK, EpochsCounted, NewestOwns, OneLaunch, Current, Ours,
              Launches, SuccessStands, LossNoticed, SuccessIsLast, SupervisorsFollow,
              DownIsScheduled, Scheduled, NobodyDefers, Live, launchVars, roomVars, hostVars
<1>2. ASSUME NEW t \in LaunchTasks, LaunchStep(t) PROVE LaunchInv'
  BY <1>2, AdoptsSurvivorKeeps, NoSurvivorKeeps, AttemptKeeps, TypeKeeps, AgentAppearsKeeps,
     NoAgentAppearsKeeps, FinishKeeps, FinishAdoptingKeeps DEF LaunchStep
<1>3. ASSUME NEW g \in Generations, SupervisorLaunches(g) PROVE LaunchInv'
  BY <1>3, GuardKeeps, TaskFacts DEF SupervisorLaunches
<1>4. ASSUME NEW g \in Generations, SupervisorStep(g) PROVE LaunchInv'
  BY <1>3, <1>4, SupervisorMovesKeep, HearsCloseKeeps, ArmsOnCloseKeeps DEF SupervisorStep
<1>5. ASSUME NEW g \in Generations, TailLaunches(g) PROVE LaunchInv'
  BY <1>5, GuardKeeps, TaskFacts DEF TailLaunches
<1>6. ASSUME RestartLaunches PROVE LaunchInv'
  BY <1>6, GuardKeeps, TaskFacts DEF RestartLaunches
<1>7. ASSUME NEW g \in Generations,
             ConnectStores(g) \/ TailDefers(g) \/ TailAdopts(g) \/ TailEnds(g)
      PROVE  LaunchInv'
  BY <1>7, ConnectStoresKeeps, TailDefersKeeps, TailAdoptsKeeps, TailEndsKeeps
<1>8. CASE \/ ConnectBegins \/ SessionEnds \/ Wiped \/ ChannelBreaks
           \/ DisconnectWipes \/ DisconnectTakes
  BY <1>8, ConnectBeginsKeeps, SlotEmptiedKeeps, WipedKeeps, ChannelBreaksKeeps
<1>9. ASSUME NEW a \in Agents, AgentGreets(a) \/ AgentSticks(a) PROVE LaunchInv'
  BY <1>9, AgentGreetsKeeps, AgentSticksKeeps
<1>10. CASE RestartBegins \/ RestartAsks \/ RestartReleases \/ LateHandshake \/ AgentReplaced
  BY <1>10, RestartBeginsKeeps, RestartAsksKeeps, RestartReleasesKeeps, GateKeeps
<1> QED
  BY <1>1, <1>2, <1>4, <1>5, <1>6, <1>7, <1>8, <1>9, <1>10 DEF LaunchNext

LEMMA Invariant == LaunchSpec => []LaunchInv
<1>1. LaunchInit => LaunchInv
  BY InitLaunchInv
<1>2. LaunchInv /\ [LaunchNext]_launchVars => LaunchInv'
  BY NextLaunchInv
<1> QED
  BY <1>1, <1>2, PTL DEF LaunchSpec

-----------------------------------------------------------------------------
(* The theorems.                                                           *)

(* Every variable keeps its range.                                         *)
THEOREM LaunchTypeCorrect == LaunchSpec => []LaunchTypeOK
<1>1. LaunchInv => LaunchTypeOK
  BY DEF LaunchInv, LaunchRanges
<1> QED
  BY <1>1, Invariant, PTL

(* The in-flight flag of the automation state is up exactly while one      *)
(* launch of its epoch runs.                                               *)
THEOREM FlagsHaveLaunchers == LaunchSpec => []InFlightHasLauncher
<1>1. ASSUME LaunchInv PROVE InFlightHasLauncher
  <2> DEFINE S == {t \in LaunchTasks : Launches(t) /\ Ours(t)}
  <2> SUFFICES ASSUME auto.enabled
               PROVE  Cardinality(S) = IF auto.inFlight THEN 1 ELSE 0
    BY DEF InFlightHasLauncher
  <2>1. CASE auto.inFlight
    <3>1. PICK t \in LaunchTasks : Current(t)
      BY <1>1, <2>1 DEF LaunchInv, OneLaunch
    <3>2. S = {t}
      BY <1>1, <3>1 DEF LaunchInv, OneLaunch, Current
    <3> QED
      BY <2>1, <3>2, FS_Singleton
  <2>2. CASE ~auto.inFlight
    <3>1. S = {}
      BY <1>1, <2>2 DEF LaunchInv, OneLaunch, Current
    <3> QED
      BY <2>2, <3>1, FS_EmptySet
  <2> QED
    BY <2>1, <2>2
<1> QED
  BY <1>1, Invariant, PTL

(* An agent that is down under a live session is always somebody's         *)
(* business, unless the launches were given up or deferred.                *)
THEOREM DownAgentsAreScheduled == LaunchSpec => []AgentDownIsScheduled
<1>1. ASSUME LaunchInv PROVE AgentDownIsScheduled
  <2> SUFFICES ASSUME Live, auto.enabled, ~Reachable, NobodyDefers
               PROVE  AgentDownIsScheduled
    BY DEF AgentDownIsScheduled, NobodyDefers
  <2>1. Scheduled
    BY <1>1 DEF LaunchInv, DownIsScheduled, Reachable
  <2>2. sessionAt = claimed /\ claimed \in Generations
    BY <1>1, NewestIsTask DEF LaunchInv, NewestOwns
  <2> QED
    BY <2>1, <2>2 DEF Scheduled, AgentDownIsScheduled, AtRest
<1> QED
  BY <1>1, Invariant, PTL

-----------------------------------------------------------------------------
(* Whose state a launch finds, and where it types.                         *)

(* No drop of the newest session waits to wipe the state while that        *)
(* session is up or being made.                                            *)
NothingToWipe ==
  /\ tearing <= claimed
  /\ BeingMade => ~Live
  /\ Live \/ BeingMade => tearing # claimed

(* A step that makes, ends and wipes no session.                           *)
SameSession ==
  /\ Steady /\ UNCHANGED <<sessionAt, tearing>>
  /\ \A t \in LaunchTasks : job'[t].pc = "building" => job[t].pc = "building"

LEMMA SameSessionKeeps ==
  ASSUME LaunchInv, NothingToWipe, SameSession
  PROVE  NothingToWipe'
<1>1. claimed # 0 => Connecting(claimed) \in LaunchTasks
  <2>1. claimed \in 0..MaxSessions
    BY DEF LaunchInv, LaunchRanges, LaunchTypeOK
  <2>2. claimed # 0 => claimed \in Generations
    BY <2>1, Bounds DEF Generations
  <2> QED
    BY <2>2, TaskFacts
<1>2. BeingMade' => BeingMade
  BY <1>1 DEF SameSession, Steady, BeingMade
<1> QED
  BY <1>2 DEF SameSession, Steady, NothingToWipe, Live

LEMMA JobChanges ==
  ASSUME job \in [LaunchTasks -> Jobs], NEW t \in LaunchTasks, NEW r,
         r.pc # "building", job' = [job EXCEPT ![t] = r]
  PROVE  \A u \in LaunchTasks : job'[u].pc = "building" => job[u].pc = "building"
OBVIOUS

LEMMA JobMoves ==
  ASSUME job \in [LaunchTasks -> Jobs], NEW t \in LaunchTasks, NEW p \in Steps \ {"building"},
         Move(t, p)
  PROVE  \A u \in LaunchTasks : job'[u].pc = "building" => job[u].pc = "building"
BY Moved DEF AsBefore

LEMMA NotedStands ==
  ASSUME LaunchInv
  PROVE  \A n \in {Noted(auto), [Noted(auto) EXCEPT !.adopted = TRUE],
                   [Noted(auto) EXCEPT !.due = FALSE, !.adopted = TRUE]} :
           n.enabled = auto.enabled /\ n.epoch = auto.epoch
<1>1. LaunchRanges /\ auto \in States
  BY Known DEF LaunchInv
<1>2. \A n \in {Noted(auto), [Noted(auto) EXCEPT !.adopted = TRUE],
               [Noted(auto) EXCEPT !.due = FALSE, !.adopted = TRUE]} :
        /\ n.enabled = auto.enabled /\ n.epoch = auto.epoch /\ n.inFlight = auto.inFlight
        /\ n.failures = auto.failures
  BY <1>1, NotedFacts, Zenon
<1> QED
  BY <1>2

LEMMA GuardsStay ==
  ASSUME LaunchInv, NEW t \in LaunchTasks, NEW p \in Steps \ {"building"}, Guard(t, p)
  PROVE  SameSession
<1>1. auto \in States /\ job \in [LaunchTasks -> Jobs]
  BY Known DEF LaunchInv
<1>2. CASE auto.enabled /\ ~auto.inFlight
  <2> DEFINE r == [job[t] EXCEPT !.pc = p, !.epoch = auto.epoch, !.attempt = 1,
                                 !.fresh = FALSE, !.ok = FALSE]
  <2>1. r.pc # "building"
    BY <1>1 DEF Jobs
  <2>2. job' = [job EXCEPT ![t] = r]
    BY <1>2 DEF Guard
  <2>3. auto'.enabled = auto.enabled /\ auto'.epoch = auto.epoch
    BY <1>1, <1>2 DEF Guard, States
  <2> HIDE DEF r
  <2>4. \A u \in LaunchTasks : job'[u].pc = "building" => job[u].pc = "building"
    BY <1>1, <2>1, <2>2
  <2> QED
    BY <2>3, <2>4 DEF Guard, SameSession, Steady, roomVars
<1>3. CASE ~(auto.enabled /\ ~auto.inFlight)
  BY <1>1, <1>3 DEF Guard, Rest, Off, SameSession, Steady, roomVars
<1> QED
  BY <1>2, <1>3

LEMMA LaunchesStay ==
  ASSUME LaunchInv, NEW t \in LaunchTasks, LaunchStep(t)
  PROVE  SameSession
<1>1. auto \in States /\ job \in [LaunchTasks -> Jobs] /\ LaunchRanges
  BY Known DEF LaunchInv
<1>2. CASE AdoptsSurvivor(t)
  <2>1. auto'.enabled = auto.enabled /\ auto'.epoch = auto.epoch
    <3>1. auto' = auto \/ auto' = [Noted(auto) EXCEPT !.adopted = TRUE]
      BY <1>2 DEF AdoptsSurvivor
    <3> QED
      BY <3>1, NotedStands
  <2>2. \A u \in LaunchTasks : job'[u].pc = "building" => job[u].pc = "building"
    BY <1>1, <1>2, Succeeded, JobMoves DEF AdoptsSurvivor, AsBefore, Steps
  <2> QED
    BY <1>2, <2>1, <2>2 DEF AdoptsSurvivor, SameSession, Steady, roomVars
<1>3. CASE NoSurvivor(t)
  BY <1>1, <1>3 DEF NoSurvivor, SameSession, Steady, roomVars, Jobs
<1>4. CASE Attempt(t)
  <2>1. Fails(t).pc # "building"
    BY <1>1 DEF Fails, Jobs
  <2>2. \A u \in LaunchTasks : job'[u].pc = "building" => job[u].pc = "building"
    BY <1>1, <1>4, <2>1, JobMoves, JobChanges DEF Attempt, Steps
  <2> QED
    BY <1>4, <2>2 DEF Attempt, SameSession, Steady, roomVars
<1>5. CASE Type(t)
  <2>1. \A u \in LaunchTasks : job'[u].pc = "building" => job[u].pc = "building"
    BY <1>1, <1>5, JobMoves, FailsOrGoesOn DEF Type, Steps, OnlyJob, AsBefore
  <2> QED
    BY <1>5, <2>1 DEF Type, SameSession, Steady, roomVars
<1>6. CASE AgentAppears(t)
  <2>1. auto'.enabled = auto.enabled /\ auto'.epoch = auto.epoch
    <3>1. auto' = auto \/ auto' = Noted(auto)
      BY <1>6 DEF AgentAppears
    <3> QED
      BY <3>1, NotedStands
  <2>2. \A u \in LaunchTasks : job'[u].pc = "building" => job[u].pc = "building"
    BY <1>1, <1>6, Succeeded, FailsOrGoesOn DEF AgentAppears, OnlyJob, AsBefore
  <2> QED
    BY <1>6, <2>1, <2>2 DEF AgentAppears, SameSession, Steady, roomVars
<1>7. CASE NoAgentAppears(t)
  <2>1. \A u \in LaunchTasks : job'[u].pc = "building" => job[u].pc = "building"
    BY <1>1, <1>7, FailsOrGoesOn DEF NoAgentAppears, OnlyJob, AsBefore
  <2> QED
    BY <1>7, <2>1 DEF NoAgentAppears, SameSession, Steady, roomVars
<1>8. [auto EXCEPT !.inFlight = FALSE] \in States
  BY <1>1 DEF States
<1>9. job[t].ok \in BOOLEAN
  BY <1>1 DEF Jobs
<1>10. CASE Finish(t)
  <2>1. auto'.enabled = auto.enabled /\ auto'.epoch = auto.epoch
    <3> DEFINE s == [auto EXCEPT !.inFlight = FALSE]
    <3>1. s.enabled = auto.enabled /\ s.epoch = auto.epoch
      BY <1>1 DEF States
    <3>2. auto' = auto \/ auto' = s \/ auto' = Recorded(s, job[t].ok)
      BY <1>10 DEF Finish
    <3>3. s \in States
      BY <1>8
    <3> HIDE DEF s
    <3> QED
      BY <1>9, <3>1, <3>2, <3>3, RecordedFacts
  <2> QED
    BY <1>1, <1>10, <2>1 DEF Finish, Rest, Off, SameSession, Steady, roomVars
<1>11. CASE FinishAdopting(t)
  <2>1. auto'.enabled = auto.enabled /\ auto'.epoch = auto.epoch
    <3> DEFINE s == [auto EXCEPT !.inFlight = FALSE]
    <3>1. s.enabled = auto.enabled /\ s.epoch = auto.epoch
      BY <1>1 DEF States
    <3>2. auto' = auto \/ auto' = s \/ auto' = Recorded(s, TRUE)
      BY <1>11 DEF FinishAdopting
    <3>3. s \in States
      BY <1>8
    <3> HIDE DEF s
    <3> QED
      BY <3>1, <3>2, <3>3, RecordedFacts
  <2> QED
    BY <1>1, <1>11, <2>1 DEF FinishAdopting, Off, SameSession, Steady, roomVars
<1> QED
  BY <1>2, <1>3, <1>4, <1>5, <1>6, <1>7, <1>10, <1>11 DEF LaunchStep

LEMMA TailsStay ==
  ASSUME LaunchInv, NEW g \in Generations,
         TailLaunches(g) \/ TailDefers(g) \/ TailAdopts(g) \/ TailEnds(g)
  PROVE  SameSession
<1>1. auto \in States /\ job \in [LaunchTasks -> Jobs] /\ Connecting(g) \in LaunchTasks
  BY Known, TaskFacts DEF LaunchInv
<1>2. CASE TailLaunches(g)
  BY <1>1, <1>2, GuardsStay DEF TailLaunches, Steps
<1>3. CASE TailDefers(g) \/ TailEnds(g)
  <2>1. auto'.enabled = auto.enabled /\ auto'.epoch = auto.epoch
    BY <1>1, <1>3 DEF TailDefers, TailEnds, States
  <2>2. \A u \in LaunchTasks : job'[u].pc = "building" => job[u].pc = "building"
    BY <1>1, <1>3, JobMoves DEF TailDefers, TailEnds, Steps
  <2> QED
    BY <1>3, <2>1, <2>2 DEF TailDefers, TailEnds, SameSession, Steady, roomVars
<1>4. CASE TailAdopts(g)
  <2>1. auto'.enabled = auto.enabled /\ auto'.epoch = auto.epoch
    BY <1>1, <1>4 DEF TailAdopts, States
  <2>2. CASE auto.enabled /\ ~auto.inFlight
    <3>1. \A u \in LaunchTasks : job'[u].pc = "building" => job[u].pc = "building"
      BY <1>1, <1>4, <2>2 DEF TailAdopts, Jobs
    <3> QED
      BY <1>4, <2>1, <3>1 DEF TailAdopts, SameSession, Steady, roomVars
  <2>3. CASE ~(auto.enabled /\ ~auto.inFlight)
    <3>1. \A u \in LaunchTasks : job'[u].pc = "building" => job[u].pc = "building"
      BY <1>1, <1>4, <2>3, JobMoves DEF TailAdopts, Steps
    <3> QED
      BY <1>4, <2>1, <3>1 DEF TailAdopts, SameSession, Steady, roomVars
  <2> QED
    BY <2>2, <2>3
<1> QED
  BY <1>2, <1>3, <1>4

LEMMA SupervisorsStay ==
  ASSUME LaunchInv, NEW g \in Generations, SupervisorStep(g)
  PROVE  SameSession
<1>1. auto \in States /\ job \in [LaunchTasks -> Jobs] /\ Supervisor(g) \in LaunchTasks
  BY Known, TaskFacts DEF LaunchInv
<1>2. CASE SupervisorLaunches(g)
  BY <1>1, <1>2, GuardsStay DEF SupervisorLaunches, Steps
<1>3. CASE TickHeard(g)
  BY <1>1, <1>3 DEF TickHeard, SameSession, Steady, roomVars, States
<1>4. CASE ~SupervisorLaunches(g) /\ ~TickHeard(g)
  <2>1. \E p \in Steps \ {"building"} : Move(Supervisor(g), p)
    BY <1>4 DEF SupervisorStep, SupervisorEnds, HearsClose, ArmsOnClose, Probe, ProbeAnswered,
                ProbeMissed, ProbeMoot, Decides, BudgetRefuses, Steps
  <2>2. \A u \in LaunchTasks : job'[u].pc = "building" => job[u].pc = "building"
    BY <1>1, <2>1, JobMoves
  <2>3. auto'.enabled = auto.enabled /\ auto'.epoch = auto.epoch
    BY <1>1, <1>4 DEF SupervisorStep, SupervisorEnds, HearsClose, ArmsOnClose, Probe,
                ProbeAnswered, ProbeMissed, ProbeMoot, Decides, BudgetRefuses, States
  <2>4. UNCHANGED roomVars
    BY <1>4 DEF SupervisorStep, SupervisorEnds, HearsClose, ArmsOnClose, Probe,
                ProbeAnswered, ProbeMissed, ProbeMoot, Decides, BudgetRefuses
  <2> QED
    BY <2>2, <2>3, <2>4 DEF SameSession, Steady, roomVars
<1> QED
  BY <1>2, <1>3, <1>4

LEMMA RemotesStay ==
  ASSUME LaunchInv,
         \/ RestartBegins \/ RestartAsks \/ RestartReleases \/ RestartLaunches
         \/ LateHandshake \/ AgentReplaced \/ ChannelBreaks
         \/ \E a \in Agents : AgentGreets(a) \/ AgentSticks(a)
  PROVE  SameSession
<1>1. auto \in States /\ job \in [LaunchTasks -> Jobs] /\ LaunchRanges /\ Restart \in LaunchTasks
  BY Known, TaskFacts DEF LaunchInv
<1>2. CASE RestartLaunches
  BY <1>1, <1>2, GuardsStay DEF RestartLaunches, Steps
<1>3. CASE RestartBegins
  <2>1. auto'.enabled = auto.enabled /\ auto'.epoch = auto.epoch
    BY <1>1, <1>3 DEF RestartBegins, States
  <2> QED
    BY <1>1, <1>3, <2>1 DEF RestartBegins, SameSession, Steady, roomVars, Off
<1>4. CASE RestartAsks
  BY <1>1, <1>4 DEF RestartAsks, SameSession, Steady, roomVars, Jobs
<1>5. CASE RestartReleases
  <2>1. \A u \in LaunchTasks : job'[u].pc = "building" => job[u].pc = "building"
    BY <1>1, <1>5, JobMoves DEF RestartReleases, Steps
  <2> QED
    BY <1>5, <2>1 DEF RestartReleases, SameSession, Steady, roomVars
<1>6. CASE LateHandshake \/ AgentReplaced
  <2>1. auto' = [Noted(auto) EXCEPT !.adopted = TRUE]
        \/ auto' = [Noted(auto) EXCEPT !.due = FALSE, !.adopted = TRUE]
    BY <1>6 DEF LateHandshake, AgentReplaced
  <2>2. auto'.enabled = auto.enabled /\ auto'.epoch = auto.epoch
    BY <2>1, NotedStands
  <2> QED
    BY <1>6, <2>2 DEF LateHandshake, AgentReplaced, SameSession, Steady, roomVars
<1>7. CASE ChannelBreaks
  BY <1>7 DEF ChannelBreaks, SameSession, Steady, roomVars
<1>8. ASSUME NEW a \in Agents, AgentGreets(a) PROVE SameSession
  <2>1. \A u \in LaunchTasks : job'[u].pc = job[u].pc
    BY <1>1, <1>8 DEF AgentGreets, Jobs
  <2> QED
    BY <1>8, <2>1 DEF AgentGreets, SameSession, Steady, roomVars
<1>9. ASSUME NEW a \in Agents, AgentSticks(a) PROVE SameSession
  BY <1>9 DEF AgentSticks, SameSession, Steady, roomVars
<1> QED
  BY <1>2, <1>3, <1>4, <1>5, <1>6, <1>7, <1>8, <1>9

LEMMA NothingToWipeKept ==
  ASSUME LaunchInv, NothingToWipe, [LaunchNext]_launchVars
  PROVE  NothingToWipe'
<1>1. /\ auto \in States /\ job \in [LaunchTasks -> Jobs] /\ home \in [Generations -> Epochs]
      /\ claimed \in Nat /\ sessionAt \in Nat /\ tearing \in Nat
      /\ claimed <= MaxSessions /\ sessionAt <= MaxSessions
  BY Known DEF LaunchInv, LaunchRanges, LaunchTypeOK
<1>2. CASE ConnectBegins
  BY <1>1, <1>2 DEF ConnectBegins, NothingToWipe, Live, NoSession
<1>3. ASSUME NEW g \in Generations, ConnectStores(g) PROVE NothingToWipe'
  <2>1. g = claimed
    BY <1>3 DEF LaunchInv, NewestOwns, ConnectStores
  <2>2. job'[Connecting(g)].pc # "building"
    BY <1>1, <1>3, TaskFacts DEF ConnectStores, Jobs
  <2> QED
    BY <1>3, <2>1, <2>2 DEF ConnectStores, NothingToWipe, BeingMade, Live, Generations
<1>4. CASE SessionEnds
  <2>1. sessionAt = claimed
    BY <1>4 DEF SessionEnds, LaunchInv, NewestOwns
  <2> QED
    BY <1>1, <1>4, <2>1 DEF SessionEnds, SlotEmptied, NothingToWipe, BeingMade, Live, NoSession
<1>5. CASE Wiped \/ DisconnectWipes
  BY <1>1, <1>5 DEF Wiped, DisconnectWipes, NothingToWipe, BeingMade, Live, NoSession
<1>10. CASE DisconnectTakes
  BY <1>1, <1>10 DEF DisconnectTakes, SlotEmptied, NothingToWipe, BeingMade, Live, NoSession
<1>6. ASSUME NEW t \in LaunchTasks, LaunchStep(t) PROVE NothingToWipe'
  BY <1>6, LaunchesStay, SameSessionKeeps
<1>7. ASSUME NEW g \in Generations,
             \/ TailLaunches(g) \/ TailDefers(g) \/ TailAdopts(g) \/ TailEnds(g)
             \/ SupervisorStep(g)
      PROVE  NothingToWipe'
  BY <1>7, TailsStay, SupervisorsStay, SameSessionKeeps
<1>8. CASE \/ RestartBegins \/ RestartAsks \/ RestartReleases \/ RestartLaunches
           \/ LateHandshake \/ AgentReplaced \/ ChannelBreaks
           \/ \E a \in Agents : AgentGreets(a) \/ AgentSticks(a)
  BY <1>8, RemotesStay, SameSessionKeeps
<1>9. CASE UNCHANGED launchVars
  BY <1>9 DEF launchVars, roomVars, NothingToWipe, BeingMade, Live
<1> QED
  BY <1>2, <1>3, <1>4, <1>5, <1>6, <1>7, <1>8, <1>9, <1>10 DEF LaunchNext

(* A session that is up never works on another connect's automation state, *)
(* and only a disconnect takes the state away from a session that is up or *)
(* being made: no drop of an earlier one does, however late its wipe runs  *)
(* (daemon.rs Daemon::run, where the drop arm checks the generation again).*)
THEOREM SessionsKeepTheirState == LaunchSpec => []OwnState /\ DropsSpareTheState
<1>1. LaunchInit => NothingToWipe
  BY DEF LaunchInit, NothingToWipe, BeingMade, Live, NoSession
<1>2. LaunchInv /\ NothingToWipe /\ [LaunchNext]_launchVars => NothingToWipe'
  BY NothingToWipeKept
<1>3. LaunchInv => OwnState
  BY DEF LaunchInv, NewestOwns, OwnState, Here, Live
<1>4. ASSUME LaunchInv, NothingToWipe, LaunchNext, Live \/ BeingMade, auto.enabled, ~auto'.enabled
      PROVE  DisconnectWipes
  <2>1. ~SameSession
    BY <1>4 DEF SameSession, Steady
  <2>2. ~ConnectBegins
    <3> SUFFICES ASSUME ConnectBegins PROVE auto'.enabled
      BY <1>4
    <3> DEFINE s == Cleaned(auto)
    <3>1. auto' = Initialized(s)
      BY DEF ConnectBegins
    <3>2. "enabled" \in DOMAIN s
      BY <1>4, Known DEF Cleaned, States, LaunchInv
    <3> HIDE DEF s
    <3> QED
      BY <3>1, <3>2 DEF Initialized
  <2>3. \A g \in Generations : ~ConnectStores(g)
    BY <1>4 DEF ConnectStores
  <2>4. ~SessionEnds /\ ~DisconnectTakes
    BY <1>4 DEF SessionEnds, DisconnectTakes
  <2>5. ~Wiped
    BY <1>4 DEF Wiped, NothingToWipe
  <2>6. \A t \in LaunchTasks : ~LaunchStep(t)
    BY <1>4, <2>1, LaunchesStay
  <2>7. \A g \in Generations :
          ~(TailLaunches(g) \/ TailDefers(g) \/ TailAdopts(g) \/ TailEnds(g) \/ SupervisorStep(g))
    BY <1>4, <2>1, TailsStay, SupervisorsStay
  <2>8. ~(\/ RestartBegins \/ RestartAsks \/ RestartReleases \/ RestartLaunches
          \/ LateHandshake \/ AgentReplaced \/ ChannelBreaks
          \/ \E a \in Agents : AgentGreets(a) \/ AgentSticks(a))
    BY <1>4, <2>1, RemotesStay
  <2> QED
    BY <1>4, <2>2, <2>3, <2>4, <2>5, <2>6, <2>7, <2>8 DEF LaunchNext
<1>5. LaunchInv /\ NothingToWipe /\ [LaunchNext]_launchVars =>
        [(Live \/ BeingMade) /\ auto.enabled /\ ~auto'.enabled => DisconnectWipes]_launchVars
  BY <1>4
<1> QED
  BY <1>1, <1>2, <1>3, <1>5, Invariant, PTL DEF LaunchSpec, DropsSpareTheState

(* Win+R goes astray in one way only: a launch that has passed gone()      *)
(* while its own session was up, and types once a connect, a drop or a     *)
(* disconnect has moved the state on.                                      *)
THEOREM StraysOnlyWhenOvertaken == LaunchSpec => StraysWhenOvertaken
<1>1. ASSUME LaunchInv, OwnState, LaunchNext, ~strayed, strayed'
      PROVE  Live /\ \E t \in LaunchTasks : job[t].pc = "settle" /\ ~Ours(t)
  <2>1. ~(\/ ConnectBegins \/ SessionEnds \/ Wiped \/ ChannelBreaks
          \/ DisconnectWipes \/ DisconnectTakes)
    BY <1>1 DEF ConnectBegins, SessionEnds, Wiped, ChannelBreaks, DisconnectWipes, DisconnectTakes
  <2>2. \A a \in Agents : ~(AgentGreets(a) \/ AgentSticks(a))
    BY <1>1 DEF AgentGreets, AgentSticks
  <2>3. \A t \in LaunchTasks, p \in Steps : ~Guard(t, p)
    BY <1>1 DEF Guard
  <2>4. \A g \in Generations :
          ~(ConnectStores(g) \/ TailDefers(g) \/ TailAdopts(g) \/ TailEnds(g))
    BY <1>1 DEF ConnectStores, TailDefers, TailAdopts, TailEnds
  <2>5. \A g \in Generations : ~TailLaunches(g) /\ ~SupervisorLaunches(g)
    BY <2>3, TaskFacts DEF TailLaunches, SupervisorLaunches, Steps
  <2>6. \A g \in Generations : ~SupervisorStep(g)
    BY <1>1, <2>5 DEF SupervisorStep, SupervisorEnds, HearsClose, ArmsOnClose, TickHeard, Probe,
                      ProbeAnswered, ProbeMissed, ProbeMoot, Decides, BudgetRefuses
  <2>7. ~(RestartBegins \/ RestartAsks \/ RestartReleases \/ LateHandshake \/ AgentReplaced)
    BY <1>1 DEF RestartBegins, RestartAsks, RestartReleases, LateHandshake, AgentReplaced
  <2>8. ~RestartLaunches
    BY <2>3, TaskFacts DEF RestartLaunches, Steps
  <2>9. PICK t \in LaunchTasks : LaunchStep(t)
    BY <1>1, <2>1, <2>2, <2>4, <2>5, <2>6, <2>7, <2>8 DEF LaunchNext
  <2>10. Type(t)
    BY <1>1, <2>9 DEF LaunchStep, AdoptsSurvivor, NoSurvivor, Attempt, AgentAppears,
                      NoAgentAppears, Finish, FinishAdopting
  <2>11. Live /\ job[t].pc = "settle" /\ job[t].epoch # Here
    BY <1>1, <2>10 DEF Type
  <2>12. Ours(t) => auto.enabled
    BY <1>1, <2>11 DEF LaunchInv, OneLaunch, Current, Launches, Launching
  <2> QED
    BY <1>1, <2>11, <2>12 DEF OwnState, Ours
<1>2. LaunchInv /\ OwnState /\ [LaunchNext]_launchVars =>
        [~strayed /\ strayed' =>
           Live /\ \E t \in LaunchTasks : job[t].pc = "settle" /\ ~Ours(t)]_launchVars
  BY <1>1
<1> QED
  BY <1>2, Invariant, SessionsKeepTheirState, PTL DEF LaunchSpec, StraysWhenOvertaken

=============================================================================
