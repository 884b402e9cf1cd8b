--------------------------- MODULE DaemonSession ---------------------------
(***************************************************************************)
(* Who owns the daemon's one RDP session: concurrent user connects and     *)
(* disconnects (daemon.rs handle_client, handlers/connect.rs), transport   *)
(* drops and their deferred teardown (the drop arm of Daemon::run), and    *)
(* the automatic reconnect that runs in the teardown's task.               *)
(*                                                                         *)
(* A session is named by the generation its connect claimed.  An actor is  *)
(* a client's handler task or, named by that generation, the task spawned  *)
(* for the drop of a session.  Every action is one critical section or one *)
(* stretch of code with no await in it, taken to happen at its first read  *)
(* of a shared counter; the runtime is multi-threaded, so nothing else     *)
(* orders the actors.  An operator marked "Mutant" is a plausible bug that *)
(* the properties tell from the code; no specification uses it.            *)
(***************************************************************************)
EXTENDS AutoReconnect, Sequences, FiniteSets

CONSTANTS
  Clients,    \* client connections with a handler task each
  MaxGen,     \* bound: connects the counter session_generation counts
  MaxSerial,  \* bound: user requests the counter connect_serial counts
  EventCap    \* capacity of the disconnect channel (8 in the code)

Gens   == 1 .. MaxGen
Actors == Clients \cup Gens

ASSUME BoundsAssumption ==
  /\ MaxGen \in Nat /\ MaxSerial \in Nat /\ EventCap \in Nat \ {0}
  /\ Clients \cap Gens = {}

VARIABLES
  generation,  \* session_generation
  serial,      \* connect_serial
  slot,        \* rdp_session: the session stored, 0 for None
  life,        \* what became of each generation's frame processor
  unsent,      \* processors that stamped drop_reason and have yet to notify
  events,      \* the disconnect channel
  lastDrop,    \* last_disconnect: the drop it records, 0 for None
  auto,        \* auto_reconnect
  lateClear,   \* tasks whose InFlight guard left its release to a spawned task
  ws,          \* ws_handle: the connect that started the stream, 0 for None
  clip,        \* clipboard_changed_rx: the session feeding it, 0 for None
  automation,  \* the connect whose initialize() set `enabled`, 0 if disabled
  pc,          \* where each actor is
  mine,        \* generation claimed by the connect the actor is running
  req,         \* the request that connect serves
  before,      \* disconnect_before
  armSerial,   \* serial_at_arm of each drop's task
  base         \* dropped_generation of each drop's task, re-baselined

countVars    == <<generation, serial>>
sessionVars  == <<slot, life, unsent>>
noticeVars   == <<events, lastDrop>>
autoVars     == <<auto, lateClear>>
resourceVars == <<ws, clip, automation>>
handlerVars  == <<mine, req, before>>
taskVars     == <<armSerial, base>>
vars == <<countVars, sessionVars, noticeVars, autoVars, resourceVars, pc,
          handlerVars, taskVars>>

ConnectSteps == {"takeOld", "clean", "prepare", "rdp", "store", "stream", "bootstrap",
                 "confirm"}
Outcomes     == {"connected", "failed", "rejected"}
ClientSteps  == {"idle", "claim", "clearDrop", "disarm", "stopStream", "dropAutomation",
                 "takeSlot"} \cup ConnectSteps \cup Outcomes
TaskSteps    == {"unborn", "tearSlot", "checkStream", "tearStream", "tearClip",
                 "tearAutomation", "beginOutage", "decide", "publish", "asleep",
                 "standDown", "ready", "claim", "succeeded", "giveUp", "clearDrop", "done"}
                 \cup ConnectSteps \cup Outcomes

Goto(a, from, to) == pc[a] = from /\ pc' = [pc EXCEPT ![a] = to]

(* The locals of a connect go out of scope.                                *)
EndConnect(a) ==
  /\ mine' = [mine EXCEPT ![a] = 0]
  /\ req' = [req EXCEPT ![a] = NoRequest]
  /\ before' = [before EXCEPT ![a] = 0]

Init ==
  /\ generation = 0 /\ serial = 0
  /\ slot = 0 /\ life = [g \in Gens |-> "none"] /\ unsent = {}
  /\ events = <<>> /\ lastDrop = 0
  /\ auto = Default /\ lateClear = {}
  /\ ws = 0 /\ clip = 0 /\ automation = 0
  /\ pc = [a \in Actors |-> IF a \in Clients THEN "idle" ELSE "unborn"]
  /\ mine = [a \in Actors |-> 0]
  /\ req = [a \in Actors |-> NoRequest]
  /\ before = [a \in Actors |-> 0]
  /\ armSerial = [g \in Gens |-> 0] /\ base = [g \in Gens |-> 0]

-----------------------------------------------------------------------------
(* The frame processor, seen from the daemon.                              *)

(* Stop the processors of the sessions in S: gracefully or by abort, which *)
(* may also cut off a notification not yet accepted by a full channel.     *)
Kill(S) ==
  /\ life' = [g \in Gens |-> IF g \in S /\ life[g] = "live" THEN "closed" ELSE life[g]]
  /\ unsent' \in {unsent, unsent \ S}

(* A processor stops without being asked to: it stamps drop_reason ...     *)
SessionDrops(g) ==
  /\ life[g] = "live"
  /\ life' = [life EXCEPT ![g] = "dropped"]
  /\ unsent' = unsent \cup {g}
  /\ UNCHANGED <<countVars, slot, noticeVars, autoVars, resourceVars, pc, handlerVars,
                 taskVars>>

(* Mutant: a notification that finds the channel full is lost.             *)
SendOrLose(g) ==
  /\ g \in unsent
  /\ events' = IF Len(events) < EventCap THEN Append(events, g) ELSE events
  /\ unsent' = unsent \ {g}
  /\ UNCHANGED <<countVars, slot, life, lastDrop, autoVars, resourceVars, pc,
                 handlerVars, taskVars>>

(* Mutant: the channel takes a notification more than it has room for.     *)
SendUnbounded(g) ==
  /\ g \in unsent
  /\ events' = Append(events, g)
  /\ unsent' = unsent \ {g}
  /\ UNCHANGED <<countVars, slot, life, lastDrop, autoVars, resourceVars, pc,
                 handlerVars, taskVars>>

(* ... and only then notifies, waiting for room in the channel.            *)
SendNotification(g) ==
  /\ g \in unsent /\ Len(events) < EventCap
  /\ events' = Append(events, g)
  /\ unsent' = unsent \ {g}
  /\ UNCHANGED <<countVars, slot, life, lastDrop, autoVars, resourceVars, pc,
                 handlerVars, taskVars>>

-----------------------------------------------------------------------------
(* handle_client: every connect, disconnect and shutdown moves the serial  *)
(* before it does anything else.                                           *)

(* Bound: every actor about to claim a generation finds one.               *)
Room == generation + Cardinality({a \in Actors : pc[a] = "claim"}) < MaxGen

UserConnect(c, r) ==
  /\ Room /\ serial < MaxSerial
  /\ Goto(c, "idle", "claim")
  /\ serial' = serial + 1
  /\ before' = [before EXCEPT ![c] = lastDrop]
  /\ req' = [req EXCEPT ![c] = r]
  /\ UNCHANGED <<generation, sessionVars, noticeVars, autoVars, resourceVars, mine,
                 taskVars>>

(* validate_connect_request refuses it: only the serial has moved.         *)
UserConnectInvalid(c) ==
  /\ serial < MaxSerial /\ pc[c] = "idle"
  /\ serial' = serial + 1
  /\ UNCHANGED <<generation, sessionVars, noticeVars, autoVars, resourceVars, pc,
                 handlerVars, taskVars>>

UserDisconnect(c) ==
  /\ serial < MaxSerial
  /\ Goto(c, "idle", "disarm")
  /\ serial' = serial + 1
  /\ UNCHANGED <<generation, sessionVars, noticeVars, autoVars, resourceVars,
                 handlerVars, taskVars>>

DisarmStep(c) ==
  /\ Goto(c, "disarm", "stopStream")
  /\ auto' = Disarm(auto)
  /\ UNCHANGED <<countVars, sessionVars, noticeVars, lateClear, resourceVars,
                 handlerVars, taskVars>>

(* handle_disconnect stops the stream but leaves the clipboard receiver.   *)
DisconnectStream(c) ==
  /\ Goto(c, "stopStream", "dropAutomation")
  /\ ws' = 0
  /\ UNCHANGED <<countVars, sessionVars, noticeVars, autoVars, clip, automation,
                 handlerVars, taskVars>>

DisconnectAutomation(c) ==
  /\ Goto(c, "dropAutomation", "takeSlot")
  /\ automation' = 0
  /\ UNCHANGED <<countVars, sessionVars, noticeVars, autoVars, ws, clip, handlerVars,
                 taskVars>>

(* Mutant: the session is stopped, and left in the slot.                   *)
DisconnectInPlace(c) ==
  /\ Goto(c, "takeSlot", "idle")
  /\ Kill({slot})
  /\ UNCHANGED <<countVars, slot, noticeVars, autoVars, resourceVars, handlerVars, taskVars>>

DisconnectSlot(c) ==
  /\ Goto(c, "takeSlot", "idle")
  /\ slot' = 0
  /\ Kill({slot})
  /\ UNCHANGED <<countVars, noticeVars, autoVars, resourceVars, handlerVars, taskVars>>

-----------------------------------------------------------------------------
(* connect::handle, run by a client's handler or by a drop's task.         *)

ClaimGeneration(a) ==
  /\ generation < MaxGen
  /\ Goto(a, "claim", "takeOld")
  /\ generation' = generation + 1
  /\ mine' = [mine EXCEPT ![a] = generation + 1]
  /\ UNCHANGED <<serial, sessionVars, noticeVars, autoVars, resourceVars, req, before,
                 taskVars>>

(* Mutant: the session taken from the slot is left running.                *)
TakeOldAndLeak(a) ==
  /\ Goto(a, "takeOld", "clean")
  /\ slot' = 0
  /\ UNCHANGED <<countVars, life, unsent, noticeVars, autoVars, resourceVars,
                 handlerVars, taskVars>>

TakeOld(a) ==
  /\ Goto(a, "takeOld", "clean")
  /\ slot' = 0
  /\ Kill({slot})
  /\ UNCHANGED <<countVars, noticeVars, autoVars, resourceVars, handlerVars, taskVars>>

CleanAutomation(a) ==
  /\ Goto(a, "clean", IF req[a].automation THEN "prepare" ELSE "rdp")
  /\ automation' = 0
  /\ UNCHANGED <<countVars, sessionVars, noticeVars, autoVars, ws, clip, handlerVars,
                 taskVars>>

(* initialize() may fail twice; the connect then goes on without an agent. *)
PrepareAutomation(a) ==
  /\ Goto(a, "prepare", "rdp")
  /\ automation' \in {automation, mine[a]}
  /\ UNCHANGED <<countVars, sessionVars, noticeVars, autoVars, ws, clip, handlerVars,
                 taskVars>>

(* RdpSession::connect: no lock is held, and it takes as long as it takes. *)
RdpConnect(a) ==
  /\ Goto(a, "rdp", "store")
  /\ life' = [life EXCEPT ![mine[a]] = "live"]
  /\ UNCHANGED <<countVars, slot, unsent, noticeVars, autoVars, resourceVars,
                 handlerVars, taskVars>>

RdpConnectFails(a) ==
  /\ \E outcome \in {"failed", "rejected"} : Goto(a, "rdp", outcome)
  /\ UNCHANGED <<countVars, sessionVars, noticeVars, autoVars, resourceVars,
                 handlerVars, taskVars>>

(* Mutant: drop_reason is not checked under the slot lock.                 *)
StoreUnchecked(a) ==
  /\ Goto(a, "store", "stream")
  /\ slot' = mine[a]
  /\ Kill({slot})
  /\ UNCHANGED <<countVars, noticeVars, autoVars, resourceVars, handlerVars, taskVars>>

(* Under the slot lock: refuse a session already dead, else store it - in  *)
(* place of whatever is there, whose Drop aborts it.                       *)
StoreSession(a) ==
  /\ Goto(a, "store", "stream")
  /\ life[mine[a]] # "dropped"
  /\ slot' = mine[a]
  /\ Kill({slot})
  /\ UNCHANGED <<countVars, noticeVars, autoVars, resourceVars, handlerVars, taskVars>>

RefuseDeadSession(a) ==
  /\ Goto(a, "store", "failed")
  /\ life[mine[a]] = "dropped"
  /\ Kill({mine[a]})
  /\ UNCHANGED <<countVars, slot, noticeVars, autoVars, resourceVars, handlerVars,
                 taskVars>>

(* The stream is started at most once, and its clipboard wired to whatever *)
(* session the slot holds by then.                                         *)
StartStream(a) ==
  /\ Goto(a, "stream", "bootstrap")
  /\ \/ /\ req[a].stream /\ ws = 0
        /\ ws' = mine[a]
        /\ clip' = IF slot # 0 THEN slot ELSE clip
     \/ UNCHANGED <<ws, clip>>        \* not asked for, already running, or no start
  /\ UNCHANGED <<countVars, sessionVars, noticeVars, autoVars, automation, handlerVars,
                 taskVars>>

(* The automation bootstrap takes minutes; afterwards the probe is read.   *)
ProbeDrop(a) ==
  /\ Goto(a, "bootstrap", IF life[mine[a]] = "dropped" THEN "failed" ELSE "confirm")
  /\ UNCHANGED <<countVars, sessionVars, noticeVars, autoVars, resourceVars,
                 handlerVars, taskVars>>

ConfirmSlot(a) ==
  /\ Goto(a, "confirm", IF slot = mine[a] THEN "connected" ELSE "failed")
  /\ UNCHANGED <<countVars, sessionVars, noticeVars, autoVars, resourceVars,
                 handlerVars, taskVars>>

(* What a client's handler does with the outcome.                          *)
RememberRequest(c) ==
  /\ Goto(c, "connected", "clearDrop")
  /\ auto' = Remember(req[c])
  /\ UNCHANGED <<countVars, sessionVars, noticeVars, lateClear, resourceVars,
                 handlerVars, taskVars>>

(* Mutant: a connect that succeeded forgets any drop.                      *)
ForgetAnyDrop(a) ==
  /\ Goto(a, "clearDrop", IF a \in Clients THEN "idle" ELSE "done")
  /\ lastDrop' = 0
  /\ EndConnect(a)
  /\ UNCHANGED <<countVars, sessionVars, events, autoVars, resourceVars, taskVars>>

(* Forget the drop this connect recovered from, and only that one.         *)
ForgetDrop(a) ==
  /\ Goto(a, "clearDrop", IF a \in Clients THEN "idle" ELSE "done")
  /\ lastDrop' = IF lastDrop = before[a] THEN 0 ELSE lastDrop
  /\ EndConnect(a)
  /\ UNCHANGED <<countVars, sessionVars, events, autoVars, resourceVars, taskVars>>

ReportFailure(c) ==
  /\ \E outcome \in {"failed", "rejected"} : Goto(c, outcome, "idle")
  /\ EndConnect(c)
  /\ UNCHANGED <<countVars, sessionVars, noticeVars, autoVars, resourceVars, taskVars>>

-----------------------------------------------------------------------------
(* The drop arm of Daemon::run, and the task it spawns.                    *)

IgnoreStaleDrop ==
  /\ events # <<>> /\ Head(events) # generation
  /\ events' = Tail(events)
  /\ UNCHANGED <<countVars, sessionVars, lastDrop, autoVars, resourceVars, pc,
                 handlerVars, taskVars>>

HandleDrop(g) ==
  /\ events # <<>> /\ Head(events) = g /\ g = generation
  /\ events' = Tail(events)
  /\ Goto(g, "unborn", "tearSlot")
  /\ lastDrop' = g
  /\ armSerial' = [armSerial EXCEPT ![g] = serial]
  /\ base' = [base EXCEPT ![g] = g]
  /\ UNCHANGED <<countVars, sessionVars, autoVars, resourceVars, handlerVars>>

(* Mutant: the teardown does not look whether a newer connect has begun.   *)
NeverSuperseded(g) == g = 0

Superseded(g) == generation # g

TearSlot(g) ==
  \/ /\ Superseded(g)
     /\ Goto(g, "tearSlot", "done")
     /\ UNCHANGED <<countVars, sessionVars, noticeVars, autoVars, resourceVars,
                    handlerVars, taskVars>>
  \/ /\ ~Superseded(g)
     /\ Goto(g, "tearSlot", "checkStream")
     /\ slot' = 0
     /\ Kill({slot})
     /\ UNCHANGED <<countVars, noticeVars, autoVars, resourceVars, handlerVars, taskVars>>

(* Read before, not under, the two locks that follow.                      *)
CheckStream(g) ==
  /\ Goto(g, "checkStream", IF Superseded(g) THEN "done" ELSE "tearStream")
  /\ UNCHANGED <<countVars, sessionVars, noticeVars, autoVars, resourceVars,
                 handlerVars, taskVars>>

TearStream(g) ==
  /\ Goto(g, "tearStream", "tearClip")
  /\ ws' = 0
  /\ UNCHANGED <<countVars, sessionVars, noticeVars, autoVars, clip, automation,
                 handlerVars, taskVars>>

TearClip(g) ==
  /\ Goto(g, "tearClip", "tearAutomation")
  /\ clip' = 0
  /\ UNCHANGED <<countVars, sessionVars, noticeVars, autoVars, ws, automation,
                 handlerVars, taskVars>>

TearAutomation(g) ==
  /\ Goto(g, "tearAutomation", IF Superseded(g) THEN "done" ELSE "beginOutage")
  /\ automation' = IF Superseded(g) THEN automation ELSE 0
  /\ UNCHANGED <<countVars, sessionVars, noticeVars, autoVars, ws, clip, handlerVars,
                 taskVars>>

-----------------------------------------------------------------------------
(* reconnect_loop, in the same task.                                       *)

SameOutage(g) == generation = base[g] /\ serial = armSerial[g]

BeginOutage(g) ==
  \/ /\ ~auto.enabled
     /\ Goto(g, "beginOutage", "done")
     /\ UNCHANGED auto
  \/ /\ auto.enabled
     /\ \E short \in {FALSE, auto.reconnected} :
          /\ auto' = NoteOutage(auto, short)
          /\ Goto(g, "beginOutage", IF WorthRetrying(auto, short) THEN "decide" ELSE "done")

BeginOutageStep(g) ==
  /\ BeginOutage(g)
  /\ UNCHANGED <<countVars, sessionVars, noticeVars, lateClear, resourceVars,
                 handlerVars, taskVars>>

(* A loop refused because an attempt runs leaves that attempt's schedule.  *)
Verdict(g, proceed) ==
  IF ShouldAttempt(auto, SameOutage(g)) THEN proceed
  ELSE IF auto.inFlight THEN "done" ELSE "standDown"

Decide(g) ==
  /\ Goto(g, "decide", Verdict(g, "publish"))
  /\ req' = [req EXCEPT ![g] = auto.request]
  /\ UNCHANGED <<countVars, sessionVars, noticeVars, autoVars, resourceVars, mine,
                 before, taskVars>>

Publish(g) ==
  /\ Goto(g, "publish", "asleep")
  /\ auto' = [auto EXCEPT !.scheduled = TRUE]
  /\ UNCHANGED <<countVars, sessionVars, noticeVars, lateClear, resourceVars,
                 handlerVars, taskVars>>

(* The backoff is over: every guard is read again.                         *)
Wake(g) ==
  /\ Goto(g, "asleep", Verdict(g, "ready"))
  /\ UNCHANGED <<countVars, sessionVars, noticeVars, autoVars, resourceVars,
                 handlerVars, taskVars>>

StandDownStep(g) ==
  /\ Goto(g, "standDown", "done")
  /\ auto' = StandDown(auto)
  /\ UNCHANGED <<countVars, sessionVars, noticeVars, lateClear, resourceVars,
                 handlerVars, taskVars>>

ClaimInFlight(g) ==
  /\ Room
  /\ Goto(g, "ready", "claim")
  /\ before' = [before EXCEPT ![g] = lastDrop]
  /\ auto' = [auto EXCEPT !.inFlight = TRUE]
  /\ UNCHANGED <<countVars, sessionVars, noticeVars, lateClear, resourceVars, mine, req,
                 taskVars>>

(* Mutant: a release that finds the lock taken is given up.                *)
ReleaseIfFree(g) ==
  /\ auto' \in {auto, [auto EXCEPT !.inFlight = FALSE]}
  /\ lateClear' = lateClear \ {g}

(* InFlight::drop: release now if the lock is free, else from a new task.  *)
ReleaseInFlight(g) ==
  \/ auto' = [auto EXCEPT !.inFlight = FALSE] /\ UNCHANGED lateClear
  \/ lateClear' = lateClear \cup {g} /\ UNCHANGED auto

LateClear(g) ==
  /\ g \in lateClear
  /\ lateClear' = lateClear \ {g}
  /\ auto' = [auto EXCEPT !.inFlight = FALSE]
  /\ UNCHANGED <<countVars, sessionVars, noticeVars, resourceVars, pc, handlerVars,
                 taskVars>>

AfterAttempt == [connected |-> "succeeded", failed |-> "decide", rejected |-> "giveUp"]

EndAttempt(g) ==
  /\ \E outcome \in Outcomes :
       /\ Goto(g, outcome, AfterAttempt[outcome])
       /\ IF outcome = "connected" THEN UNCHANGED handlerVars ELSE EndConnect(g)
  /\ base' = [base EXCEPT ![g] = generation]
  /\ ReleaseInFlight(g)
  /\ UNCHANGED <<countVars, sessionVars, noticeVars, resourceVars, armSerial>>

NoteReconnected(g) ==
  /\ Goto(g, "succeeded", "clearDrop")
  /\ auto' = NoteSuccess(auto)
  /\ UNCHANGED <<countVars, sessionVars, noticeVars, lateClear, resourceVars,
                 handlerVars, taskVars>>

GiveUp(g) ==
  /\ Goto(g, "giveUp", "done")
  /\ auto' = Stop(auto)
  /\ UNCHANGED <<countVars, sessionVars, noticeVars, lateClear, resourceVars,
                 handlerVars, taskVars>>

(* connect::handle unwinds - anywhere but between claiming a generation and*)
(* taking the old session, where nothing runs that could.  A client's      *)
(* connection just ends; an attempt's guard releases the flag.  A session  *)
(* not yet stored is dropped with it.                                      *)
ConnectPanics(a) ==
  /\ \E step \in ConnectSteps \ {"takeOld"} : Goto(a, step, IF a \in Clients THEN "idle" ELSE "done")
  /\ IF pc[a] = "store" THEN Kill({mine[a]}) ELSE UNCHANGED <<life, unsent>>
  /\ IF a \in Clients THEN UNCHANGED autoVars ELSE ReleaseInFlight(a)
  /\ EndConnect(a)
  /\ UNCHANGED <<countVars, slot, noticeVars, resourceVars, taskVars>>

-----------------------------------------------------------------------------
ConnectStep(a) ==
  \/ ClaimGeneration(a) \/ TakeOld(a) \/ CleanAutomation(a) \/ PrepareAutomation(a)
  \/ RdpConnect(a) \/ RdpConnectFails(a) \/ StoreSession(a) \/ RefuseDeadSession(a)
  \/ StartStream(a) \/ ProbeDrop(a) \/ ConfirmSlot(a) \/ ForgetDrop(a)

ClientStep(c) ==
  \/ DisarmStep(c) \/ DisconnectStream(c) \/ DisconnectAutomation(c) \/ DisconnectSlot(c)
  \/ RememberRequest(c) \/ ReportFailure(c)

UserStep(c) ==
  \/ \E r \in Requests : UserConnect(c, r)
  \/ UserConnectInvalid(c)
  \/ UserDisconnect(c)

TaskStep(g) ==
  \/ TearSlot(g) \/ CheckStream(g) \/ TearStream(g) \/ TearClip(g) \/ TearAutomation(g)
  \/ BeginOutageStep(g) \/ Decide(g) \/ Publish(g) \/ Wake(g) \/ StandDownStep(g)
  \/ ClaimInFlight(g) \/ EndAttempt(g) \/ NoteReconnected(g) \/ GiveUp(g)

Steps ==
  \/ \E c \in Clients : UserStep(c) \/ ClientStep(c)
  \/ \E a \in Actors : ConnectStep(a)
  \/ \E g \in Gens : SessionDrops(g) \/ SendNotification(g) \/ HandleDrop(g) \/ TaskStep(g)
                    \/ LateClear(g)
  \/ IgnoreStaleDrop

Next == Steps \/ \E a \in Actors : ConnectPanics(a)

Spec == Init /\ [][Next]_vars

(* The runtime keeps polling every spawned task, every await in them is    *)
(* bounded except the RDP handshake, and the daemon's select loop keeps    *)
(* serving its channel.  RdpSession::connect waits for its host without a  *)
(* timeout and neither connect.rs nor daemon.rs puts one around it: an     *)
(* actor at "rdp" may stay there for ever.  Nobody promises that users     *)
(* ask, servers drop or code panics.                                       *)
Fairness ==
  /\ \A c \in Clients : WF_vars(pc[c] # "rdp" /\ (ConnectStep(c) \/ ClientStep(c)))
  /\ \A g \in Gens : WF_vars(pc[g] # "rdp" /\ (ConnectStep(g) \/ TaskStep(g)))
  /\ WF_vars(\E g \in Gens : LateClear(g))
  /\ WF_vars((\E g \in Gens : SendNotification(g) \/ HandleDrop(g)) \/ IgnoreStaleDrop)

(* What a host that answers adds: every handshake ends, one way or the     *)
(* other.                                                                  *)
HandshakesEnd == \A a \in Actors : WF_vars(RdpConnect(a) \/ RdpConnectFails(a))

FairSpec == Spec /\ Fairness

-----------------------------------------------------------------------------
(* The values every variable ranges over.                                  *)
TypeOK ==
  /\ generation \in 0 .. MaxGen /\ serial \in 0 .. MaxSerial
  /\ slot \in 0 .. MaxGen
  /\ life \in [Gens -> {"none", "live", "dropped", "closed"}]
  /\ unsent \subseteq Gens
  /\ events \in Seq(Gens) /\ Len(events) <= EventCap
  /\ lastDrop \in 0 .. MaxGen
  /\ auto \in AutoReconnectState
  /\ lateClear \subseteq Gens
  /\ ws \in 0 .. MaxGen /\ clip \in 0 .. MaxGen /\ automation \in 0 .. MaxGen
  /\ pc \in [Actors -> ClientSteps \cup TaskSteps]
  /\ \A c \in Clients : pc[c] \in ClientSteps
  /\ \A g \in Gens : pc[g] \in TaskSteps
  /\ mine \in [Actors -> 0 .. MaxGen]
  /\ req \in [Actors -> Requests \cup {NoRequest}]
  /\ before \in [Actors -> 0 .. MaxGen]
  /\ armSerial \in [Gens -> 0 .. MaxSerial]
  /\ base \in [Gens -> 0 .. MaxGen]

(* No RDP connection is leaked: a live frame processor belongs to the      *)
(* session in the slot or to a connect that is about to store it, however  *)
(* connects, disconnects, drops and panics overlap.  (connect::handle must *)
(* stop what it replaces, Drop for RdpSession what it overwrites.)         *)
NoOrphanSession ==
  \A g \in Gens : life[g] = "live" =>
    slot = g \/ \E a \in Actors : mine[a] = g /\ pc[a] = "store"

(* The drop of the newest session is never missed: while the slot holds it *)
(* dead, its notice is still to be sent, queued, or being acted on - the   *)
(* gap that checking drop_reason under the slot lock closes.               *)
OnItsWay(g) ==
  g \in unsent \/ (\E i \in 1 .. Len(events) : events[i] = g) \/ pc[g] = "tearSlot"

CurrentDropIsHandled ==
  \A g \in Gens : slot = g /\ g = generation /\ life[g] = "dropped" => OnItsWay(g)

(* The evidence of a drop survives until a newer connect starts: no        *)
(* connect that was already running when the session died may clear it,    *)
(* so "not connected" can always say why (daemon.rs, last_disconnect).     *)
DropEvidenceKept ==
  \A g \in Gens : pc[g] # "unborn" /\ g = generation => lastDrop = g

(* Every session lives as SessionLife says - started once, dropped with a  *)
(* notice, closed or robbed of its notice only when its owner gives it up  *)
(* - which is what FrameProcessor keeps its side of.                       *)
Given(g) ==
  life[g] # "none" /\ slot # g /\ ~\E a \in Actors : mine[a] = g /\ pc[a] = "store"

Session(g) == INSTANCE SessionLife
  WITH life <- life[g], owes <- g \in unsent, given <- Given(g)

SessionsKeepPromise ==
  /\ \A g \in Gens : Session(g)!Init
  /\ [][\A g \in Gens : [Session(g)!Next]_(Session(g)!vars)]_vars

(* A teardown touches neither the slot nor the automation state of a newer *)
(* connect than the one that dropped, although it runs on its own task and *)
(* a connect can slip in before any of its steps.                          *)
TeardownSparesNewer ==
  \A g \in Gens :
    /\ pc[g] = "tearSlot" /\ pc'[g] = "checkStream" => slot <= g
    /\ pc[g] = "tearAutomation" /\ pc'[g] = "beginOutage" => automation <= g

TeardownSparesNewerAlways == [][TeardownSparesNewer]_vars

-----------------------------------------------------------------------------
(* The slot is freed of a dead session, unless a newer connect has claimed *)
(* the next generation and will replace it (daemon.rs, the drop arm).      *)
DeadSessionLeaves ==
  \A g \in Gens :
    (slot = g /\ life[g] = "dropped" /\ generation = g) ~> (slot # g)

(* The in-flight flag outlives its attempt for a while only: a panic, a    *)
(* contended release or an overlapping attempt delays it (reconnect.rs,    *)
(* InFlight).  It is stuck only behind an automatic attempt whose host     *)
(* never ends the handshake, the one wait of an attempt that no timeout    *)
(* bounds.                                                                 *)
Hangs(a) == <>[](pc[a] = "rdp")

InFlightReleased == (auto.inFlight ~> ~auto.inFlight) \/ \E g \in Gens : Hangs(g)

(* No dead session is stored that nothing will ever remove: its drop is    *)
(* still on its way, or a newer connect has yet to take or overwrite it.   *)
(* connect.rs claims that checking drop_reason under the slot lock closes  *)
(* that gap, and daemon.rs that session_generation names the session in    *)
(* the slot.                                                               *)
WillReplace(a, g) ==
  mine[a] > g /\ pc[a] \in {"takeOld", "clean", "prepare", "rdp", "store"}

NoForgottenDeadSession ==
  \A g \in Gens : slot = g /\ life[g] = "dropped" =>
    OnItsWay(g) \/ \E a \in Actors : WillReplace(a, g)

(* A session closed on purpose does not come back by itself: an automatic  *)
(* attempt stores no session once a disconnect has forgotten the           *)
(* credentials (daemon.rs, handle_client).                                 *)
ClosedStaysClosed ==
  [][\A g \in Gens : pc[g] = "store" /\ pc'[g] = "stream" => auto.enabled]_vars

(* What does hold of a session closed on purpose: with the slot empty, the *)
(* credentials forgotten and no connect past its last check, everything    *)
(* stays so until a user connects, whatever tasks of earlier drops still   *)
(* sleep or stand down (daemon.rs handle_client, reconnect_loop).          *)
PastChecks == {"ready", "claim", "takeOld", "clean", "prepare", "rdp", "store"}

Disconnected ==
  /\ slot = 0 /\ ~auto.enabled
  /\ \A a \in Actors : pc[a] \notin PastChecks
  /\ \A c \in Clients : pc[c] # "connected"

UserConnects == \E c \in Clients : pc[c] = "idle" /\ pc'[c] = "claim"

DisconnectedStays == [][Disconnected /\ ~UserConnects => Disconnected']_vars

(* The stream of a newer connect is never torn down by an older drop (the  *)
(* comment in the drop arm of daemon.rs).                                  *)
TeardownSparesNewerStream ==
  [][\A g \in Gens : pc[g] = "tearStream" /\ pc'[g] = "tearClip" => ws <= g]_vars

(* reconnect_loop, from the moment it accepts an outage, runs until it     *)
(* succeeds, until the operator intervenes, or until it decides no further *)
(* attempt can help - or until the bound on connects is reached.           *)
OutageOver(g) ==
  \/ slot # 0 /\ life[slot] = "live"
  \/ serial # armSerial[g]
  \/ ~auto.enabled \/ auto.stopped
  \/ ~Room

OutageEnds ==
  \A g \in Gens : (pc[g] = "decide" /\ ~OutageOver(g)) ~> OutageOver(g)
=============================================================================
