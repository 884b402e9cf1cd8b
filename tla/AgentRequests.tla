--------------------------- MODULE AgentRequests ---------------------------
(***************************************************************************)
(* An automation request on its way to the PowerShell agent and back: the  *)
(* callers' tasks (handlers/automate.rs, automation/dvc_ipc.rs), the       *)
(* channel state they share with the frame processor (dvc_channel.rs), the *)
(* agents on the remote desktop with their channels, and the journal that  *)
(* lets a lost answer be asked for again (agent.ps1, actions.ps1).         *)
(*                                                                         *)
(* Every action is one critical section of the channel state's lock, one   *)
(* message handled by the frame processor, or one turn of an agent's loop. *)
(* process() takes the lock more than once, but only it and close() write  *)
(* what it reads in between, apart from a release of the primary.          *)
(***************************************************************************)
EXTENDS Naturals, Sequences, FiniteSets

CONSTANTS
  Callers,       \* client tasks with an automation request
  Instances,     \* agent processes, each with its instance id
  Stale,         \* those of them that run other scripts than the daemon's
  Requests,      \* what may be asked: records [key, cmd]; not query_result or
                 \* shutdown, which are not looked up when their answer is lost
  NoKey,         \* the key of a request that has none
  NoCaller,      \* nobody
  MaxRequests,   \* bound: requests asked
  MaxChannels,   \* bound: channels opened
  MaxStops,      \* bound: times the daemon asks the agent to exit
  Attempts,      \* QUERY_RESULT_ATTEMPTS (3 in the code)
  JournalLimit,  \* results an agent keeps in memory (64 in the code)
  EvictedLimit   \* evicted ids it remembers (1024 in the code)

Numbers  == 1 .. MaxRequests
Channels == 1 .. MaxChannels
None     == 0  \* no channel, no request

ASSUME LimitsAssumption ==
  /\ Attempts \in Nat \ {0} /\ JournalLimit \in Nat \ {0} /\ EvictedLimit \in Nat
  /\ Stale \subseteq Instances /\ NoCaller \notin Callers \cup Instances
  /\ MaxRequests \in Nat /\ MaxChannels \in Nat /\ MaxStops \in Nat
  /\ \A r \in Requests : r.cmd \notin {"query_result", "shutdown"}

VARIABLES
  primary,    \* channel_id
  extras,     \* extras
  handshake,  \* the agent whose handshake is stored, NoCaller for None
  pending,    \* pending: which caller waits for each id
  stopping,   \* the channel stop_running_agent is waiting on, and how many times it ran
  chan,       \* the dynamic channels: who opened each, and what travels on it
  alive,      \* agents that run on the remote desktop
  at,         \* the channel each agent holds
  doing,      \* the message each agent is executing
  journal,    \* ResultJournal with its order, per agent
  evicted,    \* EvictedIds with its order, per agent
  pruned,     \* EvictedJournalFiles, per agent
  disk,       \* the journal's disk tier
  asks,       \* the requests asked so far
  told,       \* what their callers were told
  pc,         \* where each caller is
  my,         \* the request it serves, the lookup it is at, who received it
  reply,      \* its oneshot channel
  ran,        \* requests whose command took effect
  runs,       \* how often the command of each key took effect
  excused     \* keys whose record was lost for a reason the code accepts

dvcVars     == <<primary, extras, handshake, pending, stopping>>
journalVars == <<journal, evicted, pruned, disk>>
agentVars   == <<alive, at, doing, journalVars>>
callerVars  == <<asks, told, pc, my, reply>>
ghostVars   == <<ran, runs, excused>>
requestVars == <<dvcVars, chan, agentVars, callerVars, ghostVars>>

Keys == {r.key : r \in Requests} \ {NoKey}

-----------------------------------------------------------------------------
(* Ids and messages.                                                       *)

(* A keyed run uses its key as the id; everything else gets a fresh one.   *)
Id(n, attempt) ==
  IF attempt = 0 /\ asks[n].key # NoKey
  THEN [key |-> asks[n].key, n |-> None, attempt |-> 0]
  ELSE [key |-> NoKey, n |-> n, attempt |-> attempt]

ShutdownId == [key |-> NoKey, n |-> None, attempt |-> 0]

Message(n, attempt) ==
  [id |-> Id(n, attempt), n |-> n,
   cmd |-> IF attempt = 0 THEN asks[n].cmd ELSE "query_result"]

ShutdownRequest == [id |-> ShutdownId, n |-> None, cmd |-> "shutdown"]
NoMessage       == [id |-> ShutdownId, n |-> None, cmd |-> "none"]

Greeting       == [type |-> "handshake"]
Closing        == [type |-> "close"]
Answer(id, r)  == [type |-> "response", id |-> id, reply |-> r]

Reply(v, a) == [verdict |-> v, by |-> a]
NoReply     == Reply("none", NoCaller)
Gone        == Reply("gone", NoCaller)     \* the sender was dropped
Closed      == Reply("closed", NoCaller)   \* the channel_closed failure

Idle == [n |-> None, attempt |-> 0, sentTo |-> NoCaller]

RequestsInit ==
  /\ primary = None /\ extras = {} /\ handshake = NoCaller
  /\ pending = <<>> /\ stopping = [channel |-> None, count |-> 0]
  /\ chan = [h \in Channels |-> [agent |-> NoCaller, down |-> <<>>, up |-> <<>>]]
  /\ alive \in SUBSET Instances
  /\ at = [a \in Instances |-> None]
  /\ doing = [a \in Instances |-> NoMessage]
  /\ journal = [a \in Instances |-> <<>>]
  /\ evicted = [a \in Instances |-> <<>>]
  /\ pruned = [a \in Instances |-> {}]
  /\ disk = {}
  /\ asks = <<>> /\ told = [n \in Numbers |-> "unasked"]
  /\ pc = [c \in Callers |-> "idle"]
  /\ my = [c \in Callers |-> Idle]
  /\ reply = [c \in Callers |-> NoReply]
  /\ ran = {} /\ runs = [k \in Keys |-> 0] /\ excused = {}

-----------------------------------------------------------------------------
(* A caller's task.                                                        *)

Ready == handshake # NoCaller /\ primary # None

(* handle: the agent was ready when the request came; the lock is let go   *)
(* before the request is sent.                                             *)
Ask(c, r) ==
  /\ pc[c] = "idle" /\ Len(asks) < MaxRequests /\ Ready
  /\ asks' = Append(asks, r)
  /\ told' = [told EXCEPT ![Len(asks) + 1] = "asked"]
  /\ my' = [my EXCEPT ![c] = [Idle EXCEPT !.n = Len(asks) + 1]]
  /\ pc' = [pc EXCEPT ![c] = "ready"]
  /\ UNCHANGED <<dvcVars, chan, agentVars, reply, ghostVars>>

Tell(c, answer) ==
  /\ told' = [told EXCEPT ![my[c].n] = answer]
  /\ pc' = [pc EXCEPT ![c] = "idle"]
  /\ my' = [my EXCEPT ![c] = Idle]

(* The next lookup, or the end of the ladder.                              *)
NextLookup(c) ==
  IF my[c].attempt < Attempts
  THEN /\ my' = [my EXCEPT ![c].attempt = @ + 1]
       /\ pc' = [pc EXCEPT ![c] = "ready"]
       /\ UNCHANGED told
  ELSE Tell(c, "unknown")

MyId(c) == Id(my[c].n, my[c].attempt)

Deliverable(h) == \E a \in alive : at[a] = h

(* Mutant: a second request with a key in flight takes its waiter over.    *)
SendAnyway(c) ==
  /\ pc[c] = "ready" /\ primary # None
  /\ chan' = IF Deliverable(primary)
             THEN [chan EXCEPT ![primary].down = Append(@, Message(my[c].n, my[c].attempt))]
             ELSE chan
  /\ pending' = [id \in DOMAIN pending \cup {MyId(c)} |->
                   IF id = MyId(c) THEN c ELSE pending[id]]
  /\ my' = IF my[c].attempt = 0 THEN [my EXCEPT ![c].sentTo = handshake] ELSE my
  /\ pc' = [pc EXCEPT ![c] = "waiting"]
  /\ UNCHANGED <<primary, extras, handshake, stopping, agentVars, asks, told, reply, ghostVars>>

(* send_request_inner: the message is handed over and the waiter entered   *)
(* under one lock, with the instance that receives it.  A message to an    *)
(* agent that has left its channel goes nowhere.                           *)
Send(c) ==
  /\ pc[c] = "ready" /\ primary # None /\ MyId(c) \notin DOMAIN pending
  /\ chan' = IF Deliverable(primary)
             THEN [chan EXCEPT ![primary].down = Append(@, Message(my[c].n, my[c].attempt))]
             ELSE chan
  /\ pending' = [id \in DOMAIN pending \cup {MyId(c)} |->
                   IF id = MyId(c) THEN c ELSE pending[id]]
  /\ my' = IF my[c].attempt = 0 THEN [my EXCEPT ![c].sentTo = handshake] ELSE my
  /\ pc' = [pc EXCEPT ![c] = "waiting"]
  /\ UNCHANGED <<primary, extras, handshake, stopping, agentVars, asks, told, reply, ghostVars>>

(* The channel is closed, or a request with the same key is in flight.     *)
SendRefused(c) ==
  /\ pc[c] = "ready" /\ (primary = None \/ MyId(c) \in DOMAIN pending)
  /\ IF my[c].attempt = 0 THEN Tell(c, "notSent") ELSE NextLookup(c)
  /\ UNCHANGED <<dvcVars, chan, agentVars, asks, reply, ghostVars>>

(* Mutant: no record always means it never ran.                            *)
UnknownIdSafe(c, r) == "neverRan"

(* An unknown id means the request never arrived only if the agent that    *)
(* says so is the one it was handed to and has dropped no record of it.    *)
UnknownIdVerdict(c, r) ==
  IF r.verdict # "evicted" /\ my[c].sentTo # NoCaller /\ my[c].sentTo = r.by
  THEN "neverRan"
  ELSE "unknown"

Verdict(c, r) ==
  CASE r.verdict = "ok"                    -> "done"
    [] r.verdict = "reused"                -> "refused"
    [] r.verdict \in {"unknown", "evicted"} -> UnknownIdVerdict(c, r)
    [] OTHER                               -> r.verdict

(* The answer came in time.  A failed lookup is one attempt less.          *)
Answered(c) ==
  /\ pc[c] = "waiting" /\ reply[c].verdict \notin {"none", "gone"}
  /\ IF my[c].attempt > 0 /\ reply[c].verdict = "closed"
     THEN NextLookup(c)
     ELSE Tell(c, Verdict(c, reply[c]))
  /\ reply' = [reply EXCEPT ![c] = NoReply]
  /\ UNCHANGED <<dvcVars, chan, agentVars, asks, ghostVars>>

(* resolve_indeterminate: without an agent that can be asked, the outcome  *)
(* stays unknown; otherwise the journal is asked, a few times.  Its first  *)
(* read of the handshake is taken with the loss it follows.                *)
Resolve(c) ==
  IF my[c].attempt = 0 /\ handshake = NoCaller THEN Tell(c, "unknown") ELSE NextLookup(c)

(* The oneshot's sender was dropped: the outcome is unknown.               *)
SenderGone(c) ==
  /\ pc[c] = "waiting" /\ reply[c] = Gone
  /\ Resolve(c)
  /\ reply' = [reply EXCEPT ![c] = NoReply]
  /\ UNCHANGED <<dvcVars, chan, agentVars, asks, ghostVars>>

(* The deadline passed: the receiver is gone ...                           *)
TimesOut(c) ==
  /\ pc[c] = "waiting" /\ reply[c] = NoReply
  /\ pc' = [pc EXCEPT ![c] = "expired"]
  /\ UNCHANGED <<dvcVars, chan, agentVars, asks, told, my, reply, ghostVars>>

(* ... and only then is the id removed, whoever waits under it by now.     *)
Remove(c) ==
  /\ pc[c] = "expired"
  /\ Resolve(c)
  /\ LET id == MyId(c)
     IN  /\ pending' = [i \in DOMAIN pending \ {id} |-> pending[i]]
         /\ reply' = [d \in Callers |->
                        IF d = c THEN NoReply
                        ELSE IF id \in DOMAIN pending /\ pending[id] = d THEN Gone ELSE reply[d]]
  /\ UNCHANGED <<primary, extras, handshake, stopping, chan, agentVars, asks, ghostVars>>

-----------------------------------------------------------------------------
(* The daemon replaces its agent: stop_running_agent.                      *)

StopAgent ==
  /\ stopping.channel = None /\ stopping.count < MaxStops /\ Ready
  /\ stopping' = [channel |-> primary, count |-> stopping.count + 1]
  /\ chan' = IF Deliverable(primary)
             THEN [chan EXCEPT ![primary].down = Append(@, ShutdownRequest)]
             ELSE chan
  /\ UNCHANGED <<primary, extras, handshake, pending, agentVars, callerVars, ghostVars>>

(* Every waiter is answered with the channel_closed failure.               *)
FailPending ==
  /\ reply' = [c \in Callers |-> IF \E id \in DOMAIN pending : pending[id] = c
                                 THEN Closed ELSE reply[c]]
  /\ pending' = <<>>

KeysOn(h) == {m.id.key : m \in {chan[h].down[i] : i \in DOMAIN chan[h].down}
                               \cup {doing[a] : a \in {b \in Instances : at[b] = h}}}
             \ {NoKey}

(* Mutant: the released channel's handshake is kept.                       *)
ReleaseKeepsHandshake ==
  /\ stopping.channel # None
  /\ stopping' = [stopping EXCEPT !.channel = None]
  /\ IF primary # stopping.channel
     THEN UNCHANGED <<primary, extras, handshake, pending, reply, excused>>
     ELSE /\ primary' = None
          /\ extras' = extras \cup {primary}
          /\ excused' = excused \cup KeysOn(primary)
          /\ FailPending
          /\ UNCHANGED handshake
  /\ UNCHANGED <<chan, agentVars, asks, told, pc, my, ran, runs>>

(* Answered or not, the old agent is released; what it has yet to execute  *)
(* it may still execute beside its replacement.                            *)
ReleasePrimary ==
  /\ stopping.channel # None
  /\ stopping' = [stopping EXCEPT !.channel = None]
  /\ IF primary # stopping.channel
     THEN UNCHANGED <<primary, extras, handshake, pending, reply, excused>>
     ELSE /\ primary' = None /\ handshake' = NoCaller
          /\ extras' = extras \cup {primary}
          /\ excused' = excused \cup KeysOn(primary)
          /\ FailPending
  /\ UNCHANGED <<chan, agentVars, asks, told, pc, my, ran, runs>>

-----------------------------------------------------------------------------
(* The frame processor: a channel opens, a message or the close arrives.   *)

Fresh(h) == chan[h].agent = NoCaller /\ \A g \in 1 .. h - 1 : chan[g].agent # NoCaller

(* An agent opens a channel and greets: start() makes the first opener the *)
(* primary.                                                                *)
Open(a, h) ==
  /\ a \in alive /\ at[a] = None /\ Fresh(h)
  /\ at' = [at EXCEPT ![a] = h]
  /\ chan' = [chan EXCEPT ![h] = [agent |-> a, down |-> <<>>, up |-> <<Greeting>>]]
  /\ IF primary = None
     THEN primary' = h /\ UNCHANGED extras
     ELSE extras' = extras \cup {h} /\ UNCHANGED primary
  /\ UNCHANGED <<handshake, pending, stopping, alive, doing, journalVars, callerVars,
                 ghostVars>>

Heard(h) == [chan[h] EXCEPT !.up = Tail(@)]

Dismiss(h) ==
  chan' = [chan EXCEPT ![h] =
             [Heard(h) EXCEPT !.down = IF Deliverable(h) THEN Append(@, ShutdownRequest) ELSE @]]

(* process(), a handshake: an agent with other scripts is told to exit and *)
(* frees the primary; so is an extra while there is a primary; otherwise   *)
(* its handshake is the daemon's, and an extra is promoted.                *)
Greet(h) ==
  /\ chan[h].up # <<>> /\ Head(chan[h].up) = Greeting
  /\ IF chan[h].agent \in Stale
     THEN /\ primary' = IF primary = h THEN None ELSE primary
          /\ extras' = extras \cup {h}
          /\ excused' = excused \cup KeysOn(h)
          /\ Dismiss(h) /\ UNCHANGED handshake
     ELSE IF h \in extras /\ primary \notin {None, h}
     THEN Dismiss(h) /\ UNCHANGED <<primary, extras, handshake, excused>>
     ELSE /\ handshake' = chan[h].agent
          /\ primary' = h /\ extras' = extras \ {h}
          /\ chan' = [chan EXCEPT ![h] = Heard(h)]
          /\ UNCHANGED excused
  /\ UNCHANGED <<pending, stopping, agentVars, callerVars, ran, runs>>

(* process(), a response: routed to the waiter of its id, if the channel   *)
(* is the one in use and the id is still waited for.                       *)
Respond(h) ==
  /\ chan[h].up # <<>> /\ Head(chan[h].up).type = "response"
  /\ LET msg == Head(chan[h].up)
     IN  IF h \in extras \/ msg.id \notin DOMAIN pending
         THEN UNCHANGED <<pending, reply>>
         ELSE /\ reply' = [reply EXCEPT ![pending[msg.id]] = msg.reply]
              /\ pending' = [i \in DOMAIN pending \ {msg.id} |-> pending[i]]
  /\ chan' = [chan EXCEPT ![h] = Heard(h)]
  /\ UNCHANGED <<primary, extras, handshake, stopping, agentVars, asks, told, pc, my,
                 ghostVars>>

(* close(): only the primary's is the agent's, and fails what is pending.  *)
Close(h) ==
  /\ chan[h].up # <<>> /\ Head(chan[h].up) = Closing
  /\ IF h \in extras
     THEN extras' = extras \ {h} /\ UNCHANGED <<primary, handshake, pending, reply>>
     ELSE IF primary # h
     THEN UNCHANGED <<primary, extras, handshake, pending, reply>>
     ELSE primary' = None /\ handshake' = NoCaller /\ FailPending /\ UNCHANGED extras
  /\ chan' = [chan EXCEPT ![h] = Heard(h)]
  /\ UNCHANGED <<stopping, agentVars, asks, told, pc, my, ghostVars>>

-----------------------------------------------------------------------------
(* The agent's journal.                                                    *)

Entry(id, cmd, ok) == [id |-> id, cmd |-> cmd, ok |-> ok]
Entries(a)         == {journal[a][i] : i \in DOMAIN journal[a]}
Dropped(a)         == {evicted[a][i] : i \in DOMAIN evicted[a]}

Last(s, k) == IF Len(s) <= k THEN s ELSE SubSeq(s, Len(s) - k + 1, Len(s))

(* Get-JournalEntry: memory first, then the disk for keyed ids.            *)
InMemory(a, id)   == {e \in Entries(a) : e.id = id}
Lookup(a, id, onDisk) ==
  IF InMemory(a, id) # {} \/ ~onDisk THEN InMemory(a, id) ELSE {e \in disk : e.id = id}

(* Mutant: a record found in memory is listed once more.                   *)
CacheAgain(a, found) ==
  journal' = [journal EXCEPT ![a] =
                IF found = {} THEN @ ELSE Append(@, CHOOSE e \in found : TRUE)]

(* A record found on disk is listed in memory too, past the limit if need  *)
(* be: only the next result evicts.                                        *)
Cache(a, found) ==
  journal' = [journal EXCEPT ![a] =
                IF found \subseteq Entries(a) THEN @
                ELSE Append(@, CHOOSE e \in found : TRUE)]

(* Add-JournaledResult: the oldest results make room, their ids are kept.  *)
Record(a, e) ==
  LET all   == Append(journal[a], e)
      kept  == Last(all, JournalLimit)
      out   == SubSeq(all, 1, Len(all) - Len(kept))
  IN  /\ journal' = [journal EXCEPT ![a] = kept]
      /\ evicted' = [evicted EXCEPT ![a] =
                       Last(@ \o [i \in DOMAIN out |-> out[i].id], EvictedLimit)]

(* Write-PersistedJournalEntry and the pruning after it: write-once, may   *)
(* fail, and older files may go, remembered by the agent that removed them.*)
Persist(a, e, written, old) ==
  /\ old \subseteq disk
  /\ disk' = (disk \ old)
             \cup IF written /\ \A d \in disk : d.id # e.id THEN {e} ELSE {}
  /\ pruned' = [pruned EXCEPT ![a] = @ \cup {d.id : d \in old}]

-----------------------------------------------------------------------------
(* The agent's loop.                                                       *)

Holds(a)     == a \in alive /\ at[a] # None
Free(a)      == Holds(a) /\ doing[a] = NoMessage /\ chan[at[a]].down # <<>>
NextFor(a)   == Head(chan[at[a]].down)
Taken(a)     == [chan[at[a]] EXCEPT !.down = Tail(@)]

Says(a, ch, id, r) == chan' = [chan EXCEPT ![at[a]] = [ch EXCEPT !.up = Append(@, Answer(id, r))]]

IsKeyed(m) == m.id.key # NoKey

(* A transient read error or an unreadable frame loses the message.        *)
LoseMessage(a) ==
  /\ Free(a)
  /\ chan' = [chan EXCEPT ![at[a]] = Taken(a)]
  /\ UNCHANGED <<dvcVars, agentVars, callerVars, ghostVars>>

(* A known id is answered from the journal: replayed if the fingerprint    *)
(* agrees, refused if the id was used for another command.                 *)
Replay(a) ==
  /\ Free(a) /\ NextFor(a).cmd \notin {"query_result", "shutdown"}
  /\ LET m     == NextFor(a)
         found == Lookup(a, m.id, IsKeyed(m))
     IN  /\ found # {}
         /\ Cache(a, found)
         /\ \E e \in found :
              Says(a, Taken(a), m.id,
                   Reply(IF e.cmd # m.cmd THEN "reused" ELSE IF e.ok THEN "ok" ELSE "failed", a))
  /\ UNCHANGED <<dvcVars, alive, at, doing, evicted, pruned, disk, callerVars, ghostVars>>

(* Mutant: the disk tier is not read for a keyed run.                      *)
StartForgetful(a) ==
  /\ Free(a) /\ NextFor(a).cmd \notin {"query_result", "shutdown"}
  /\ InMemory(a, NextFor(a).id) = {}
  /\ doing' = [doing EXCEPT ![a] = NextFor(a)]
  /\ chan' = [chan EXCEPT ![at[a]] = Taken(a)]
  /\ UNCHANGED <<dvcVars, alive, at, journalVars, callerVars, ghostVars>>

(* Any other command is executed.                                          *)
Start(a) ==
  /\ Free(a) /\ NextFor(a).cmd \notin {"query_result", "shutdown"}
  /\ Lookup(a, NextFor(a).id, IsKeyed(NextFor(a))) = {}
  /\ doing' = [doing EXCEPT ![a] = NextFor(a)]
  /\ chan' = [chan EXCEPT ![at[a]] = Taken(a)]
  /\ UNCHANGED <<dvcVars, alive, at, journalVars, callerVars, ghostVars>>

(* The command takes effect.                                               *)
TakesEffect(m) ==
  /\ ran' = ran \cup {m.n}
  /\ runs' = IF IsKeyed(m) THEN [runs EXCEPT ![m.id.key] = @ + 1] ELSE runs

Outcomes == [ok : BOOLEAN, effect : BOOLEAN] \ {[ok |-> TRUE, effect |-> FALSE]}

(* It ends: the result is journaled before it is sent, on disk too if it   *)
(* was keyed and a process was started.                                    *)
Complete(a, o, written, old) ==
  LET m == doing[a]
      e == Entry(m.id, m.cmd, o.ok)
  IN  /\ IF o.effect THEN TakesEffect(m) ELSE UNCHANGED <<ran, runs>>
      /\ Record(a, e)
      /\ IF IsKeyed(m) /\ o.effect
         THEN /\ Persist(a, e, written, old)
              /\ excused' = excused \cup {d.id.key : d \in old}
                                    \cup IF written THEN {} ELSE {m.id.key}
         ELSE UNCHANGED <<pruned, disk, excused>>

Reports(a, o) ==
  /\ Says(a, chan[at[a]], doing[a].id, Reply(IF o.ok THEN "ok" ELSE "failed", a))
  /\ doing' = [doing EXCEPT ![a] = NoMessage]
  /\ UNCHANGED <<dvcVars, alive, at, callerVars>>

Finish(a) ==
  /\ Holds(a) /\ doing[a] # NoMessage
  /\ \E o \in Outcomes : Complete(a, o, TRUE, {}) /\ Reports(a, o)

(* The disk does not take the record, or older ones are pruned for it.     *)
FinishUnrecorded(a) ==
  /\ Holds(a) /\ IsKeyed(doing[a])
  /\ \E o \in Outcomes, written \in BOOLEAN, old \in SUBSET disk :
       /\ o.effect /\ (~written \/ old # {})
       /\ Complete(a, o, written, old) /\ Reports(a, o)

(* The agent's channel when it has let go of it, after some last words.    *)
Deserting(a, words) == [chan[at[a]] EXCEPT !.down = <<>>, !.up = @ \o words]

(* The agent lets go of its channel: it died, or the channel failed it.    *)
Hangs(a) ==
  /\ at' = [at EXCEPT ![a] = None]
  /\ chan' = [chan EXCEPT ![at[a]] = Deserting(a, <<Closing>>)]

(* The answer finds the channel gone; the agent will open another.         *)
FinishUnheard(a) ==
  /\ Holds(a) /\ doing[a] # NoMessage
  /\ \E o \in Outcomes : Complete(a, o, TRUE, {})
  /\ Hangs(a)
  /\ doing' = [doing EXCEPT ![a] = NoMessage]
  /\ UNCHANGED <<dvcVars, alive, callerVars>>

(* Get-JournaledResult: memory and disk are searched; an unknown id is     *)
(* told apart from one whose record was dropped.                           *)
AnswerQuery(a) ==
  /\ Free(a) /\ NextFor(a).cmd = "query_result"
  /\ LET m     == NextFor(a)
         id    == Id(m.n, 0)
         found == Lookup(a, id, TRUE)
     IN  /\ Cache(a, found)
         /\ \E v \in IF found # {} THEN {IF e.ok THEN "ok" ELSE "failed" : e \in found}
                     ELSE IF id \in Dropped(a) \cup pruned[a] THEN {"evicted"}
                     ELSE {"unknown"} :
              Says(a, Taken(a), m.id, Reply(v, a))
  /\ UNCHANGED <<dvcVars, alive, at, doing, evicted, pruned, disk, callerVars, ghostVars>>

(* shutdown: answered first, then the agent exits.                         *)
Exit(a) ==
  /\ Free(a) /\ NextFor(a).cmd = "shutdown"
  /\ alive' = alive \ {a}
  /\ at' = [at EXCEPT ![a] = None]
  /\ chan' = [chan EXCEPT ![at[a]] =
                Deserting(a, <<Answer(ShutdownId, Reply("ok", a)), Closing>>)]
  /\ UNCHANGED <<dvcVars, doing, journalVars, callerVars, ghostVars>>

(* A fatal transport error: the agent closes its channel and will open     *)
(* another, with the same journal.                                         *)
ChannelFails(a) ==
  /\ Holds(a) /\ doing[a] = NoMessage
  /\ Hangs(a)
  /\ UNCHANGED <<dvcVars, alive, doing, journalVars, callerVars, ghostVars>>

(* The agent dies, perhaps in the middle of a command that took effect.    *)
Die(a) ==
  /\ a \in alive
  /\ alive' = alive \ {a}
  /\ IF doing[a] # NoMessage
     THEN \/ /\ TakesEffect(doing[a])
             /\ excused' = excused \cup {doing[a].id.key}
          \/ UNCHANGED ghostVars
     ELSE UNCHANGED ghostVars
  /\ doing' = [doing EXCEPT ![a] = NoMessage]
  /\ IF at[a] = None THEN UNCHANGED <<at, chan>> ELSE Hangs(a)
  /\ UNCHANGED <<dvcVars, journalVars, callerVars>>

-----------------------------------------------------------------------------
CallerStep(c) ==
  \/ Send(c) \/ SendRefused(c) \/ Answered(c) \/ SenderGone(c)
  \/ TimesOut(c) \/ Remove(c)

Processor(h) == Greet(h) \/ Respond(h) \/ Close(h)

AgentStep(a) == Replay(a) \/ Start(a) \/ Finish(a) \/ AnswerQuery(a) \/ Exit(a)
Fault(a)     == FinishUnrecorded(a) \/ LoseMessage(a) \/ FinishUnheard(a) \/ ChannelFails(a) \/ Die(a)

Calm ==
  \/ \E c \in Callers : CallerStep(c) \/ \E r \in Requests : Ask(c, r)
  \/ StopAgent \/ ReleasePrimary
  \/ \E h \in Channels : Processor(h) \/ \E a \in Instances : Open(a, h)
  \/ \E a \in Instances : AgentStep(a)

RequestsNext == Calm \/ \E a \in Instances : Fault(a)

RequestsSpec == RequestsInit /\ [][RequestsNext]_requestVars

-----------------------------------------------------------------------------
(* Properties.                                                             *)

Verdicts == {"none", "gone", "closed", "ok", "failed", "reused", "unknown", "evicted"}
Ids      == [key : Keys \cup {NoKey}, n : 0 .. MaxRequests, attempt : 0 .. Attempts]
Replies  == [verdict : Verdicts, by : Instances \cup {NoCaller}]

(* Type invariant, with the limits the journal keeps: its memory tier      *)
(* exceeds its limit only by records read back from disk, one per key.     *)
RequestsTypeOK ==
  /\ primary \in 0 .. MaxChannels /\ extras \subseteq Channels
  /\ handshake \in Instances \cup {NoCaller}
  /\ DOMAIN pending \subseteq Ids /\ \A id \in DOMAIN pending : pending[id] \in Callers
  /\ stopping \in [channel : 0 .. MaxChannels, count : 0 .. MaxStops]
  /\ alive \subseteq Instances /\ at \in [Instances -> 0 .. MaxChannels]
  /\ \A a \in Instances : /\ Len(journal[a]) <= JournalLimit + Cardinality(Keys)
                           /\ Len(evicted[a]) <= EvictedLimit
  /\ Len(asks) <= MaxRequests /\ \A n \in DOMAIN asks : asks[n] \in Requests
  /\ pc \in [Callers -> {"idle", "ready", "waiting", "expired"}]
  /\ my \in [Callers -> [n : 0 .. MaxRequests, attempt : 0 .. Attempts,
                         sentTo : Instances \cup {NoCaller}]]
  /\ reply \in [Callers -> Replies]
  /\ ran \subseteq Numbers /\ excused \subseteq Keys \cup {NoKey}

(* The daemon believes only the agent on the channel it sends to, and that *)
(* agent runs its own scripts: whatever opens, closes, is released or is   *)
(* promoted, a stored handshake is that of the primary channel's agent.    *)
HandshakeNamesPrimary ==
  handshake # NoCaller =>
    primary # None /\ chan[primary].agent = handshake /\ handshake \notin Stale
                   /\ primary \notin extras

(* No caller is forgotten: one that waits is the waiter of its id, or has  *)
(* its answer, or knows that its sender is gone - also when another caller *)
(* used the same key, and through closes and releases.                     *)
WaitersAnswered ==
  \A c \in Callers :
    pc[c] = "waiting" =>
      reply[c] # NoReply \/ (MyId(c) \in DOMAIN pending /\ pending[MyId(c)] = c)

(* The command of an idempotency key takes effect once, however often it   *)
(* is retried, unless its record was lost in a way the journal's comments  *)
(* accept: the agent died or was cut off before recording it, or the disk  *)
(* would not take it or has dropped it.                                    *)
KeyedRunsOnce == \A k \in Keys : runs[k] > 1 => k \in excused

Outcome == INSTANCE RequestOutcome

(* What callers are told is what RequestOutcome promises: success only of  *)
(* a command that took effect, "it did not run, retrying is safe" only of  *)
(* one that did not and will not (resolve_indeterminate, unknown_id_verdict). *)
OutcomesKept == Outcome!OutcomeSpec

(* dvc_ipc.rs: "Channel closed before a reply arrived. As with a timeout   *)
(* the request had already been sent, so the outcome is unknown."  A       *)
(* request reported as failed because the channel closed did not run.      *)
ClosedIsFailure == \A n \in Numbers : told[n] = "closed" => n \notin ran

(* agent.ps1: a key reused for a different command "is refused rather than *)
(* silently answered with a stale result".  Who is told that a command was *)
(* done is told of that command.                                           *)
ReusedKeyRefused ==
  \A n \in DOMAIN asks : told[n] = "done" => \E m \in ran : Outcome!OneRun(m, n)

(* dvc_channel.rs: an agent with the daemon's own scripts is told to exit  *)
(* only for another one that is in use.                                    *)
RightAgentSpared ==
  [][\A h \in Channels :
       chan[h].up # <<>> /\ Head(chan[h].up) = Greeting /\ chan'[h].up = Tail(chan[h].up)
         /\ chan[h].agent \notin Stale /\ chan'[h].down # chan[h].down
       => handshake # NoCaller]_requestVars

=============================================================================
