------------------------ MODULE AgentRequests_proofs ------------------------
(***************************************************************************)
(* Proofs about AgentRequests, for any number of callers, agents, requests *)
(* and channels, and any limits of the journal and the ladder.             *)
(***************************************************************************)
EXTENDS AgentRequests, SequenceTheorems, FiniteSetTheorems, TLAPS

-----------------------------------------------------------------------------
(* Types.                                                                  *)

KeyId(k) == [key |-> k, n |-> None, attempt |-> 0]
KeyIds   == {KeyId(k) : k \in Keys}
OwnIds   == [key : {NoKey}, n : 0 .. MaxRequests, attempt : 0 .. Attempts]
MsgIds   == KeyIds \cup OwnIds
Cmds     == {r.cmd : r \in Requests} \cup {"query_result", "shutdown", "none"}
Messages == [id : MsgIds, n : 0 .. MaxRequests, cmd : Cmds]
Answers  == [type : {"response"}, id : MsgIds, reply : Replies \ {NoReply}]
Ups      == Seq({Greeting, Closing} \cup Answers)
Wires    == [agent : Instances \cup {NoCaller}, down : Seq(Messages), up : Ups]

DaemonTypes ==
  /\ primary \in 0 .. MaxChannels /\ extras \subseteq Channels /\ primary \notin extras
  /\ handshake \in Instances \cup {NoCaller}
  /\ stopping \in [channel : 0 .. MaxChannels, count : Nat]

CallerTypes ==
  /\ asks \in Seq(Requests) /\ Len(asks) <= MaxRequests
  /\ pc \in [Callers -> {"idle", "ready", "waiting", "expired"}]
  /\ my \in [Callers -> [n : 0 .. MaxRequests, attempt : 0 .. Attempts,
                         sentTo : Instances \cup {NoCaller}]]
  /\ reply \in [Callers -> Replies]
  /\ \A c \in Callers : pc[c] # "idle" => my[c].n \in 1 .. Len(asks)

AgentTypes ==
  /\ alive \subseteq Instances /\ chan \in [Channels -> Wires]
  /\ at \in [Instances -> 0 .. MaxChannels] /\ doing \in [Instances -> Messages]
  /\ runs \in [Keys -> Nat]

-----------------------------------------------------------------------------
(* Channels and agents.                                                    *)

(* What a channel that is not open yet looks like; whom an open one is of; *)
(* where an agent is that executes something.                              *)
Unopened ==
  \A h \in Channels : chan[h].agent = NoCaller =>
    chan[h].down = <<>> /\ chan[h].up = <<>> /\ h # primary /\ h \notin extras

Opener == \A a \in Instances : at[a] # None => chan[at[a]].agent = a /\ a \in alive

Working == \A a \in Instances : doing[a] # NoMessage => at[a] # None

(* Nothing is on its way to an agent that has let go of its channel.       *)
Deserted == \A h \in Channels : (\A a \in Instances : at[a] # h) => chan[h].down = <<>>

(* The close is the last thing an agent says on a channel, and says that   *)
(* it has let go of it; a channel the daemon has no part in has been read  *)
(* to its end.                                                             *)
CloseIsLast ==
  \A h \in Channels : \A i \in DOMAIN chan[h].up :
    chan[h].up[i] = Closing => i = Len(chan[h].up) /\ \A a \in Instances : at[a] # h

ReadToItsEnd ==
  \A h \in Channels :
    chan[h].agent # NoCaller /\ h # primary /\ h \notin extras => chan[h].up = <<>>

(* An agent's channel is one the daemon knows.                             *)
Known == \A a \in Instances : at[a] # None => at[a] = primary \/ at[a] \in extras

Wired == Unopened /\ Opener /\ Working /\ Deserted /\ CloseIsLast /\ ReadToItsEnd /\ Known

-----------------------------------------------------------------------------
(* Keyed commands.                                                         *)

(* As long as no record of it was lost: a key's command is on its way or   *)
(* executed on the primary channel alone; once it has run its record is on *)
(* disk; and an agent executes it only if it has not run.                  *)
OnPrimaryOnly(k) ==
  /\ \A h \in Channels \ {primary} : \A i \in DOMAIN chan[h].down : chan[h].down[i].id.key # k
  /\ \A a \in Instances : doing[a].id.key = k => at[a] = primary

Recorded(k) == runs[k] <= 1 /\ (runs[k] = 1 => \E d \in disk : d.id = KeyId(k))

NotRunYet(k) == \A a \in Instances : doing[a].id.key = k => runs[k] = 0

Accounted == \A k \in Keys \ excused : OnPrimaryOnly(k) /\ Recorded(k) /\ NotRunYet(k)

IInv ==
  /\ DaemonTypes /\ CallerTypes /\ AgentTypes /\ Wired /\ Accounted
  /\ HandshakeNamesPrimary /\ WaitersAnswered

-----------------------------------------------------------------------------
(* Ids and messages.                                                       *)

LEMMA KeyedIds == ASSUME NEW m \in Messages, NEW k \in Keys, m.id.key = k
                  PROVE  m.id = KeyId(k)
BY DEF Messages, MsgIds, KeyIds, OwnIds, KeyId, Keys

LEMMA IdleMessages == /\ NoMessage \in Messages /\ ShutdownRequest \in Messages
                      /\ NoMessage.id.key \notin Keys /\ ShutdownRequest.id.key \notin Keys
<1>1. ShutdownId \in MsgIds
  BY LimitsAssumption DEF ShutdownId, MsgIds, OwnIds, None
<1> QED
  BY <1>1, LimitsAssumption DEF NoMessage, ShutdownRequest, ShutdownId, Messages, Cmds, Keys, None

LEMMA CallersMessages ==
  ASSUME CallerTypes, NEW c \in Callers, pc[c] # "idle"
  PROVE  Message(my[c].n, my[c].attempt) \in Messages
<1> DEFINE n == my[c].n
           t == my[c].attempt
<1>1. n \in 1 .. Len(asks) /\ t \in 0 .. Attempts /\ n \in 0 .. MaxRequests
  BY DEF CallerTypes
<1>2. asks[n] \in Requests
  BY <1>1 DEF CallerTypes
<1>3. Id(n, t) \in MsgIds
  <2>1. CASE t = 0 /\ asks[n].key # NoKey
    BY <2>1, <1>2 DEF Id, MsgIds, KeyIds, KeyId, Keys
  <2>2. CASE ~(t = 0 /\ asks[n].key # NoKey)
    BY <2>2, <1>1 DEF Id, MsgIds, OwnIds
  <2> QED BY <2>1, <2>2
<1>4. (IF t = 0 THEN asks[n].cmd ELSE "query_result") \in Cmds
  BY <1>2 DEF Cmds
<1> QED
  BY <1>1, <1>3, <1>4 DEF Message, Messages

LEMMA AgentsAnswers ==
  ASSUME NEW a \in Instances, NEW id \in MsgIds,
         NEW v \in {"ok", "failed", "reused", "unknown", "evicted"}
  PROVE  Answer(id, Reply(v, a)) \in Answers /\ Answer(id, Reply(v, a)) # Closing
<1>1. Reply(v, a) \in Replies
  BY DEF Reply, Replies, Verdicts
<1>2. Reply(v, a) # NoReply
  BY DEF Reply, NoReply
<1> QED BY <1>1, <1>2 DEF Answer, Answers, Closing

(* A wire with one of its ends changed.                                    *)
LEMMA Rewired ==
  ASSUME NEW w \in Wires, NEW d \in Seq(Messages), NEW u \in Ups
  PROVE  /\ [w EXCEPT !.down = d] = [agent |-> w.agent, down |-> d, up |-> w.up]
         /\ [w EXCEPT !.up = u] = [agent |-> w.agent, down |-> w.down, up |-> u]
         /\ [w EXCEPT !.down = d, !.up = u] = [agent |-> w.agent, down |-> d, up |-> u]
         /\ [agent |-> w.agent, down |-> d, up |-> u] \in Wires
<1>1. w = [agent |-> w.agent, down |-> w.down, up |-> w.up] /\ w.agent \in Instances \cup {NoCaller}
  BY DEF Wires
<1>2. [w EXCEPT !.down = d] = [agent |-> w.agent, down |-> d, up |-> w.up]
  BY <1>1
<1>3. [w EXCEPT !.up = u] = [agent |-> w.agent, down |-> w.down, up |-> u]
  BY <1>1
<1>4. [w EXCEPT !.down = d, !.up = u] = [agent |-> w.agent, down |-> d, up |-> u]
  <2> DEFINE v == [agent |-> w.agent, down |-> d, up |-> w.up]
  <2>1. [v EXCEPT !.up = u] = [agent |-> w.agent, down |-> d, up |-> u]
    OBVIOUS
  <2>2. v = [w EXCEPT !.down = d]
    BY <1>2
  <2> HIDE DEF v
  <2>3. [w EXCEPT !.down = d, !.up = u] = [v EXCEPT !.up = u]
    BY <2>2, Zenon
  <2> QED BY <2>1, <2>3
<1>5. [agent |-> w.agent, down |-> d, up |-> u] \in Wires
  BY <1>1 DEF Wires
<1> QED BY <1>2, <1>3, <1>4, <1>5

LEMMA WithDown ==
  ASSUME NEW w \in Wires, NEW d \in Seq(Messages)
  PROVE  [w EXCEPT !.down = d] = [agent |-> w.agent, down |-> d, up |-> w.up]
         /\ [w EXCEPT !.down = d] \in Wires
<1>1. w = [agent |-> w.agent, down |-> w.down, up |-> w.up]
      /\ w.agent \in Instances \cup {NoCaller} /\ w.up \in Ups
  BY DEF Wires
<1>2. [w EXCEPT !.down = d] = [agent |-> w.agent, down |-> d, up |-> w.up]
  BY <1>1
<1>3. [agent |-> w.agent, down |-> d, up |-> w.up] \in Wires
  BY <1>1 DEF Wires
<1> QED BY <1>2, <1>3

LEMMA WithUp ==
  ASSUME NEW w \in Wires, NEW u \in Ups
  PROVE  [w EXCEPT !.up = u] = [agent |-> w.agent, down |-> w.down, up |-> u]
         /\ [w EXCEPT !.up = u] \in Wires
<1>1. w = [agent |-> w.agent, down |-> w.down, up |-> w.up]
      /\ w.agent \in Instances \cup {NoCaller} /\ w.down \in Seq(Messages)
  BY DEF Wires
<1>2. [w EXCEPT !.up = u] = [agent |-> w.agent, down |-> w.down, up |-> u]
  BY <1>1
<1>3. [agent |-> w.agent, down |-> w.down, up |-> u] \in Wires
  BY <1>1 DEF Wires
<1> QED BY <1>2, <1>3

LEMMA Tails ==
  ASSUME NEW u \in Ups, u # <<>>
  PROVE  /\ Len(Tail(u)) = Len(u) - 1 /\ (Len(u) = 1 => Tail(u) = <<>>)
         /\ \A i \in DOMAIN Tail(u) : i + 1 \in DOMAIN u /\ Tail(u)[i] = u[i + 1]
<1>1. Len(Tail(u)) = Len(u) - 1 /\ Tail(u) \in Ups
  BY DEF Ups
<1>2. \A i \in DOMAIN Tail(u) : i + 1 \in DOMAIN u /\ Tail(u)[i] = u[i + 1]
  BY DEF Ups
<1>3. \A v \in Ups : Len(v) = 0 => v = <<>>
  BY DEF Ups
<1> QED BY <1>1, <1>2, <1>3

-----------------------------------------------------------------------------
(* The initial states.                                                     *)

LEMMA InitIInv == RequestsInit => IInv
<1> SUFFICES ASSUME RequestsInit PROVE IInv
  OBVIOUS
<1> USE DEF RequestsInit
<1>1. DaemonTypes
  BY LimitsAssumption DEF DaemonTypes, None
<1>2. CallerTypes
  BY LimitsAssumption DEF CallerTypes, Idle, None, NoReply, Reply, Replies, Verdicts
<1>3. AgentTypes
  BY IdleMessages, LimitsAssumption DEF AgentTypes, Wires, Ups, None
<1>4. Wired
  BY LimitsAssumption DEF Wired, Unopened, Opener, Working, Deserted, CloseIsLast, ReadToItsEnd, Known,
                          None, Channels
<1>5. Accounted
  BY IdleMessages DEF Accounted, OnPrimaryOnly, Recorded, NotRunYet
<1> QED
  BY <1>1, <1>2, <1>3, <1>4, <1>5 DEF IInv, HandshakeNamesPrimary, WaitersAnswered

-----------------------------------------------------------------------------
(* The callers' steps.                                                     *)

(* What the daemon, the agents and the channels are in.                    *)
FarVars == <<primary, extras, handshake, stopping, chan, agentVars, ghostVars>>

LEMMA FarKept ==
  ASSUME IInv, UNCHANGED FarVars
  PROVE  DaemonTypes' /\ AgentTypes' /\ Wired' /\ Accounted' /\ HandshakeNamesPrimary'
<1> USE DEF FarVars, agentVars, journalVars, ghostVars, IInv
<1>1. DaemonTypes' /\ AgentTypes' /\ HandshakeNamesPrimary'
  BY DEF DaemonTypes, AgentTypes, HandshakeNamesPrimary
<1>2. Wired'
  BY DEF Wired, Unopened, Opener, Working, Deserted, CloseIsLast, ReadToItsEnd, Known
<1>3. Accounted'
  BY DEF Accounted, OnPrimaryOnly, Recorded, NotRunYet
<1> QED BY <1>1, <1>2, <1>3

(* A caller goes to its next step, of the same request or of none.         *)
MovesOn(c) ==
  \/ NextLookup(c)
  \/ \E answer \in {"unknown", "notSent", Verdict(c, reply[c])} : Tell(c, answer)

LEMMA MovingOn ==
  ASSUME CallerTypes, NEW c \in Callers, pc[c] # "idle", MovesOn(c), UNCHANGED asks,
         reply' \in [Callers -> Replies]
  PROVE  /\ CallerTypes' /\ pc'[c] # "waiting"
         /\ \A d \in Callers \ {c} : my'[d] = my[d] /\ pc'[d] = pc[d]
<1>1. CASE NextLookup(c) /\ my[c].attempt < Attempts
  <2> DEFINE next == [my[c] EXCEPT !.attempt = @ + 1]
  <2>1. my[c] \in [n : 0 .. MaxRequests, attempt : 0 .. Attempts, sentTo : Instances \cup {NoCaller}]
    BY DEF CallerTypes
  <2>2. /\ next \in [n : 0 .. MaxRequests, attempt : 0 .. Attempts, sentTo : Instances \cup {NoCaller}]
        /\ next.n = my[c].n
    BY <1>1, <2>1, LimitsAssumption
  <2>3. my' = [my EXCEPT ![c] = next] /\ pc' = [pc EXCEPT ![c] = "ready"]
    BY <1>1 DEF NextLookup
  <2> QED BY <2>2, <2>3 DEF CallerTypes
<1>2. ASSUME NEW answer, Tell(c, answer)
      PROVE  /\ CallerTypes' /\ pc'[c] # "waiting"
             /\ \A d \in Callers \ {c} : my'[d] = my[d] /\ pc'[d] = pc[d]
  BY <1>2, LimitsAssumption DEF Tell, CallerTypes, Idle, None
<1>3. NextLookup(c) /\ ~(my[c].attempt < Attempts) => \E answer : Tell(c, answer)
  BY DEF NextLookup
<1> QED
  BY <1>1, <1>2, <1>3 DEF MovesOn

LEMMA NamesTyped == NoReply \in Replies /\ Gone \in Replies /\ Closed \in Replies
                    /\ Gone # NoReply /\ Closed # NoReply
BY DEF NoReply, Gone, Closed, Reply, Replies, Verdicts

LEMMA SameId ==
  ASSUME NEW c \in Callers, my'[c] = my[c], UNCHANGED asks
  PROVE  MyId(c)' = MyId(c)
BY DEF MyId, Id

LEMMA AskSafe == ASSUME IInv, NEW c \in Callers, NEW r \in Requests, Ask(c, r) PROVE IInv'
<1> USE DEF IInv
<1>1. UNCHANGED FarVars
  BY DEF Ask, FarVars, dvcVars
<1>2. asks' = Append(asks, r) /\ asks' \in Seq(Requests) /\ Len(asks') = Len(asks) + 1
      /\ \A n \in 1 .. Len(asks) : asks'[n] = asks[n]
  BY DEF Ask, CallerTypes
<1>3. CallerTypes'
  <2> DEFINE fresh == [Idle EXCEPT !.n = Len(asks) + 1]
  <2>1. /\ Len(asks) < MaxRequests /\ reply' = reply /\ pc' = [pc EXCEPT ![c] = "ready"]
        /\ my' = [my EXCEPT ![c] = fresh]
    BY DEF Ask
  <2>2. Len(asks) \in Nat /\ Len(asks) + 1 \in 0 .. MaxRequests /\ 0 \in 0 .. Attempts
    BY <2>1, LimitsAssumption DEF CallerTypes
  <2>3. fresh = [n |-> Len(asks) + 1, attempt |-> 0, sentTo |-> NoCaller]
    BY DEF Idle
  <2>4. fresh \in [n : 0 .. MaxRequests, attempt : 0 .. Attempts, sentTo : Instances \cup {NoCaller}]
        /\ fresh.n = Len(asks) + 1
    BY <2>2, <2>3
  <2> HIDE DEF fresh
  <2> QED BY <1>2, <2>1, <2>2, <2>4 DEF CallerTypes
<1>4. WaitersAnswered'
  <2> SUFFICES ASSUME NEW d \in Callers, pc'[d] = "waiting"
               PROVE  reply'[d] # NoReply \/ (MyId(d)' \in DOMAIN pending' /\ pending'[MyId(d)'] = d)
    BY DEF WaitersAnswered
  <2>1. d # c /\ pc[d] = "waiting" /\ my'[d] = my[d]
    BY DEF Ask, CallerTypes
  <2>2. asks'[my[d].n] = asks[my[d].n]
    BY <2>1, <1>2 DEF CallerTypes
  <2>3. MyId(d)' = MyId(d)
    BY <2>1, <2>2 DEF MyId, Id
  <2> QED BY <2>1, <2>3 DEF WaitersAnswered, Ask, dvcVars
<1> QED BY <1>1, <1>3, <1>4, FarKept

(* A step of one caller that leaves the others' waiters and replies alone. *)
LEMMA AloneSafe ==
  ASSUME IInv, NEW c \in Callers, pc[c] # "idle", MovesOn(c), UNCHANGED <<dvcVars, asks, FarVars>>,
         reply' \in {reply, [reply EXCEPT ![c] = NoReply]}
  PROVE  IInv'
<1> USE DEF IInv
<1>1. reply' \in [Callers -> Replies] /\ \A d \in Callers \ {c} : reply'[d] = reply[d]
  BY NamesTyped DEF CallerTypes
<1>2. /\ CallerTypes' /\ pc'[c] # "waiting"
      /\ \A d \in Callers \ {c} : my'[d] = my[d] /\ pc'[d] = pc[d]
  BY <1>1, MovingOn
<1>3. WaitersAnswered'
  BY <1>1, <1>2, SameId DEF WaitersAnswered, dvcVars
<1> QED BY <1>2, <1>3, FarKept

LEMMA SendRefusedSafe == ASSUME IInv, NEW c \in Callers, SendRefused(c) PROVE IInv'
<1>1. pc[c] # "idle" /\ MovesOn(c) /\ UNCHANGED <<dvcVars, asks, FarVars>> /\ reply' = reply
  BY DEF SendRefused, MovesOn, FarVars, dvcVars
<1> QED BY <1>1, AloneSafe

LEMMA AnsweredSafe == ASSUME IInv, NEW c \in Callers, Answered(c) PROVE IInv'
<1>1. pc[c] # "idle" /\ MovesOn(c) /\ UNCHANGED <<dvcVars, asks, FarVars>>
      /\ reply' = [reply EXCEPT ![c] = NoReply]
  BY DEF Answered, MovesOn, FarVars, dvcVars
<1> QED BY <1>1, AloneSafe

LEMMA SenderGoneSafe == ASSUME IInv, NEW c \in Callers, SenderGone(c) PROVE IInv'
<1>1. pc[c] # "idle" /\ MovesOn(c) /\ UNCHANGED <<dvcVars, asks, FarVars>>
      /\ reply' = [reply EXCEPT ![c] = NoReply]
  BY DEF SenderGone, Resolve, MovesOn, FarVars, dvcVars
<1> QED BY <1>1, AloneSafe

LEMMA TimesOutSafe == ASSUME IInv, NEW c \in Callers, TimesOut(c) PROVE IInv'
<1> USE DEF IInv
<1>1. UNCHANGED FarVars
  BY DEF TimesOut, FarVars, dvcVars
<1>2. CallerTypes'
  BY DEF TimesOut, CallerTypes
<1>3. WaitersAnswered'
  BY SameId DEF TimesOut, WaitersAnswered, CallerTypes, dvcVars
<1> QED BY <1>1, <1>2, <1>3, FarKept

LEMMA RemoveSafe == ASSUME IInv, NEW c \in Callers, Remove(c) PROVE IInv'
<1> USE DEF IInv
<1> DEFINE id == MyId(c)
<1>1. UNCHANGED FarVars /\ UNCHANGED asks /\ pc[c] # "idle"
  BY DEF Remove, FarVars
<1>2. /\ pending' = [i \in DOMAIN pending \ {id} |-> pending[i]]
      /\ reply' = [d \in Callers |->
                     IF d = c THEN NoReply
                     ELSE IF id \in DOMAIN pending /\ pending[id] = d THEN Gone ELSE reply[d]]
  BY DEF Remove
<1>3. reply' \in [Callers -> Replies]
  BY <1>2, NamesTyped DEF CallerTypes
<1>4. MovesOn(c)
  BY DEF Remove, Resolve, MovesOn
<1>5. /\ CallerTypes' /\ pc'[c] # "waiting"
      /\ \A d \in Callers \ {c} : my'[d] = my[d] /\ pc'[d] = pc[d]
  BY <1>1, <1>3, <1>4, MovingOn
<1>6. WaitersAnswered'
  <2> SUFFICES ASSUME NEW d \in Callers, pc'[d] = "waiting"
               PROVE  reply'[d] # NoReply \/ (MyId(d)' \in DOMAIN pending' /\ pending'[MyId(d)'] = d)
    BY DEF WaitersAnswered
  <2>1. d # c /\ pc[d] = "waiting" /\ MyId(d)' = MyId(d)
    BY <1>1, <1>5, SameId
  <2>2. CASE reply[d] # NoReply
    BY <2>1, <2>2, <1>2, NamesTyped
  <2>3. CASE MyId(d) \in DOMAIN pending /\ pending[MyId(d)] = d
    <3>1. CASE MyId(d) = id
      BY <3>1, <2>1, <2>3, <1>2, NamesTyped
    <3>2. CASE MyId(d) # id
      BY <3>2, <2>1, <2>3, <1>2
    <3> QED BY <3>1, <3>2
  <2> QED BY <2>1, <2>2, <2>3 DEF WaitersAnswered
<1> QED BY <1>1, <1>5, <1>6, FarKept

-----------------------------------------------------------------------------
(* A message to the agent in use: Send, StopAgent.                         *)

HandsOver(m) ==
  /\ primary # None
  /\ chan' = IF Deliverable(primary) THEN [chan EXCEPT ![primary].down = Append(@, m)] ELSE chan
  /\ UNCHANGED <<primary, extras, handshake, agentVars, ghostVars>>

LEMMA HandedOver ==
  ASSUME IInv, NEW m \in Messages, HandsOver(m)
  PROVE  AgentTypes' /\ Wired' /\ Accounted' /\ HandshakeNamesPrimary'
<1> USE DEF IInv, HandsOver, agentVars, journalVars, ghostVars
<1>1. primary \in Channels
  BY DEF DaemonTypes, None, Channels
<1>2. CASE ~Deliverable(primary)
  BY <1>2 DEF AgentTypes, HandshakeNamesPrimary, Wired, Unopened, Opener, Working, Deserted,
              CloseIsLast, ReadToItsEnd, Known, Accounted, OnPrimaryOnly, Recorded, NotRunYet
<1>3. CASE Deliverable(primary)
  <2>1. chan[primary].down \in Seq(Messages) /\ chan[primary] \in Wires
    BY <1>1 DEF AgentTypes, Wires
  <2>2. /\ chan' \in [Channels -> Wires]
        /\ \A h \in Channels : chan'[h].agent = chan[h].agent /\ chan'[h].up = chan[h].up
        /\ \A h \in Channels \ {primary} : chan'[h] = chan[h]
    <3> DEFINE w == [chan[primary] EXCEPT !.down = Append(@, m)]
    <3> DEFINE d == Append(chan[primary].down, m)
    <3>1. d \in Seq(Messages)
      BY <2>1
    <3>2. w = [chan[primary] EXCEPT !.down = d]
      OBVIOUS
    <3>3. w \in Wires /\ w.agent = chan[primary].agent /\ w.up = chan[primary].up
      <4> HIDE DEF d
      <4> QED BY <2>1, <3>1, <3>2 DEF Wires
    <3>4. chan' = [chan EXCEPT ![primary] = w]
      BY <1>3
    <3> QED BY <3>3, <3>4, <1>1 DEF AgentTypes
  <2>3. PICK a \in Instances : at[a] = primary /\ chan[primary].agent = a
    BY <1>1, <1>3 DEF Deliverable, Wired, Opener, AgentTypes
  <2>4. AgentTypes' /\ HandshakeNamesPrimary'
    BY <1>1, <2>2 DEF AgentTypes, HandshakeNamesPrimary
  <2>5. Unopened' /\ Deserted'
    BY <2>2, <2>3, LimitsAssumption DEF Wired, Unopened, Deserted
  <2>6. Opener' /\ Working' /\ CloseIsLast' /\ ReadToItsEnd' /\ Known'
    BY <2>2 DEF Wired, Opener, Working, CloseIsLast, ReadToItsEnd, Known, AgentTypes, Channels, None
  <2>7. Accounted'
    BY <2>2 DEF Accounted, OnPrimaryOnly, Recorded, NotRunYet
  <2> QED BY <2>4, <2>5, <2>6, <2>7 DEF Wired
<1> QED BY <1>2, <1>3

LEMMA SendSafe == ASSUME IInv, NEW c \in Callers, Send(c) PROVE IInv'
<1> USE DEF IInv
<1> DEFINE m  == Message(my[c].n, my[c].attempt)
           id == MyId(c)
<1>1. m \in Messages
  BY CallersMessages DEF Send
<1>2. HandsOver(m)
  BY DEF Send, HandsOver
<1>3. AgentTypes' /\ Wired' /\ Accounted' /\ HandshakeNamesPrimary'
  BY <1>1, <1>2, HandedOver
<1>4. /\ pending' = [i \in DOMAIN pending \cup {id} |-> IF i = id THEN c ELSE pending[i]]
      /\ id \notin DOMAIN pending /\ pc' = [pc EXCEPT ![c] = "waiting"]
      /\ UNCHANGED <<asks, reply, primary, extras, handshake, stopping>>
  BY DEF Send
<1>5. DaemonTypes'
  BY <1>4 DEF DaemonTypes
<1>6. my' \in [Callers -> [n : 0 .. MaxRequests, attempt : 0 .. Attempts,
                           sentTo : Instances \cup {NoCaller}]]
      /\ \A d \in Callers : my'[d].n = my[d].n /\ my'[d].attempt = my[d].attempt
  BY DEF Send, CallerTypes, DaemonTypes
<1>7. CallerTypes'
  BY <1>4, <1>6 DEF CallerTypes, Send
<1>8. \A d \in Callers : MyId(d)' = MyId(d)
  BY <1>4, <1>6 DEF MyId, Id
<1>9. WaitersAnswered'
  BY <1>4, <1>8 DEF WaitersAnswered, CallerTypes
<1> QED BY <1>3, <1>5, <1>7, <1>9

LEMMA StopAgentSafe == ASSUME IInv, StopAgent PROVE IInv'
<1> USE DEF IInv
<1>1. HandsOver(ShutdownRequest)
  BY DEF StopAgent, HandsOver, Ready
<1>2. AgentTypes' /\ Wired' /\ Accounted' /\ HandshakeNamesPrimary'
  BY <1>1, HandedOver, IdleMessages
<1>3. DaemonTypes'
  BY DEF StopAgent, DaemonTypes
<1>4. CallerTypes' /\ WaitersAnswered'
  BY SameId DEF StopAgent, callerVars, CallerTypes, WaitersAnswered
<1> QED BY <1>2, <1>3, <1>4

-----------------------------------------------------------------------------
(* The frame processor's steps, and the release of the primary.            *)

(* One channel's end is taken off its wire; downwards something may be     *)
(* added for whoever holds it.                                             *)
Hears(h) ==
  /\ chan[h].up # <<>>
  /\ chan' \in [Channels -> Wires]
  /\ \A g \in Channels \ {h} : chan'[g] = chan[g]
  /\ chan'[h].agent = chan[h].agent /\ chan'[h].up = Tail(chan[h].up)
  /\ \/ chan'[h].down = chan[h].down
     \/ Deliverable(h) /\ chan'[h].down = Append(chan[h].down, ShutdownRequest)

LEMMA HeardIsTail ==
  ASSUME AgentTypes, NEW h \in Channels, chan[h].up # <<>>
  PROVE  /\ Heard(h) \in Wires /\ Heard(h).agent = chan[h].agent /\ Heard(h).down = chan[h].down
         /\ Heard(h).up = Tail(chan[h].up)
         /\ chan[h].up \in Ups /\ Head(chan[h].up) \in {Greeting, Closing} \cup Answers
<1>1. chan[h] \in [agent : Instances \cup {NoCaller}, down : Seq(Messages), up : Ups]
  BY DEF AgentTypes, Wires
<1>2. chan[h].up \in Ups
  BY <1>1
<1>3. Tail(chan[h].up) \in Ups /\ Head(chan[h].up) \in {Greeting, Closing} \cup Answers
  BY <1>2 DEF Ups
<1> DEFINE t == Tail(chan[h].up)
<1>4. Heard(h) = [chan[h] EXCEPT !.up = t]
  BY DEF Heard
<1> HIDE DEF t
<1>5. [chan[h] EXCEPT !.up = t] = [agent |-> chan[h].agent, down |-> chan[h].down, up |-> t]
      /\ [agent |-> chan[h].agent, down |-> chan[h].down, up |-> t] \in Wires
  BY <1>1, <1>3, Rewired DEF Wires, t
<1>6. Heard(h).up = t
  BY <1>4, <1>5
<1> QED BY <1>1, <1>2, <1>3, <1>4, <1>5, <1>6 DEF t

LEMMA HearsHeard ==
  ASSUME AgentTypes, NEW h \in Channels, chan[h].up # <<>>, chan' = [chan EXCEPT ![h] = Heard(h)]
  PROVE  Hears(h)
BY HeardIsTail DEF Hears, AgentTypes

LEMMA HearsDismissed ==
  ASSUME AgentTypes, NEW h \in Channels, chan[h].up # <<>>, Dismiss(h)
  PROVE  Hears(h)
<1>1. CASE ~Deliverable(h)
  <2>1. [Heard(h) EXCEPT !.down = @] = Heard(h)
    BY HeardIsTail DEF Wires
  <2> QED BY <1>1, <2>1, HearsHeard DEF Dismiss
<1>2. CASE Deliverable(h)
  <2> DEFINE d == Append(chan[h].down, ShutdownRequest)
             w == [agent |-> chan[h].agent, down |-> d, up |-> Tail(chan[h].up)]
  <2>1. chan[h] \in Wires /\ Heard(h) \in Wires
    BY HeardIsTail DEF AgentTypes
  <2>2. d \in Seq(Messages)
    BY <2>1, IdleMessages DEF Wires
  <2> HIDE DEF d
  <2>3. [Heard(h) EXCEPT !.down = d] = w /\ w \in Wires
    BY ZenonT(30), <2>1, <2>2, HeardIsTail, Rewired DEF Wires
  <2>4. chan' = [chan EXCEPT ![h] = w]
    BY <1>2, <2>3, HeardIsTail DEF Dismiss, d
  <2> QED BY <1>2, <2>3, <2>4 DEF Hears, AgentTypes, d
<1> QED BY <1>1, <1>2

LEMMA Hearing ==
  ASSUME AgentTypes, Wired, NEW h \in Channels, Hears(h), UNCHANGED agentVars
  PROVE  /\ Opener' /\ Working' /\ Deserted' /\ CloseIsLast'
         /\ chan[h].agent # NoCaller
         /\ \A g \in Channels : chan'[g].agent = chan[g].agent
         /\ \A g \in Channels, m \in Messages : m.id.key \in Keys =>
              ((\E i \in DOMAIN chan'[g].down : chan'[g].down[i] = m)
                 => \E i \in DOMAIN chan[g].down : chan[g].down[i] = m)
<1> USE DEF Wired, agentVars, Hears
<1>1. chan[h].agent # NoCaller
  BY DEF Unopened
<1>2. \A g \in Channels : chan'[g].agent = chan[g].agent
  OBVIOUS
<1>3. Opener' /\ Working'
  BY <1>2 DEF Opener, Working, AgentTypes, Channels, None
<1>4. Deserted'
  BY DEF Deserted, Deliverable, AgentTypes
<1>5. CloseIsLast'
  <2>1. chan[h].up \in Ups
    BY HeardIsTail
  <2>2. /\ Len(Tail(chan[h].up)) = Len(chan[h].up) - 1
        /\ \A i \in DOMAIN Tail(chan[h].up) :
             i + 1 \in DOMAIN chan[h].up /\ Tail(chan[h].up)[i] = chan[h].up[i + 1]
    BY <2>1, Tails
  <2>3. \A i \in DOMAIN Tail(chan[h].up) : i \in Nat
    BY <2>1 DEF Ups
  <2>4. Len(chan[h].up) \in Nat
    BY <2>1 DEF Ups
  <2>5. ASSUME NEW i \in DOMAIN chan'[h].up, chan'[h].up[i] = Closing
        PROVE  i = Len(chan'[h].up) /\ \A a \in Instances : at'[a] # h
    <3>1. i + 1 \in DOMAIN chan[h].up /\ chan[h].up[i + 1] = Closing
      BY <2>2, <2>5
    <3>2. i + 1 = Len(chan[h].up) /\ \A a \in Instances : at[a] # h
      BY <3>1 DEF CloseIsLast
    <3> QED BY SMTT(20), <3>2, <2>2, <2>3, <2>4, <2>5
  <2>6. ASSUME NEW g \in Channels, NEW i \in DOMAIN chan'[g].up, chan'[g].up[i] = Closing
        PROVE  i = Len(chan'[g].up) /\ \A a \in Instances : at'[a] # g
    BY <2>5, <2>6 DEF CloseIsLast
  <2> QED BY <2>6 DEF CloseIsLast
<1>6. ASSUME NEW g \in Channels, NEW m \in Messages, m.id.key \in Keys,
             NEW i \in DOMAIN chan'[g].down, chan'[g].down[i] = m
      PROVE  \E j \in DOMAIN chan[g].down : chan[g].down[j] = m
  <2>1. CASE chan'[g].down = chan[g].down
    BY <2>1, <1>6
  <2>2. CASE chan'[g].down = Append(chan[g].down, ShutdownRequest)
    <3>1. chan[g].down \in Seq(Messages)
      BY DEF AgentTypes, Wires
    <3>2. m # ShutdownRequest
      BY <1>6, IdleMessages
    <3> QED BY <2>2, <3>1, <3>2, <1>6
  <2> QED BY <2>1, <2>2
<1> QED BY <1>1, <1>2, <1>3, <1>4, <1>5, <1>6

(* The keys' account when the primary changes hands: nothing new is on its *)
(* way to an agent, and of each key whose record counts nothing is, or the *)
(* primary stays.                                                          *)
Nowhere(k) ==
  /\ \A h \in Channels : \A i \in DOMAIN chan[h].down : chan[h].down[i].id.key # k
  /\ \A a \in Instances : doing[a].id.key # k

NothingNewDown ==
  \A h \in Channels : \A i \in DOMAIN chan'[h].down :
    chan'[h].down[i].id.key \in Keys => \E j \in DOMAIN chan[h].down : chan[h].down[j] = chan'[h].down[i]

LEMMA KeyedWork ==
  ASSUME IInv, NEW k \in Keys, NEW a \in Instances, doing[a].id.key = k
  PROVE  doing[a] # NoMessage /\ at[a] \in Channels
<1>1. doing[a] # NoMessage
  BY IdleMessages
<1> QED BY <1>1 DEF IInv, Wired, Working, AgentTypes, Channels, None

(* Whoever executes something goes on with it, where it was, or stops.     *)
WorkersStay ==
  \A a \in Instances : doing'[a] = NoMessage \/ (doing'[a] = doing[a] /\ at'[a] = at[a])

LEMMA KeysInPlace ==
  ASSUME IInv, NothingNewDown, WorkersStay, NEW k \in Keys \ excused,
         primary' = primary \/ Nowhere(k)
  PROVE  OnPrimaryOnly(k)' /\ \A a \in Instances : doing'[a].id.key = k => doing[a].id.key = k
<1>1. OnPrimaryOnly(k)
  BY DEF IInv, Accounted
<1>2. ASSUME NEW h \in Channels \ {primary'}, NEW i \in DOMAIN chan'[h].down, chan'[h].down[i].id.key = k
      PROVE  FALSE
  <2>1. PICK j \in DOMAIN chan[h].down : chan[h].down[j].id.key = k
    BY <1>2 DEF NothingNewDown
  <2> QED BY <1>1, <1>2, <2>1 DEF OnPrimaryOnly, Nowhere
<1>3. ASSUME NEW a \in Instances, doing'[a].id.key = k
      PROVE  doing[a].id.key = k /\ at'[a] = primary'
  <2>1. doing'[a] = doing[a] /\ at'[a] = at[a]
    BY <1>3, IdleMessages DEF WorkersStay
  <2> QED BY <1>1, <1>3, <2>1 DEF OnPrimaryOnly, Nowhere
<1> QED BY <1>2, <1>3 DEF OnPrimaryOnly

LEMMA KeysStay ==
  ASSUME IInv, NothingNewDown, WorkersStay, UNCHANGED <<disk, runs>>, excused \subseteq excused',
         \A k \in Keys \ excused' : primary' = primary \/ Nowhere(k)
  PROVE  Accounted'
<1> SUFFICES ASSUME NEW k \in Keys \ excused'
             PROVE  OnPrimaryOnly(k)' /\ Recorded(k)' /\ NotRunYet(k)'
  BY DEF Accounted
<1>1. Recorded(k) /\ NotRunYet(k)
  BY DEF IInv, Accounted
<1>2. OnPrimaryOnly(k)' /\ \A a \in Instances : doing'[a].id.key = k => doing[a].id.key = k
  BY KeysInPlace
<1> QED BY <1>1, <1>2 DEF Recorded, NotRunYet

LEMMA NowhereOff ==
  ASSUME IInv, NEW k \in Keys \ excused,
         \/ primary = None
         \/ \A a \in Instances : at[a] # primary
         \/ k \notin KeysOn(primary)
  PROVE  Nowhere(k)
<1>1. OnPrimaryOnly(k)
  BY DEF IInv, Accounted
<1>2. \A a \in Instances : doing[a].id.key = k => at[a] \in Channels /\ at[a] = primary
  BY <1>1, KeyedWork DEF OnPrimaryOnly
<1>3. CASE primary = None
  BY <1>1, <1>2, <1>3 DEF Nowhere, OnPrimaryOnly, None, Channels
<1>4. CASE primary \in Channels /\ \A a \in Instances : at[a] # primary
  <2>1. chan[primary].down = <<>>
    BY <1>4 DEF IInv, Wired, Deserted
  <2> QED BY <1>1, <1>2, <1>4, <2>1 DEF Nowhere, OnPrimaryOnly
<1>5. CASE primary \in Channels /\ k \notin KeysOn(primary)
  BY <1>1, <1>2, <1>5 DEF Nowhere, OnPrimaryOnly, KeysOn, Keys
<1>6. primary = None \/ primary \in Channels
  BY DEF IInv, DaemonTypes, None, Channels
<1> QED BY <1>3, <1>4, <1>5, <1>6

LEMMA HearingNothingNew ==
  ASSUME IInv, NEW h \in Channels, Hears(h), UNCHANGED agentVars
  PROVE  NothingNewDown
<1>1. \A g \in Channels : \A i \in DOMAIN chan'[g].down : chan'[g].down[i] \in Messages
  BY DEF Hears, Wires
<1> QED BY <1>1, Hearing DEF NothingNewDown, IInv

(* No waiter is forgotten by a step that answers every one of them.        *)
LEMMA FailingAnswers ==
  ASSUME IInv, FailPending, UNCHANGED <<asks, pc, my>>
  PROVE  WaitersAnswered' /\ CallerTypes'
<1> USE DEF IInv
<1>1. reply' = [c \in Callers |-> IF \E id \in DOMAIN pending : pending[id] = c THEN Closed ELSE reply[c]]
  BY DEF FailPending
<1>2. CallerTypes'
  BY <1>1, NamesTyped DEF CallerTypes
<1>3. WaitersAnswered'
  BY <1>1, NamesTyped, SameId DEF WaitersAnswered
<1> QED BY <1>2, <1>3

LEMMA CallersKept ==
  ASSUME IInv, UNCHANGED <<pending, callerVars>>
  PROVE  WaitersAnswered' /\ CallerTypes'
BY SameId DEF IInv, callerVars, WaitersAnswered, CallerTypes

LEMMA RespondSafe == ASSUME IInv, NEW h \in Channels, Respond(h) PROVE IInv'
<1> USE DEF IInv
<1> DEFINE msg == Head(chan[h].up)
<1>1. Hears(h) /\ UNCHANGED <<agentVars, ghostVars, primary, extras, handshake, stopping, asks, pc, my>>
  BY HearsHeard DEF Respond
<1>2. msg \in Answers
  BY HeardIsTail DEF Respond, Greeting, Closing
<1>3. Accounted'
  BY <1>1, HearingNothingNew, KeysStay DEF WorkersStay, agentVars, journalVars, ghostVars
<1>4. Wired'
  BY <1>1, Hearing DEF Wired, Unopened, ReadToItsEnd, Known, Hears, agentVars
<1>5. DaemonTypes' /\ AgentTypes' /\ HandshakeNamesPrimary'
  BY <1>1, Hearing DEF DaemonTypes, AgentTypes, HandshakeNamesPrimary, Hears, agentVars, ghostVars, None, Channels
<1>6. CASE h \in extras \/ msg.id \notin DOMAIN pending
  BY <1>1, <1>3, <1>4, <1>5, <1>6, CallersKept DEF Respond, callerVars
<1>7. CASE ~(h \in extras \/ msg.id \notin DOMAIN pending)
  <2>1. /\ reply' = [reply EXCEPT ![pending[msg.id]] = msg.reply]
        /\ pending' = [i \in DOMAIN pending \ {msg.id} |-> pending[i]]
    BY <1>7 DEF Respond
  <2>2. msg.reply \in Replies \ {NoReply}
    BY <1>2 DEF Answers
  <2>3. CallerTypes'
    BY <1>1, <2>1, <2>2 DEF CallerTypes
  <2>4. WaitersAnswered'
    BY <1>1, <2>1, <2>2, SameId DEF WaitersAnswered, CallerTypes
  <2> QED BY <1>3, <1>4, <1>5, <2>3, <2>4
<1> QED BY <1>6, <1>7

LEMMA CloseSafe == ASSUME IInv, NEW h \in Channels, Close(h) PROVE IInv'
<1> USE DEF IInv
<1>1. Hears(h) /\ UNCHANGED <<agentVars, ghostVars, stopping, asks, told, pc, my>>
  BY HearsHeard DEF Close
<1>2. h # None /\ h \in 0 .. MaxChannels
  BY DEF Channels, None
<1>3. (\A a \in Instances : at[a] # h) /\ Len(chan[h].up) = 1
  <2>1. chan[h].up \in Ups /\ chan[h].up # <<>> /\ chan[h].up[1] = Closing
    BY HeardIsTail DEF Close, Ups
  <2>2. 1 \in DOMAIN chan[h].up
    BY <2>1 DEF Ups
  <2> QED BY <2>1, <2>2 DEF Wired, CloseIsLast
<1>4. chan'[h].up = <<>>
  <2>1. chan[h].up \in Ups
    BY HeardIsTail DEF Close
  <2>2. Tail(chan[h].up) = <<>>
    BY <1>3, <2>1, Tails
  <2> QED BY <1>1, <2>2 DEF Hears
<1>5. \/ h \in extras /\ primary # h /\ extras' = extras \ {h} /\ UNCHANGED <<primary, handshake, pending, reply>>
      \/ h \notin extras /\ primary # h /\ UNCHANGED <<primary, extras, handshake, pending, reply>>
      \/ h \notin extras /\ primary = h /\ primary' = None /\ handshake' = NoCaller /\ FailPending
           /\ UNCHANGED extras
  BY DEF Close, DaemonTypes
<1>6. DaemonTypes' /\ AgentTypes' /\ HandshakeNamesPrimary'
  <2>1. DaemonTypes'
    <3>1. stopping' \in [channel : 0 .. MaxChannels, count : Nat]
      BY <1>1 DEF DaemonTypes
    <3>2. extras' \subseteq extras /\ primary' \in {primary, None} /\ handshake' \in {handshake, NoCaller}
      BY <1>5
    <3>3. None \in 0 .. MaxChannels /\ None \notin Channels
      BY LimitsAssumption DEF None, Channels
    <3> QED BY <3>1, <3>2, <3>3 DEF DaemonTypes
  <2>2. AgentTypes'
    BY <1>1 DEF AgentTypes, Hears, agentVars, ghostVars
  <2>3. HandshakeNamesPrimary'
    BY <1>1, <1>5, Hearing DEF HandshakeNamesPrimary, DaemonTypes, None, Channels
  <2> QED BY <2>1, <2>2, <2>3
<1>7. Wired'
  BY <1>1, <1>2, <1>3, <1>4, <1>5, Hearing
     DEF Wired, Unopened, ReadToItsEnd, Known, Hears, agentVars, None, Channels
<1>8. Accounted'
  BY <1>1, <1>3, <1>5, HearingNothingNew, KeysStay, NowhereOff DEF WorkersStay, agentVars, journalVars, ghostVars
<1>9. WaitersAnswered' /\ CallerTypes'
  BY <1>1, <1>5, FailingAnswers, CallersKept DEF callerVars
<1> QED BY <1>6, <1>7, <1>8, <1>9

LEMMA ReleasePrimarySafe == ASSUME IInv, ReleasePrimary PROVE IInv'
<1> USE DEF IInv
<1>1. UNCHANGED <<chan, agentVars, asks, told, pc, my, ran, runs>> /\ stopping.channel # None
  BY DEF ReleasePrimary
<1>2. stopping' = [stopping EXCEPT !.channel = None]
      /\ stopping' \in [channel : 0 .. MaxChannels, count : Nat]
  BY LimitsAssumption DEF ReleasePrimary, DaemonTypes, None
<1>3. CASE primary # stopping.channel
  <2>1. UNCHANGED <<primary, extras, handshake, pending, reply, excused>>
    BY <1>3 DEF ReleasePrimary
  <2>2. DaemonTypes' /\ AgentTypes' /\ HandshakeNamesPrimary'
    BY <1>1, <1>2, <2>1 DEF DaemonTypes, AgentTypes, HandshakeNamesPrimary, agentVars
  <2>3. Wired'
    BY <1>1, <2>1 DEF Wired, Unopened, Opener, Working, Deserted, CloseIsLast, ReadToItsEnd, Known, agentVars
  <2>4. Accounted'
    BY <1>1, <2>1 DEF Accounted, OnPrimaryOnly, Recorded, NotRunYet, agentVars, journalVars
  <2> QED BY <1>1, <2>1, <2>2, <2>3, <2>4, CallersKept DEF callerVars
<1>4. CASE primary = stopping.channel
  <2>1. /\ primary' = None /\ handshake' = NoCaller /\ extras' = extras \cup {primary}
        /\ excused' = excused \cup KeysOn(primary) /\ FailPending
    BY <1>4 DEF ReleasePrimary
  <2>2. primary \in Channels /\ primary # None
    BY <1>1, <1>4 DEF DaemonTypes, None, Channels
  <2>3. DaemonTypes' /\ AgentTypes' /\ HandshakeNamesPrimary'
    BY <1>1, <1>2, <2>1, <2>2, LimitsAssumption
       DEF DaemonTypes, AgentTypes, HandshakeNamesPrimary, agentVars, None, Channels
  <2>4. Wired'
    BY <1>1, <2>1, <2>2
       DEF Wired, Unopened, Opener, Working, Deserted, CloseIsLast, ReadToItsEnd, Known, agentVars,
           None, Channels
  <2>5. Accounted'
    BY <1>1, <2>1, KeysStay, NowhereOff DEF NothingNewDown, WorkersStay, agentVars, journalVars
  <2> QED BY <1>1, <2>1, <2>3, <2>4, <2>5, FailingAnswers
<1> QED BY <1>3, <1>4

LEMMA GreetSafe == ASSUME IInv, NEW h \in Channels, Greet(h) PROVE IInv'
<1> USE DEF IInv
<1>1. Hears(h) /\ UNCHANGED <<pending, stopping, agentVars, callerVars, ran, runs>>
  BY HearsHeard, HearsDismissed DEF Greet
<1>2. h # None /\ h \in 0 .. MaxChannels
  BY DEF Channels, None
<1>3. chan[h].agent # NoCaller /\ chan[h].agent \in Instances
  BY <1>1, Hearing DEF AgentTypes, Wires
<1>4. h = primary \/ h \in extras
  BY <1>1, <1>3 DEF Hears, Wired, ReadToItsEnd
<1>5. \/ /\ chan[h].agent \in Stale /\ UNCHANGED handshake
         /\ primary' = (IF primary = h THEN None ELSE primary)
         /\ extras' = extras \cup {h} /\ excused' = excused \cup KeysOn(h)
      \/ UNCHANGED <<primary, extras, handshake, excused>>
      \/ /\ chan[h].agent \notin Stale /\ primary \in {None, h} /\ UNCHANGED excused
         /\ handshake' = chan[h].agent /\ primary' = h /\ extras' = extras \ {h}
  BY <1>4 DEF Greet
<1>6. DaemonTypes' /\ AgentTypes'
  <2>1. DaemonTypes'
    <3>1. stopping' \in [channel : 0 .. MaxChannels, count : Nat]
      BY <1>1 DEF DaemonTypes
    <3>2. extras' \subseteq extras \cup {h} /\ handshake' \in {handshake, chan[h].agent}
          /\ primary' \in {primary, h, None}
      BY <1>5
    <3>3. primary' \notin extras'
      BY <1>2, <1>5 DEF DaemonTypes, None, Channels
    <3>4. None \in 0 .. MaxChannels
      BY LimitsAssumption DEF None
    <3> QED BY <1>2, <1>3, <3>1, <3>2, <3>3, <3>4 DEF DaemonTypes
  <2>2. AgentTypes'
    BY <1>1 DEF AgentTypes, Hears, agentVars
  <2> QED BY <2>1, <2>2
<1>7. HandshakeNamesPrimary'
  BY <1>1, <1>2, <1>3, <1>5, Hearing DEF HandshakeNamesPrimary, DaemonTypes, None, Channels
<1>8. Wired'
  BY <1>1, <1>2, <1>3, <1>4, <1>5, Hearing
     DEF Wired, Unopened, ReadToItsEnd, Known, Hears, agentVars, None, Channels
<1>9. Accounted'
  BY <1>1, <1>5, HearingNothingNew, KeysStay, NowhereOff DEF WorkersStay, agentVars, journalVars, None
<1>10. WaitersAnswered' /\ CallerTypes'
  BY <1>1, CallersKept
<1> QED BY <1>6, <1>7, <1>8, <1>9, <1>10

LEMMA OpenSafe == ASSUME IInv, NEW a \in Instances, NEW h \in Channels, Open(a, h) PROVE IInv'
<1> USE DEF IInv
<1> DEFINE w == [agent |-> a, down |-> <<>>, up |-> <<Greeting>>]
<1>1. /\ a \in alive /\ at[a] = None /\ chan[h].agent = NoCaller
      /\ at' = [at EXCEPT ![a] = h] /\ chan' = [chan EXCEPT ![h] = w]
      /\ UNCHANGED <<handshake, pending, stopping, alive, doing, journalVars, callerVars, ghostVars>>
  BY DEF Open, Fresh
<1>2. h # None /\ h \in 0 .. MaxChannels /\ h # primary /\ h \notin extras
      /\ chan[h].down = <<>> /\ chan[h].up = <<>>
  BY <1>1 DEF Channels, None, Wired, Unopened
<1>3. w \in Wires /\ a # NoCaller
  BY LimitsAssumption DEF Wires, Ups
<1>4. \/ primary = None /\ primary' = h /\ UNCHANGED extras
      \/ primary # None /\ extras' = extras \cup {h} /\ UNCHANGED primary
  BY DEF Open
<1>5. DaemonTypes' /\ AgentTypes' /\ HandshakeNamesPrimary'
  <2>1. DaemonTypes'
    BY <1>1, <1>2, <1>4 DEF DaemonTypes, None
  <2>2. AgentTypes'
    BY <1>1, <1>2, <1>3 DEF AgentTypes, ghostVars
  <2>3. HandshakeNamesPrimary'
    BY <1>1, <1>2, <1>4 DEF HandshakeNamesPrimary, DaemonTypes, AgentTypes, None, Channels
  <2> QED BY <2>1, <2>2, <2>3
<1>6. \A b \in Instances : at[b] # h
  BY <1>1, <1>2, LimitsAssumption DEF Wired, Opener
<1>7. \A b \in Instances : at[b] # None => at[b] \in Channels
  BY DEF AgentTypes, None, Channels
<1>8. Unopened' /\ Opener' /\ Working' /\ Deserted'
  BY <1>1, <1>2, <1>3, <1>4, <1>6, <1>7, LimitsAssumption
     DEF Wired, Unopened, Opener, Working, Deserted, AgentTypes, None, Channels
<1>9. CloseIsLast'
  <2> SUFFICES ASSUME NEW g \in Channels, NEW i \in DOMAIN chan'[g].up, chan'[g].up[i] = Closing
               PROVE  i = Len(chan'[g].up) /\ \A b \in Instances : at'[b] # g
    BY DEF CloseIsLast
  <2>1. g # h
    BY <1>1 DEF AgentTypes, Greeting, Closing
  <2> QED BY <2>1, <1>1 DEF Wired, CloseIsLast, AgentTypes
<1>10. ReadToItsEnd' /\ Known'
  <2>1. ReadToItsEnd'
    BY <1>1, <1>2, <1>4 DEF Wired, ReadToItsEnd, AgentTypes, None, Channels
  <2>2. Known'
    BY <1>1, <1>2, <1>4 DEF Wired, Known, AgentTypes
  <2> QED BY <2>1, <2>2
<1>11. Accounted'
  <2>1. NothingNewDown
    BY <1>1 DEF NothingNewDown, AgentTypes
  <2>2. WorkersStay
    BY <1>1 DEF WorkersStay, Wired, Working, AgentTypes
  <2> QED BY <1>1, <1>4, <2>1, <2>2, KeysStay, NowhereOff DEF journalVars, ghostVars
<1>12. WaitersAnswered' /\ CallerTypes'
  BY <1>1, CallersKept
<1> QED BY <1>5, <1>8, <1>9, <1>10, <1>11, <1>12 DEF Wired

-----------------------------------------------------------------------------
(* The agents' steps that keep their channel.                              *)

Works(a) ==
  LET h == at[a]
  IN  /\ h \in Channels
      /\ chan' \in [Channels -> Wires] /\ \A g \in Channels \ {h} : chan'[g] = chan[g]
      /\ chan'[h].agent = chan[h].agent
      /\ \/ chan'[h].down = chan[h].down
         \/ chan[h].down # <<>> /\ chan'[h].down = Tail(chan[h].down)
      /\ \/ chan'[h].up = chan[h].up
         \/ \E x \in Answers : chan'[h].up = Append(chan[h].up, x)
      /\ UNCHANGED <<dvcVars, alive, at, callerVars>>

(* What an agent holds and hears.                                          *)
LEMMA Holding ==
  ASSUME AgentTypes, NEW a \in Instances, Holds(a)
  PROVE  /\ at[a] \in Channels /\ chan[at[a]] \in Wires /\ chan[at[a]].up \in Ups
         /\ chan[at[a]].down \in Seq(Messages)
         /\ chan[at[a]].down # <<>> =>
              /\ NextFor(a) \in Messages
              /\ Taken(a) \in Wires
              /\ Taken(a).agent = chan[at[a]].agent /\ Taken(a).up = chan[at[a]].up
              /\ Taken(a).down = Tail(chan[at[a]].down)
<1> DEFINE h == at[a]
           t == Tail(chan[h].down)
<1>1. h \in Channels /\ chan[h] \in Wires
  BY DEF Holds, AgentTypes, None, Channels
<1>2. chan[h].up \in Ups /\ chan[h].down \in Seq(Messages)
  BY <1>1 DEF Wires
<1>3. ASSUME chan[h].down # <<>>
      PROVE  NextFor(a) \in Messages /\ t \in Seq(Messages)
  BY <1>2, <1>3 DEF NextFor
<1>4. Taken(a) = [chan[h] EXCEPT !.down = t]
  BY DEF Taken
<1> HIDE DEF t
<1>5. ASSUME chan[h].down # <<>>
      PROVE  Taken(a) \in Wires /\ Taken(a).agent = chan[h].agent /\ Taken(a).up = chan[h].up
             /\ Taken(a).down = t
  <2>1. t \in Seq(Messages)
    BY <1>3, <1>5 DEF t
  <2>2. /\ [chan[h] EXCEPT !.down = t] = [agent |-> chan[h].agent, down |-> t, up |-> chan[h].up]
        /\ [chan[h] EXCEPT !.down = t] \in Wires
    BY <1>1, <2>1, WithDown
  <2> QED BY <1>4, <2>2
<1> QED BY <1>1, <1>2, <1>3, <1>5 DEF t

LEMMA TakingWorks ==
  ASSUME AgentTypes, NEW a \in Instances, Free(a), chan' = [chan EXCEPT ![at[a]] = Taken(a)],
         UNCHANGED <<dvcVars, alive, at, callerVars>>
  PROVE  Works(a)
<1> DEFINE h == at[a]
<1>1. Holds(a) /\ chan[h].down # <<>>
  BY DEF Free
<1>2. /\ h \in Channels /\ Taken(a) \in Wires /\ Taken(a).agent = chan[h].agent
      /\ Taken(a).down = Tail(chan[h].down) /\ Taken(a).up = chan[h].up
  BY <1>1, Holding
<1>3. chan'[h] = Taken(a) /\ chan' \in [Channels -> Wires] /\ \A g \in Channels \ {h} : chan'[g] = chan[g]
  BY <1>2 DEF AgentTypes
<1> QED BY <1>1, <1>2, <1>3 DEF Works

LEMMA SayingWorks ==
  ASSUME AgentTypes, NEW a \in Instances, Holds(a), NEW ch, NEW id, NEW r,
         \/ ch = chan[at[a]]
         \/ Free(a) /\ ch = Taken(a),
         Says(a, ch, id, r), Answer(id, r) \in Answers,
         UNCHANGED <<dvcVars, alive, at, callerVars>>
  PROVE  Works(a) /\ chan'[at[a]].up = Append(chan[at[a]].up, Answer(id, r))
<1> DEFINE h == at[a]
           u == Append(chan[h].up, Answer(id, r))
<1>1. u \in Ups
  BY Holding DEF Ups
<1>2. ch \in Wires /\ ch.agent = chan[h].agent /\ ch.up = chan[h].up
      /\ \/ ch.down = chan[h].down
         \/ chan[h].down # <<>> /\ ch.down = Tail(chan[h].down)
  <2>1. CASE ch = chan[h]
    BY <2>1, Holding
  <2>2. CASE Free(a) /\ ch = Taken(a)
    <3>1. chan[h].down # <<>>
      BY <2>2 DEF Free
    <3> QED BY <2>2, <3>1, Holding
  <2> QED BY <2>1, <2>2
<1>3. chan' = [chan EXCEPT ![h] = [ch EXCEPT !.up = u]]
  BY <1>2 DEF Says
<1>4. u = Append(chan[h].up, Answer(id, r))
  OBVIOUS
<1> HIDE DEF u
<1>5. [ch EXCEPT !.up = u] = [agent |-> ch.agent, down |-> ch.down, up |-> u]
      /\ [ch EXCEPT !.up = u] \in Wires
  BY <1>1, <1>2, WithUp
<1>6. /\ chan' \in [Channels -> Wires] /\ \A g \in Channels \ {h} : chan'[g] = chan[g]
      /\ chan'[h] = [ch EXCEPT !.up = u]
  BY <1>3, <1>5, Holding DEF AgentTypes
<1> QED BY <1>2, <1>4, <1>5, <1>6, Holding DEF Works

LEMMA AtWork ==
  ASSUME IInv, NEW a \in Instances, Works(a)
  PROVE  /\ DaemonTypes' /\ CallerTypes' /\ HandshakeNamesPrimary' /\ WaitersAnswered'
         /\ NothingNewDown
         /\ alive' \subseteq Instances /\ chan' \in [Channels -> Wires]
         /\ at' \in [Instances -> 0 .. MaxChannels]
         /\ (Working' => Wired')
<1> USE DEF IInv
<1> DEFINE h == at[a]
<1>1. /\ h \in Channels
      /\ chan' \in [Channels -> Wires] /\ \A g \in Channels \ {h} : chan'[g] = chan[g]
      /\ \A g \in Channels : chan'[g].agent = chan[g].agent
      /\ UNCHANGED <<dvcVars, alive, at, callerVars>>
  BY DEF Works
<1>2. h # None /\ chan[h].agent = a /\ a # NoCaller
  BY <1>1, LimitsAssumption DEF Wired, Opener, None, Channels
<1>3. chan[h].down \in Seq(Messages) /\ chan[h].up \in Ups
  BY <1>1 DEF AgentTypes, Wires
<1>4. DaemonTypes' /\ HandshakeNamesPrimary' /\ CallerTypes' /\ WaitersAnswered'
  <2>1. DaemonTypes' /\ HandshakeNamesPrimary'
    BY <1>1 DEF DaemonTypes, HandshakeNamesPrimary, dvcVars, None, Channels
  <2> QED BY <1>1, <2>1, CallersKept DEF dvcVars
<1>5. NothingNewDown
  <2>1. ASSUME NEW i \in DOMAIN chan'[h].down
        PROVE  \E j \in DOMAIN chan[h].down : chan[h].down[j] = chan'[h].down[i]
    <3>1. CASE chan'[h].down = chan[h].down
      BY <3>1, <2>1
    <3>2. CASE chan[h].down # <<>> /\ chan'[h].down = Tail(chan[h].down)
      BY <3>2, <2>1, <1>3
    <3> QED BY <3>1, <3>2 DEF Works
  <2> QED BY <1>1, <2>1 DEF NothingNewDown
<1>6. Unopened' /\ Opener' /\ Known' /\ ReadToItsEnd' /\ Deserted'
  <2>1. h = primary \/ h \in extras
    BY <1>2 DEF Wired, Known
  <2>2. Unopened' /\ Deserted'
    BY <1>1, <1>2 DEF Wired, Unopened, Deserted, dvcVars
  <2>3. Opener' /\ Known'
    BY <1>1 DEF Wired, Opener, Known, AgentTypes, dvcVars, None, Channels
  <2>4. ReadToItsEnd'
    BY <1>1, <2>1 DEF Wired, ReadToItsEnd, dvcVars
  <2> QED BY <2>2, <2>3, <2>4
<1>7. CloseIsLast'
  <2>1. \A i \in DOMAIN chan[h].up : chan[h].up[i] # Closing
    BY <1>1 DEF Wired, CloseIsLast
  <2>2. \A x \in Answers : x # Closing
    BY DEF Answers, Closing
  <2>3. \A i \in DOMAIN chan'[h].up : chan'[h].up[i] # Closing
    <3>1. CASE chan'[h].up = chan[h].up
      BY <3>1, <2>1
    <3>2. ASSUME NEW x \in Answers, chan'[h].up = Append(chan[h].up, x)
          PROVE  \A i \in DOMAIN chan'[h].up : chan'[h].up[i] # Closing
      BY <3>2, <2>1, <2>2, <1>3 DEF Ups
    <3> QED BY <3>1, <3>2 DEF Works
  <2> QED BY <1>1, <2>3 DEF Wired, CloseIsLast
<1>8. alive' \subseteq Instances /\ at' \in [Instances -> 0 .. MaxChannels]
  BY <1>1 DEF AgentTypes
<1> QED BY <1>1, <1>4, <1>5, <1>6, <1>7, <1>8 DEF Wired

(* A step that executes nothing.                                           *)
LEMMA QuietWork ==
  ASSUME IInv, NEW a \in Instances, Works(a), UNCHANGED <<doing, disk, ghostVars>>
  PROVE  IInv'
<1> USE DEF IInv
<1>1. UNCHANGED <<primary, at>>
  BY DEF Works, dvcVars
<1>2. Wired'
  BY <1>1, AtWork DEF Wired, Working
<1>3. AgentTypes'
  BY AtWork DEF AgentTypes, ghostVars
<1>4. Accounted'
  BY <1>1, AtWork, KeysStay DEF WorkersStay, ghostVars
<1> QED BY <1>2, <1>3, <1>4, AtWork

LEMMA LoseMessageSafe == ASSUME IInv, NEW a \in Instances, LoseMessage(a) PROVE IInv'
<1>1. Works(a)
  BY TakingWorks DEF IInv, LoseMessage, agentVars
<1> QED BY <1>1, QuietWork DEF LoseMessage, agentVars, journalVars

LEMMA ReplaySafe == ASSUME IInv, NEW a \in Instances, Replay(a) PROVE IInv'
<1> DEFINE m == NextFor(a)
<1>1. PICK v \in {"ok", "failed", "reused"} : Says(a, Taken(a), m.id, Reply(v, a))
  BY DEF Replay
<1>2. Free(a) /\ Holds(a) /\ UNCHANGED <<dvcVars, alive, at, callerVars, doing, disk, ghostVars>>
  BY DEF Replay, Free
<1>3. m \in Messages
  BY <1>2, Holding DEF IInv, Free
<1>4. Answer(m.id, Reply(v, a)) \in Answers
  BY <1>3, AgentsAnswers DEF Messages
<1>5. Works(a)
  BY <1>1, <1>2, <1>4, SayingWorks DEF IInv
<1> QED BY <1>2, <1>5, QuietWork

LEMMA AnswerQuerySafe == ASSUME IInv, NEW a \in Instances, AnswerQuery(a) PROVE IInv'
<1> DEFINE m == NextFor(a)
<1>1. PICK v \in {"ok", "failed", "evicted", "unknown"} : Says(a, Taken(a), m.id, Reply(v, a))
  BY DEF AnswerQuery
<1>2. Free(a) /\ Holds(a) /\ UNCHANGED <<dvcVars, alive, at, callerVars, doing, disk, ghostVars>>
  BY DEF AnswerQuery, Free
<1>3. m \in Messages
  BY <1>2, Holding DEF IInv, Free
<1>4. Answer(m.id, Reply(v, a)) \in Answers
  BY <1>3, AgentsAnswers DEF Messages
<1>5. Works(a)
  BY <1>1, <1>2, <1>4, SayingWorks DEF IInv
<1> QED BY <1>2, <1>5, QuietWork

(* What an agent begins to execute was the first thing on its way to it,   *)
(* and no record of it was found.                                          *)
LEMMA StartSafe == ASSUME IInv, NEW a \in Instances, Start(a) PROVE IInv'
<1> USE DEF IInv
<1> DEFINE h == at[a]
           m == NextFor(a)
<1>1. /\ Free(a) /\ Holds(a) /\ doing' = [doing EXCEPT ![a] = m]
      /\ chan' = [chan EXCEPT ![at[a]] = Taken(a)]
      /\ UNCHANGED <<dvcVars, alive, at, journalVars, callerVars, ghostVars>>
  BY DEF Start, Free
<1>2. Works(a) /\ UNCHANGED <<primary, at>>
  BY <1>1, TakingWorks DEF dvcVars
<1>3. m \in Messages /\ h \in Channels /\ 1 \in DOMAIN chan[h].down /\ m = chan[h].down[1]
  <2>1. chan[h].down \in Seq(Messages) /\ chan[h].down # <<>>
    BY <1>1, Holding DEF Free
  <2>2. 1 \in DOMAIN chan[h].down /\ m = chan[h].down[1]
    BY <2>1 DEF NextFor
  <2> QED BY <1>1, <2>1, <2>2, Holding
<1>4. AgentTypes'
  BY <1>1, <1>2, <1>3, AtWork DEF AgentTypes, ghostVars
<1>5. Wired'
  <2>1. Working'
    BY <1>1, <1>3 DEF Working, Wired, AgentTypes, None, Channels
  <2> QED BY <2>1, <1>2, AtWork
<1>6. Accounted'
  <2> SUFFICES ASSUME NEW k \in Keys \ excused
               PROVE  OnPrimaryOnly(k)' /\ Recorded(k)' /\ NotRunYet(k)'
    BY <1>1 DEF Accounted, ghostVars
  <2>1. OnPrimaryOnly(k) /\ Recorded(k) /\ NotRunYet(k)
    BY DEF Accounted
  <2>2. Recorded(k)'
    BY <1>1, <2>1 DEF Recorded, journalVars, ghostVars
  <2>3. m.id.key = k => h = primary /\ runs[k] = 0
    <3> SUFFICES ASSUME m.id.key = k PROVE h = primary /\ runs[k] = 0
      OBVIOUS
    <3>1. h = primary
      BY <1>3, <2>1 DEF OnPrimaryOnly
    <3>2. m.id = KeyId(k) /\ IsKeyed(m)
      BY <1>3, KeyedIds DEF IsKeyed, Keys
    <3>3. {e \in disk : e.id = KeyId(k)} = {}
      BY <3>2 DEF Start, Lookup
    <3>4. runs[k] # 1 /\ runs[k] <= 1 /\ runs[k] \in Nat
      BY <2>1, <3>3 DEF Recorded, AgentTypes
    <3> QED BY <3>1, <3>4
  <2>4. \A b \in Instances : doing'[b].id.key = k => at[b] = primary /\ runs[k] = 0
    BY <1>1, <2>1, <2>3 DEF OnPrimaryOnly, NotRunYet, AgentTypes
  <2>5. \A g \in Channels \ {primary} : \A i \in DOMAIN chan'[g].down : chan'[g].down[i].id.key # k
    BY <1>2, <2>1, AtWork DEF NothingNewDown, OnPrimaryOnly
  <2> QED BY <1>1, <1>2, <2>2, <2>4, <2>5 DEF OnPrimaryOnly, NotRunYet, ghostVars
<1> QED BY <1>2, <1>4, <1>5, <1>6, AtWork

(* A command ends.  Counted, it leaves a record on disk, or one excuse.    *)
LEMMA RunAccounted ==
  ASSUME IInv, NEW a \in Instances, NothingNewDown, UNCHANGED primary,
         doing' = [doing EXCEPT ![a] = NoMessage],
         \A b \in Instances \ {a} : at'[b] = at[b],
         IsKeyed(doing[a]), runs' = [runs EXCEPT ![doing[a].id.key] = @ + 1],
         excused \subseteq excused',
         \A d \in disk : d \in disk' \/ d.id.key \in excused',
         doing[a].id.key \in excused' \/ \E d \in disk' : d.id = doing[a].id
  PROVE  Accounted' /\ runs' \in [Keys -> Nat]
<1> USE DEF IInv
<1> DEFINE m == doing[a]
<1>1. m \in Messages /\ doing'[a] = NoMessage /\ \A b \in Instances \ {a} : doing'[b] = doing[b]
  BY DEF AgentTypes
<1>2. m.id.key \in Keys
  BY <1>1 DEF IsKeyed, Messages, MsgIds, KeyIds, OwnIds, KeyId
<1>3. runs' \in [Keys -> Nat]
  BY <1>2 DEF AgentTypes
<1>4. WorkersStay
  BY <1>1 DEF WorkersStay
<1> SUFFICES ASSUME NEW k \in Keys \ excused'
             PROVE  OnPrimaryOnly(k)' /\ Recorded(k)' /\ NotRunYet(k)'
  BY <1>3 DEF Accounted
<1>5. OnPrimaryOnly(k) /\ Recorded(k) /\ NotRunYet(k)
  BY DEF Accounted
<1>6. OnPrimaryOnly(k)' /\ \A b \in Instances : doing'[b].id.key = k => doing[b].id.key = k
  BY <1>4, KeysInPlace
<1>7. CASE m.id.key # k
  <2>1. runs'[k] = runs[k]
    BY <1>2, <1>7 DEF AgentTypes
  <2>2. \A d \in disk : d.id = KeyId(k) => d \in disk'
    BY DEF KeyId
  <2>3. Recorded(k)'
    BY <1>5, <2>1, <2>2 DEF Recorded
  <2> QED BY <1>5, <1>6, <2>1, <2>3 DEF NotRunYet
<1>8. CASE m.id.key = k
  <2>1. m.id = KeyId(k) /\ runs[k] = 0 /\ runs'[k] = 1
    BY <1>1, <1>2, <1>5, <1>8, KeyedIds DEF NotRunYet, AgentTypes
  <2>2. Recorded(k)'
    BY <1>8, <2>1 DEF Recorded
  <2>3. ASSUME NEW b \in Instances, doing'[b].id.key = k
        PROVE  FALSE
    <3>1. b # a /\ doing[b].id.key = k
      BY <1>1, <1>6, <2>3, IdleMessages
    <3>2. at[b] = at[a] /\ at[a] \in Channels
      BY <1>5, <1>8, <3>1, KeyedWork DEF OnPrimaryOnly
    <3>3. chan[at[a]].agent = a /\ chan[at[b]].agent = b
      BY <3>2 DEF Wired, Opener, Channels, None
    <3> QED BY <3>1, <3>2, <3>3
  <2> QED BY <1>6, <2>2, <2>3 DEF NotRunYet
<1> QED BY <1>7, <1>8

LEMMA Completed ==
  ASSUME IInv, NEW a \in Instances, NothingNewDown, UNCHANGED primary,
         doing' = [doing EXCEPT ![a] = NoMessage],
         \A b \in Instances \ {a} : at'[b] = at[b],
         NEW o, NEW written \in BOOLEAN, NEW old, Complete(a, o, written, old)
  PROVE  Accounted' /\ runs' \in [Keys -> Nat]
<1> DEFINE m == doing[a]
           e == Entry(m.id, m.cmd, o.ok)
<1>1. CASE IsKeyed(m) /\ o.effect
  <2>1. runs' = [runs EXCEPT ![m.id.key] = @ + 1]
    BY <1>1 DEF Complete, TakesEffect
  <2>2. /\ Persist(a, e, written, old)
        /\ excused' = excused \cup {d.id.key : d \in old} \cup IF written THEN {} ELSE {m.id.key}
    BY <1>1 DEF Complete
  <2>3. \A d \in disk : d \in disk' \/ d.id.key \in excused'
    BY <2>2 DEF Persist
  <2>4. m.id.key \in excused' \/ \E d \in disk' : d.id = m.id
    <3>1. CASE ~written
      BY <3>1, <2>2
    <3>2. CASE written /\ \A d \in disk : d.id # e.id
      <4>1. e \in disk'
        BY <3>2, <2>2 DEF Persist
      <4>2. e.id = m.id
        BY DEF Entry
      <4> QED BY <4>1, <4>2
    <3>3. ASSUME NEW d \in disk, d.id = e.id
          PROVE  m.id.key \in excused' \/ \E x \in disk' : x.id = m.id
      BY <3>3, <2>3 DEF Entry
    <3> QED BY <3>1, <3>2, <3>3
  <2> QED BY <1>1, <2>1, <2>2, <2>3, <2>4, RunAccounted
<1>2. CASE ~(IsKeyed(m) /\ o.effect)
  <2>1. UNCHANGED <<disk, runs, excused>>
    BY <1>2 DEF Complete, TakesEffect
  <2>2. WorkersStay
    BY DEF WorkersStay, IInv, AgentTypes
  <2> QED BY <2>1, <2>2, KeysStay DEF IInv, AgentTypes
<1> QED BY <1>1, <1>2

(* The agent goes on with its channel.                                     *)
LEMMA ReportedSafe ==
  ASSUME IInv, NEW a \in Instances, Holds(a), doing[a] # NoMessage,
         NEW o, NEW written \in BOOLEAN, NEW old, Complete(a, o, written, old), Reports(a, o)
  PROVE  IInv'
<1> USE DEF IInv
<1>1. PICK v \in {"ok", "failed"} : Says(a, chan[at[a]], doing[a].id, Reply(v, a))
  BY DEF Reports
<1>2. doing' = [doing EXCEPT ![a] = NoMessage] /\ UNCHANGED <<dvcVars, alive, at, callerVars>>
  BY DEF Reports
<1>3. Answer(doing[a].id, Reply(v, a)) \in Answers
  BY AgentsAnswers DEF AgentTypes, Messages
<1>4. Works(a)
  BY <1>1, <1>2, <1>3, SayingWorks
<1>5. Accounted' /\ runs' \in [Keys -> Nat]
  BY <1>2, <1>4, AtWork, Completed DEF dvcVars
<1>6. AgentTypes'
  BY <1>2, <1>4, <1>5, AtWork, IdleMessages DEF AgentTypes
<1>7. Wired'
  <2>1. Working'
    BY <1>2 DEF Wired, Working, AgentTypes
  <2> QED BY <1>4, <2>1, AtWork
<1> QED BY <1>4, <1>5, <1>6, <1>7, AtWork

LEMMA FinishSafe == ASSUME IInv, NEW a \in Instances, Finish(a) PROVE IInv'
BY ReportedSafe DEF Finish

LEMMA FinishUnrecordedSafe == ASSUME IInv, NEW a \in Instances, FinishUnrecorded(a) PROVE IInv'
<1>1. doing[a] # NoMessage
  BY DEF FinishUnrecorded, IsKeyed, NoMessage, ShutdownId
<1> QED BY <1>1, ReportedSafe DEF FinishUnrecorded

-----------------------------------------------------------------------------
(* The agents' steps that let go of the channel.                           *)

Leaves(a) ==
  LET h == at[a]
  IN  /\ h \in Channels /\ at' = [at EXCEPT ![a] = None]
      /\ alive' \in {alive, alive \ {a}} /\ doing' = [doing EXCEPT ![a] = NoMessage]
      /\ \E u \in Ups : /\ u = chan[h].up \/ \E x \in Answers : u = Append(chan[h].up, x)
                        /\ chan' = [chan EXCEPT ![h] = [agent |-> chan[h].agent, down |-> <<>>,
                                                        up |-> Append(u, Closing)]]
      /\ UNCHANGED <<dvcVars, callerVars>>

LEMMA Departing ==
  ASSUME AgentTypes, NEW a \in Instances, Holds(a), NEW words \in Seq({Closing} \cup Answers)
  PROVE  Deserting(a, words) = [agent |-> chan[at[a]].agent, down |-> <<>>, up |-> chan[at[a]].up \o words]
<1> DEFINE v == chan[at[a]].up \o words
           e == <<>>
<1>1. v \in Ups /\ e \in Seq(Messages) /\ chan[at[a]] \in Wires
  BY Holding DEF Ups
<1>2. Deserting(a, words) = [chan[at[a]] EXCEPT !.down = e, !.up = v]
  BY DEF Deserting
<1> HIDE DEF v, e
<1>3. [chan[at[a]] EXCEPT !.down = e, !.up = v] = [agent |-> chan[at[a]].agent, down |-> e, up |-> v]
  BY <1>1, Rewired
<1> QED BY <1>2, <1>3 DEF v, e

(* A word more, and the close.                                             *)
LEMMA LastWords ==
  ASSUME NEW u \in Ups, NEW x \in Answers
  PROVE  /\ u \o <<Closing>> = Append(u, Closing)
         /\ Append(u, x) \in Ups /\ u \o <<x, Closing>> = Append(Append(u, x), Closing)
         /\ <<Closing>> \in Seq({Closing} \cup Answers) /\ <<x, Closing>> \in Seq({Closing} \cup Answers)
<1> DEFINE S == {Greeting, Closing} \cup Answers
<1>1. u \in Seq(S) /\ x \in S /\ Closing \in S
  BY DEF Ups
<1>2. <<x>> \in Seq(S) /\ <<Closing>> \in Seq(S) /\ <<x, Closing>> = <<x>> \o <<Closing>>
  BY <1>1
<1>3. <<Closing>> \in Seq({Closing} \cup Answers) /\ <<x, Closing>> \in Seq({Closing} \cup Answers)
  OBVIOUS
<1> HIDE DEF S
<1>4. Append(u, x) \in Seq(S)
  BY <1>1, AppendProperties
<1>5. /\ Append(u, Closing) = u \o <<Closing>> /\ Append(u, x) = u \o <<x>>
      /\ Append(Append(u, x), Closing) = Append(u, x) \o <<Closing>>
  BY <1>1, <1>4, AppendIsConcat
<1>6. (u \o <<x>>) \o <<Closing>> = u \o (<<x>> \o <<Closing>>)
  BY <1>1, <1>2, ConcatAssociative
<1> QED BY <1>2, <1>3, <1>4, <1>5, <1>6 DEF Ups, S

LEMMA HangingLeaves ==
  ASSUME AgentTypes, NEW a \in Instances, Holds(a), Hangs(a),
         doing' = [doing EXCEPT ![a] = NoMessage], alive' \in {alive, alive \ {a}},
         UNCHANGED <<dvcVars, callerVars>>
  PROVE  Leaves(a) /\ chan'[at[a]].up = Append(chan[at[a]].up, Closing)
<1>1. at[a] \in Channels /\ chan[at[a]].up \in Ups
  BY Holding
<1>2. \E x \in Answers : TRUE
  BY AgentsAnswers, IdleMessages DEF ShutdownRequest, Messages
<1>3. chan[at[a]].up \o <<Closing>> = Append(chan[at[a]].up, Closing) /\ <<Closing>> \in Seq({Closing} \cup Answers)
  BY <1>1, <1>2, LastWords
<1>4. Deserting(a, <<Closing>>)
        = [agent |-> chan[at[a]].agent, down |-> <<>>, up |-> Append(chan[at[a]].up, Closing)]
  BY <1>3, Departing
<1>5. at' = [at EXCEPT ![a] = None] /\ chan' = [chan EXCEPT ![at[a]] = Deserting(a, <<Closing>>)]
  BY DEF Hangs
<1>6. chan'[at[a]].up = Append(chan[at[a]].up, Closing)
  <2>1. PICK h \in Channels : h = at[a]
    BY <1>1
  <2> DEFINE u == Append(chan[h].up, Closing)
             w == [agent |-> chan[h].agent, down |-> <<>>, up |-> u]
  <2>2. chan' = [chan EXCEPT ![h] = w] /\ w.up = u
    BY <1>4, <1>5, <2>1
  <2> HIDE DEF w
  <2>3. chan'[h].up = u
    BY <2>2 DEF AgentTypes
  <2> QED BY <2>1, <2>3
<1> QED BY <1>1, <1>4, <1>5, <1>6 DEF Leaves

LEMMA Left ==
  ASSUME IInv, NEW a \in Instances, Leaves(a)
  PROVE  /\ DaemonTypes' /\ CallerTypes' /\ HandshakeNamesPrimary' /\ WaitersAnswered'
         /\ NothingNewDown /\ WorkersStay /\ Wired'
         /\ alive' \subseteq Instances /\ chan' \in [Channels -> Wires]
         /\ at' \in [Instances -> 0 .. MaxChannels] /\ doing' \in [Instances -> Messages]
         /\ \A b \in Instances \ {a} : at'[b] = at[b]
<1> USE DEF IInv
<1> DEFINE h == at[a]
<1>1. PICK u \in Ups : /\ u = chan[h].up \/ \E x \in Answers : u = Append(chan[h].up, x)
                       /\ chan' = [chan EXCEPT ![h] = [agent |-> chan[h].agent, down |-> <<>>,
                                                       up |-> Append(u, Closing)]]
  BY DEF Leaves
<1>2. /\ h \in Channels /\ at' = [at EXCEPT ![a] = None]
      /\ alive' \in {alive, alive \ {a}} /\ doing' = [doing EXCEPT ![a] = NoMessage]
      /\ UNCHANGED <<dvcVars, callerVars>>
  BY DEF Leaves
<1>3. h # None /\ chan[h].agent = a /\ a # NoCaller /\ a \in alive /\ (h = primary \/ h \in extras)
  BY <1>2, LimitsAssumption DEF Wired, Opener, Known, None, Channels
<1>4. chan' \in [Channels -> Wires]
  <2>1. Append(u, Closing) \in Ups /\ <<>> \in Seq(Messages) /\ chan[h].agent \in Instances \cup {NoCaller}
    BY <1>3 DEF Ups
  <2> DEFINE v == Append(u, Closing)
  <2> HIDE DEF v
  <2>2. [agent |-> chan[h].agent, down |-> <<>>, up |-> v] \in Wires
    BY <2>1 DEF Wires, v
  <2> QED BY <1>1, <2>2 DEF AgentTypes, v
<1>5. /\ \A g \in Channels \ {h} : chan'[g] = chan[g]
      /\ chan'[h].agent = a /\ chan'[h].down = <<>> /\ chan'[h].up = Append(u, Closing)
      /\ \A g \in Channels : chan'[g].agent = chan[g].agent
  BY <1>1, <1>2, <1>3 DEF AgentTypes
<1>6. /\ at'[a] = None /\ \A b \in Instances \ {a} : at'[b] = at[b]
      /\ doing'[a] = NoMessage /\ \A b \in Instances \ {a} : doing'[b] = doing[b]
  BY <1>2 DEF AgentTypes
<1>7. \A b \in Instances \ {a} : at[b] # h
  BY <1>2, <1>3 DEF Wired, Opener
<1>8. alive' \subseteq Instances /\ at' \in [Instances -> 0 .. MaxChannels] /\ doing' \in [Instances -> Messages]
  BY <1>2, IdleMessages, LimitsAssumption DEF AgentTypes, None
<1>9. DaemonTypes' /\ HandshakeNamesPrimary' /\ CallerTypes' /\ WaitersAnswered'
  <2>1. DaemonTypes' /\ HandshakeNamesPrimary'
    BY <1>2, <1>5 DEF DaemonTypes, HandshakeNamesPrimary, dvcVars, None, Channels
  <2> QED BY <1>2, <2>1, CallersKept DEF dvcVars
<1>10. NothingNewDown /\ WorkersStay
  BY <1>5, <1>6 DEF NothingNewDown, WorkersStay
<1>11. Unopened' /\ Deserted' /\ ReadToItsEnd'
  <2>1. Unopened'
    BY <1>2, <1>3, <1>5 DEF Wired, Unopened, dvcVars
  <2>2. Deserted'
    BY <1>5, <1>6, <1>7, <1>3 DEF Wired, Deserted
  <2>3. ReadToItsEnd'
    BY <1>2, <1>3, <1>5 DEF Wired, ReadToItsEnd, dvcVars
  <2> QED BY <2>1, <2>2, <2>3
<1>12. Opener' /\ Working' /\ Known'
  <2>1. Opener'
    BY <1>2, <1>5, <1>6 DEF Wired, Opener, AgentTypes, None, Channels
  <2>2. Working' /\ Known'
    BY <1>2, <1>6 DEF Wired, Working, Known, dvcVars
  <2> QED BY <2>1, <2>2
<1>13. CloseIsLast'
  <2>1. \A i \in DOMAIN chan[h].up : chan[h].up[i] # Closing
    BY <1>2 DEF Wired, CloseIsLast
  <2>2. chan[h].up \in Ups /\ \A x \in Answers : x # Closing
    BY <1>2 DEF AgentTypes, Wires, Answers, Closing
  <2>3. \A i \in DOMAIN u : u[i] # Closing
    <3>1. ASSUME NEW x \in Answers, u = Append(chan[h].up, x)
          PROVE  \A i \in DOMAIN u : u[i] # Closing
      BY <3>1, <2>1, <2>2 DEF Ups
    <3> QED BY <3>1, <2>1, <1>1
  <2>4. \A i \in DOMAIN chan'[h].up : chan'[h].up[i] = Closing => i = Len(chan'[h].up)
    BY <2>3, <1>5 DEF Ups
  <2>5. \A b \in Instances : at'[b] # h
    BY <1>3, <1>6, <1>7
  <2>6. ASSUME NEW g \in Channels \ {h}, NEW i \in DOMAIN chan'[g].up, chan'[g].up[i] = Closing
        PROVE  i = Len(chan'[g].up) /\ \A b \in Instances : at'[b] # g
    <3>1. chan[g].up[i] = Closing /\ i \in DOMAIN chan[g].up /\ chan'[g].up = chan[g].up
      BY <1>5, <2>6
    <3>2. i = Len(chan[g].up) /\ \A b \in Instances : at[b] # g
      BY <3>1 DEF Wired, CloseIsLast
    <3>3. None \notin Channels
      BY DEF None, Channels
    <3> QED BY <1>6, <3>1, <3>2, <3>3
  <2> QED BY <2>4, <2>5, <2>6 DEF CloseIsLast
<1> QED BY <1>4, <1>6, <1>8, <1>9, <1>10, <1>11, <1>12, <1>13 DEF Wired

(* An agent that executes nothing leaves.                                  *)
LEMMA QuietLeave ==
  ASSUME IInv, NEW a \in Instances, Leaves(a), UNCHANGED <<disk, runs, excused>>
  PROVE  IInv'
<1>1. UNCHANGED primary
  BY DEF Leaves, dvcVars
<1>2. Accounted'
  BY <1>1, Left, KeysStay
<1> QED BY <1>2, Left DEF IInv, AgentTypes

LEMMA ChannelFailsSafe == ASSUME IInv, NEW a \in Instances, ChannelFails(a) PROVE IInv'
<1>1. doing' = [doing EXCEPT ![a] = NoMessage]
  BY DEF ChannelFails, IInv, AgentTypes
<1>2. Leaves(a)
  BY <1>1, HangingLeaves DEF ChannelFails, IInv
<1> QED BY <1>2, QuietLeave DEF ChannelFails, journalVars, ghostVars

LEMMA FinishUnheardSafe == ASSUME IInv, NEW a \in Instances, FinishUnheard(a) PROVE IInv'
<1>1. Leaves(a)
  BY HangingLeaves DEF FinishUnheard, IInv
<1>2. doing' = [doing EXCEPT ![a] = NoMessage] /\ UNCHANGED primary
  BY DEF FinishUnheard, dvcVars
<1>3. Accounted' /\ runs' \in [Keys -> Nat]
  BY <1>1, <1>2, Left, Completed DEF FinishUnheard
<1> QED BY <1>1, <1>3, Left DEF IInv, AgentTypes

LEMMA ExitSafe == ASSUME IInv, NEW a \in Instances, Exit(a) PROVE IInv'
<1> USE DEF IInv
<1> DEFINE h == at[a]
           x == Answer(ShutdownId, Reply("ok", a))
           u == Append(chan[h].up, x)
<1>1. Free(a) /\ Holds(a) /\ doing[a] = NoMessage
  BY DEF Exit, Free
<1>2. h \in Channels /\ chan[h] \in Wires /\ chan[h].up \in Ups
  BY <1>1, Holding
<1>3. x \in Answers
  BY AgentsAnswers, IdleMessages DEF ShutdownRequest, Messages
<1>4. u \in Ups /\ chan[h].up \o <<x, Closing>> = Append(u, Closing) /\ <<x, Closing>> \in Seq({Closing} \cup Answers)
  BY <1>2, <1>3, LastWords
<1>5. Deserting(a, <<x, Closing>>) = [agent |-> chan[h].agent, down |-> <<>>, up |-> Append(u, Closing)]
  BY <1>1, <1>4, Departing
<1>6. chan' = [chan EXCEPT ![h] = [agent |-> chan[h].agent, down |-> <<>>, up |-> Append(u, Closing)]]
  BY <1>5 DEF Exit
<1>7. doing' = [doing EXCEPT ![a] = NoMessage]
  BY <1>1 DEF Exit, AgentTypes
<1>8. Leaves(a)
  BY <1>2, <1>3, <1>4, <1>6, <1>7 DEF Leaves, Exit
<1> QED BY <1>8, QuietLeave DEF Exit, journalVars, ghostVars

LEMMA DieSafe == ASSUME IInv, NEW a \in Instances, Die(a) PROVE IInv'
<1> USE DEF IInv
<1> DEFINE m == doing[a]
<1>1. CASE at[a] = None
  <2>1. m = NoMessage
    BY <1>1 DEF Wired, Working
  <2>2. /\ UNCHANGED <<at, chan, doing, dvcVars, journalVars, callerVars, ghostVars>>
        /\ alive' = alive \ {a}
    BY <1>1, <2>1 DEF Die, AgentTypes
  <2>3. DaemonTypes' /\ AgentTypes' /\ HandshakeNamesPrimary'
    BY <2>2 DEF DaemonTypes, AgentTypes, HandshakeNamesPrimary, dvcVars, ghostVars
  <2>4. Wired'
    BY <1>1, <2>2 DEF Wired, Unopened, Opener, Working, Deserted, CloseIsLast, ReadToItsEnd, Known, dvcVars
  <2>5. Accounted'
    BY <2>2 DEF Accounted, OnPrimaryOnly, Recorded, NotRunYet, dvcVars, journalVars, ghostVars
  <2> QED BY <2>2, <2>3, <2>4, <2>5, CallersKept DEF dvcVars
<1>2. CASE at[a] # None
  <2>1. Leaves(a)
    BY <1>2, HangingLeaves DEF Die, Holds
  <2>2. doing' = [doing EXCEPT ![a] = NoMessage] /\ UNCHANGED <<primary, disk>>
    BY DEF Die, dvcVars, journalVars
  <2>3. CASE UNCHANGED ghostVars
    BY <2>1, <2>2, <2>3, QuietLeave DEF ghostVars
  <2>4. CASE TakesEffect(m) /\ excused' = excused \cup {m.id.key}
    <3>1. CASE IsKeyed(m)
      <4>1. runs' = [runs EXCEPT ![m.id.key] = @ + 1]
        BY <2>4, <3>1 DEF TakesEffect
      <4>2. Accounted' /\ runs' \in [Keys -> Nat]
        BY <2>1, <2>2, <2>4, <3>1, <4>1, Left, RunAccounted
      <4> QED BY <2>1, <4>2, Left DEF AgentTypes
    <3>2. CASE ~IsKeyed(m)
      <4>1. UNCHANGED runs
        BY <2>4, <3>2 DEF TakesEffect
      <4>2. Accounted'
        BY <2>1, <2>2, <2>4, <4>1, Left, KeysStay
      <4> QED BY <2>1, <4>1, <4>2, Left DEF AgentTypes
    <3> QED BY <3>1, <3>2
  <2> QED BY <2>3, <2>4 DEF Die
<1> QED BY <1>1, <1>2

-----------------------------------------------------------------------------
(* The theorems.                                                           *)

LEMMA NextIInv == ASSUME IInv, [RequestsNext]_requestVars PROVE IInv'
<1>1. CASE UNCHANGED requestVars
  <2>1. UNCHANGED FarVars /\ UNCHANGED <<pending, callerVars>>
    BY <1>1 DEF requestVars, FarVars, dvcVars
  <2> QED BY <2>1, FarKept, CallersKept DEF IInv
<1>2. ASSUME NEW c \in Callers, CallerStep(c) PROVE IInv'
  BY <1>2, SendSafe, SendRefusedSafe, AnsweredSafe, SenderGoneSafe, TimesOutSafe, RemoveSafe DEF CallerStep
<1>3. ASSUME NEW c \in Callers, NEW r \in Requests, Ask(c, r) PROVE IInv'
  BY <1>3, AskSafe
<1>4. ASSUME NEW h \in Channels, Processor(h) PROVE IInv'
  BY <1>4, GreetSafe, RespondSafe, CloseSafe DEF Processor
<1>5. ASSUME NEW h \in Channels, NEW a \in Instances, Open(a, h) PROVE IInv'
  BY <1>5, OpenSafe
<1>6. ASSUME NEW a \in Instances, AgentStep(a) PROVE IInv'
  BY <1>6, ReplaySafe, StartSafe, FinishSafe, AnswerQuerySafe, ExitSafe DEF AgentStep
<1>7. ASSUME NEW a \in Instances, Fault(a) PROVE IInv'
  BY <1>7, FinishUnrecordedSafe, LoseMessageSafe, FinishUnheardSafe, ChannelFailsSafe, DieSafe DEF Fault
<1> QED BY <1>1, <1>2, <1>3, <1>4, <1>5, <1>6, <1>7, StopAgentSafe, ReleasePrimarySafe DEF RequestsNext, Calm

THEOREM Invariance == RequestsSpec => []IInv
<1>1. IInv /\ [RequestsNext]_requestVars => IInv'
  BY NextIInv
<1> QED BY <1>1, InitIInv, PTL DEF RequestsSpec

(* Whatever opens, closes, is released or promoted, a stored handshake is  *)
(* that of the agent the daemon sends to, one with its own scripts         *)
(* (dvc_channel.rs: process, close, release_primary).                      *)
THEOREM HandshakesNamePrimary == RequestsSpec => []HandshakeNamesPrimary
<1>1. IInv => HandshakeNamesPrimary
  BY DEF IInv
<1> QED BY <1>1, Invariance, PTL

(* Through timeouts, closes, releases and other requests with its key, a   *)
(* caller that waits has a waiter entered for it, an answer, or the news   *)
(* that its waiter is gone (dvc_ipc.rs: send_request_inner).               *)
THEOREM WaitersAreAnswered == RequestsSpec => []WaitersAnswered
<1>1. IInv => WaitersAnswered
  BY DEF IInv
<1> QED BY <1>1, Invariance, PTL

(* With any number of retries, agents and channels, the command of a key   *)
(* takes effect once, unless its record was lost in one of the ways the    *)
(* journal accepts (agent.ps1: Invoke-JournaledRequest).                   *)
THEOREM KeyedRunOnce == RequestsSpec => []KeyedRunsOnce
<1>1. IInv => KeyedRunsOnce
  BY DEF IInv, Accounted, Recorded, KeyedRunsOnce, AgentTypes
<1> QED BY <1>1, Invariance, PTL

-----------------------------------------------------------------------------
(* What callers are told.                                                  *)

Asked   == 1 .. Len(asks)
Records == [id : MsgIds, cmd : Cmds, ok : BOOLEAN]

Down(h) == {chan[h].down[i] : i \in DOMAIN chan[h].down}
Up(h)   == {chan[h].up[i] : i \in DOMAIN chan[h].up}

(* A message that asks to execute request n, one that asks what became of  *)
(* it, and an answer to the latter.                                        *)
Carries(m, n)    == m.n = n /\ m.id.attempt = 0
Inquires(m, n)   == m.n = n /\ m.id.attempt > 0
Informs(x, n)  == x \in Answers /\ x.id.n = n /\ x.id.attempt > 0

(* The request an id stands for, and whether it took effect.               *)
Subject(id) == IF id.attempt = 0 THEN id ELSE Id(id.n, 0)
RanAs(id)   == \E n \in ran : Id(n, 0) = id

(* It has not taken effect and nobody is about to execute it.              *)
Never(n) ==
  /\ n \notin ran
  /\ \A h \in Channels : \A m \in Down(h) : ~Carries(m, n)
  /\ \A a \in Instances : ~Carries(doing[a], n)

(* The agent's memory has an id: a result, or that there was one.          *)
Noted(a, id) == (\E e \in Entries(a) : e.id = id) \/ id \in Dropped(a)

(* A request handed to agent a is with that agent or nowhere; it remembers *)
(* what it executed as long as it lives.                                   *)
Followed(n, a) ==
  /\ \A h \in Channels : \A m \in Down(h) : Carries(m, n) => at[a] = h
  /\ \A b \in Instances : Carries(doing[b], n) => b = a
  /\ n \in ran => a \notin alive \/ Noted(a, Id(n, 0))

Made(m) == \E n \in Asked, t \in 0 .. Attempts : m = Message(n, t)

MessagesMade ==
  /\ \A h \in Channels : \A m \in Down(h) : m = ShutdownRequest \/ Made(m)
  /\ \A a \in Instances : \A m : m = doing[a] => m = NoMessage \/ (Made(m) /\ m.id.attempt = 0)

(* On a channel, whoever asks what became of a request comes after it.     *)
TurnKept(s, n) == \A i, j \in DOMAIN s : i < j /\ Inquires(s[i], n) => ~Carries(s[j], n)

InTurn == \A h \in Channels, n \in Asked : TurnKept(chan[h].down, n)

(* No two callers serve one request; a waiter is entered under its id, and *)
(* is no waiter any more once it has its answer.                           *)
CallersApart == \A c, d \in Callers : pc[c] # "idle" /\ pc[d] # "idle" /\ my[c].n = my[d].n => c = d

Entered ==
  /\ \A id \in DOMAIN pending :
       /\ pending[id] \in Callers /\ pc[pending[id]] \in {"waiting", "expired"}
       /\ MyId(pending[id]) = id /\ reply[pending[id]] = NoReply
  /\ \A c \in Callers : pc[c] \in {"idle", "ready"} => reply[c] = NoReply

NotInquired(n) ==
  \A h \in Channels : /\ \A m \in Down(h) : ~Inquires(m, n)
                      /\ \A x \in Up(h) : ~Informs(x, n)

(* What an answer of verdict v by agent a about caller c's request means.  *)
Means(c, r) ==
  /\ r.verdict = "ok" => RanAs(Id(my[c].n, 0))
  /\ r.verdict = "unknown" /\ my[c].sentTo # NoCaller /\ my[c].sentTo = r.by => Never(my[c].n)

Served(c) ==
  LET n == my[c].n
  IN  /\ told[n] = "asked"
      /\ my[c].attempt = 0 => NotInquired(n)
      /\ my[c].attempt = 0 /\ pc[c] = "ready" => Never(n) /\ my[c].sentTo = NoCaller
      /\ my[c].sentTo # NoCaller => Followed(n, my[c].sentTo)
      /\ Means(c, reply[c])

CallersServed == \A c \in Callers : pc[c] # "idle" => Served(c)

TrueAnswer(x) ==
  /\ x.id.attempt > 0 => x.id.n \in Asked
  /\ x.reply.verdict = "ok" /\ x.id # ShutdownId => RanAs(Subject(x.id))
  /\ x.reply.verdict = "unknown" =>
       /\ x.id.attempt > 0
       /\ \A c \in Callers : pc[c] # "idle" /\ my[c].n = x.id.n /\ my[c].sentTo # NoCaller
                               /\ my[c].sentTo = x.reply.by => Never(x.id.n)

TrueAnswers == \A h \in Channels : \A x \in Up(h) : x \in Answers => TrueAnswer(x)

TrueRecords ==
  /\ \A e \in disk : e.ok => RanAs(e.id)
  /\ \A a \in Instances : \A e \in Entries(a) : e.ok => RanAs(e.id)

SafeForEver == \A n \in Asked : told[n] \in {"neverRan", "notSent"} => Never(n)

Tells == {"unasked", "asked"} \cup Outcome!Claims \cup Outcome!NoClaim

RecordTypes ==
  /\ journal \in [Instances -> Seq(Records)] /\ evicted \in [Instances -> Seq(MsgIds)]
  /\ disk \subseteq Records /\ ran \subseteq Asked /\ told \in [Numbers -> Tells]

OInv == /\ RecordTypes /\ MessagesMade /\ InTurn /\ CallersApart /\ Entered
        /\ CallersServed /\ TrueAnswers /\ TrueRecords /\ SafeForEver

Remembers == \A a \in Instances : Len(evicted[a]) < EvictedLimit

-----------------------------------------------------------------------------
(* Ids, messages and sequences of them.                                    *)

LEMMA IdsOf ==
  ASSUME CallerTypes, NEW n \in Asked, NEW t \in 0 .. Attempts
  PROVE  /\ Id(n, t) \in MsgIds /\ Id(n, t).attempt = t
         /\ (t > 0 => Id(n, t) = [key |-> NoKey, n |-> n, attempt |-> t])
         /\ Id(n, t) # ShutdownId
         /\ Subject(Id(n, t)) = Id(n, 0)
<1>1. asks[n] \in Requests /\ n \in 1 .. MaxRequests /\ n # None
  BY LimitsAssumption DEF Asked, CallerTypes, None
<1>2. CASE t = 0 /\ asks[n].key # NoKey
  <2>1. Id(n, t) = KeyId(asks[n].key) /\ asks[n].key \in Keys
    BY <1>1, <1>2 DEF Id, KeyId, Keys
  <2>2. KeyId(asks[n].key) \in MsgIds /\ KeyId(asks[n].key).attempt = 0
        /\ KeyId(asks[n].key) # ShutdownId
    BY <1>2, <2>1 DEF KeyId, MsgIds, KeyIds, ShutdownId
  <2> QED BY <1>2, <2>1, <2>2 DEF Subject
<1>3. CASE ~(t = 0 /\ asks[n].key # NoKey)
  <2>1. Id(n, t) = [key |-> NoKey, n |-> n, attempt |-> t]
    BY <1>3 DEF Id
  <2>2. Id(n, t) \in MsgIds /\ Id(n, t) # ShutdownId /\ Id(n, t).attempt = t /\ Id(n, t).n = n
    BY <1>1, <2>1 DEF MsgIds, OwnIds, ShutdownId
  <2>3. Subject(Id(n, t)) = Id(n, 0)
    <3>1. t = 0 \/ t > 0
      OBVIOUS
    <3> QED BY <2>2, <3>1 DEF Subject
  <2> QED BY <2>1, <2>2, <2>3
<1> QED BY <1>2, <1>3

LEMMA MessagesOf ==
  ASSUME CallerTypes, NEW n \in Asked, NEW t \in 0 .. Attempts
  PROVE  /\ Message(n, t) \in Messages /\ Message(n, t).n = n /\ Message(n, t).id = Id(n, t)
         /\ Message(n, t) # ShutdownRequest /\ Message(n, t) # NoMessage
         /\ Message(n, t).cmd # "shutdown" /\ (Message(n, t).cmd = "query_result" <=> t > 0)
<1>1. asks[n] \in Requests /\ n \in 1 .. MaxRequests /\ n # None
  BY LimitsAssumption DEF Asked, CallerTypes, None
<1>2. Id(n, t) \in MsgIds
  BY IdsOf
<1>3. (IF t = 0 THEN asks[n].cmd ELSE "query_result") \in Cmds
  BY <1>1 DEF Cmds
<1>4. Message(n, t) \in Messages /\ Message(n, t).n = n /\ Message(n, t).id = Id(n, t)
      /\ Message(n, t).cmd = IF t = 0 THEN asks[n].cmd ELSE "query_result"
  BY <1>1, <1>2, <1>3 DEF Message, Messages
<1>5. asks[n].cmd \notin {"query_result", "shutdown"}
  BY <1>1, LimitsAssumption
<1> QED BY <1>1, <1>4, <1>5 DEF ShutdownRequest, NoMessage

LEMMA MadeFacts ==
  ASSUME CallerTypes, NEW m, Made(m)
  PROVE  /\ m \in Messages /\ m.n \in Asked /\ m.id.attempt \in 0 .. Attempts
         /\ m = Message(m.n, m.id.attempt) /\ m.id = Id(m.n, m.id.attempt)
         /\ m.cmd # "shutdown" /\ (m.cmd = "query_result" <=> m.id.attempt > 0)
         /\ m # ShutdownRequest /\ m # NoMessage
<1>1. PICK n \in Asked, t \in 0 .. Attempts : m = Message(n, t)
  BY DEF Made
<1>2. m.n = n /\ m.id.attempt = t
  BY <1>1, MessagesOf, IdsOf
<1> QED BY <1>1, <1>2, MessagesOf

(* The daemon's own messages neither carry a request nor inquire about it. *)
LEMMA OwnMessages ==
  ASSUME NEW n \in Asked
  PROVE  /\ ~Carries(ShutdownRequest, n) /\ ~Inquires(ShutdownRequest, n)
         /\ ~Carries(NoMessage, n) /\ ~Inquires(NoMessage, n)
BY DEF Carries, Inquires, ShutdownRequest, NoMessage, None, Asked

LEMMA TailElements ==
  ASSUME NEW S, NEW s \in Seq(S), s # <<>>
  PROVE  \A i \in DOMAIN Tail(s) : i \in Nat /\ i + 1 \in DOMAIN s /\ Tail(s)[i] = s[i + 1]
OBVIOUS

LEMMA AppendElements ==
  ASSUME NEW S, NEW s \in Seq(S), NEW m \in S
  PROVE  /\ \A i \in DOMAIN Append(s, m) :
              \/ i \in DOMAIN s /\ Append(s, m)[i] = s[i]
              \/ i = Len(s) + 1 /\ Append(s, m)[i] = m
         /\ \A i \in DOMAIN s : i \in DOMAIN Append(s, m) /\ Append(s, m)[i] = s[i] /\ i <= Len(s)
         /\ Len(s) + 1 \in DOMAIN Append(s, m) /\ Append(s, m)[Len(s) + 1] = m
         /\ Len(s) \in Nat
OBVIOUS

LEMMA TurnTail ==
  ASSUME NEW s \in Seq(Messages), s # <<>>, NEW n, TurnKept(s, n)
  PROVE  TurnKept(Tail(s), n)
<1> DEFINE t == Tail(s)
<1>1. \A i \in DOMAIN t : i \in Nat /\ i + 1 \in DOMAIN s /\ t[i] = s[i + 1]
  BY TailElements
<1> HIDE DEF t
<1>2. ASSUME NEW i \in DOMAIN t, NEW j \in DOMAIN t, i < j, Inquires(t[i], n)
      PROVE  ~Carries(t[j], n)
  <2>1. i + 1 < j + 1 /\ i + 1 \in DOMAIN s /\ j + 1 \in DOMAIN s /\ t[i] = s[i + 1] /\ t[j] = s[j + 1]
    BY <1>1, <1>2
  <2> QED BY <1>2, <2>1 DEF TurnKept
<1> QED BY <1>2 DEF TurnKept, t

LEMMA TurnAppend ==
  ASSUME NEW s \in Seq(Messages), NEW m \in Messages, NEW n, TurnKept(s, n),
         Carries(m, n) => \A i \in DOMAIN s : ~Inquires(s[i], n)
  PROVE  TurnKept(Append(s, m), n)
<1> DEFINE t == Append(s, m)
<1>1. /\ \A i \in DOMAIN t : (i \in DOMAIN s /\ t[i] = s[i]) \/ (i = Len(s) + 1 /\ t[i] = m)
      /\ \A i \in DOMAIN s : i \in Nat /\ i <= Len(s)
      /\ Len(s) \in Nat
  BY AppendElements
<1> HIDE DEF t
<1>2. ASSUME NEW i \in DOMAIN t, NEW j \in DOMAIN t, i < j, Inquires(t[i], n)
      PROVE  ~Carries(t[j], n)
  <2>1. i \in DOMAIN s /\ t[i] = s[i]
    BY <1>1, <1>2
  <2>2. CASE j \in DOMAIN s /\ t[j] = s[j]
    BY <1>2, <2>1, <2>2 DEF TurnKept
  <2>3. CASE t[j] = m
    BY <1>2, <2>1, <2>3
  <2> QED BY <1>1, <2>2, <2>3
<1> QED BY <1>2 DEF TurnKept, t

LEMMA DownOf ==
  ASSUME AgentTypes, NEW h \in Channels
  PROVE  chan[h].down \in Seq(Messages) /\ Down(h) \subseteq Messages /\ chan[h].up \in Ups
<1>1. chan[h].down \in Seq(Messages) /\ chan[h].up \in Ups
  BY DEF AgentTypes, Wires
<1> QED BY <1>1 DEF Down

(* What is on its way when the wire loses its first message, or gains one. *)
LEMMA DownTail ==
  ASSUME AgentTypes, NEW h \in Channels, chan[h].down # <<>>, chan'[h].down = Tail(chan[h].down)
  PROVE  Down(h)' \subseteq Down(h)
<1>1. \A i \in DOMAIN Tail(chan[h].down) :
        i + 1 \in DOMAIN chan[h].down /\ Tail(chan[h].down)[i] = chan[h].down[i + 1]
  BY DownOf, TailElements
<1> QED BY <1>1 DEF Down

LEMMA DownAppend ==
  ASSUME AgentTypes, NEW h \in Channels, NEW m \in Messages, chan'[h].down = Append(chan[h].down, m)
  PROVE  Down(h)' = Down(h) \cup {m}
BY DownOf, AppendElements DEF Down

LEMMA UpTail ==
  ASSUME AgentTypes, NEW h \in Channels, chan[h].up # <<>>, chan'[h].up = Tail(chan[h].up)
  PROVE  Up(h)' \subseteq Up(h)
<1>1. \A i \in DOMAIN Tail(chan[h].up) :
        i + 1 \in DOMAIN chan[h].up /\ Tail(chan[h].up)[i] = chan[h].up[i + 1]
  BY DownOf, TailElements DEF Ups
<1> QED BY <1>1 DEF Up

LEMMA UpAppend ==
  ASSUME AgentTypes, NEW h \in Channels, NEW x \in {Greeting, Closing} \cup Answers,
         chan'[h].up = Append(chan[h].up, x)
  PROVE  Up(h)' = Up(h) \cup {x}
BY DownOf, AppendElements DEF Up, Ups

-----------------------------------------------------------------------------
(* What the daemon, the channels and the agents may do to the requests     *)
(* under way: messages and work move on or get lost, what is executed was  *)
(* being executed and is noted by its agent, unless that dies.             *)

Flow ==
  /\ UNCHANGED <<asks, told, pc, my>> /\ alive' \subseteq alive /\ ran \subseteq ran'
  /\ \A h \in Channels : \A m \in Down(h)' : m = ShutdownRequest \/ m \in Down(h)
  /\ \A b \in Instances :
       \/ doing'[b] \in {doing[b], NoMessage}
       \/ doing'[b].id.attempt = 0 /\ doing'[b] # ShutdownRequest
            /\ \E g \in Channels : at[b] = g /\ doing'[b] \in Down(g)
  /\ \A b \in Instances, h \in Channels : at[b] = h => at'[b] = h \/ Down(h)' = {}
  /\ \A n \in ran' \ ran :
       n \in Asked /\ \E b \in Instances :
         Carries(doing[b], n) /\ (b \notin alive' \/ \A id : id = doing[b].id => Noted(b, id)')
  /\ \A b \in Instances, id \in MsgIds : Noted(b, id) => Noted(b, id)'

LEMMA SameAsks ==
  ASSUME UNCHANGED asks
  PROVE  /\ \A n, t : Id(n, t)' = Id(n, t)
         /\ \A n, t : Message(n, t)' = Message(n, t)
         /\ \A m : Made(m)' <=> Made(m)
         /\ \A id : Subject(id)' = Subject(id)
         /\ Asked' = Asked
<1>1. Asked' = Asked
  BY DEF Asked
<1>2. \A n, t : Id(n, t)' = Id(n, t)
  BY DEF Id
<1>3. \A n, t : Message(n, t)' = Message(n, t)
  BY <1>2 DEF Message
<1>4. \A m : Made(m)' <=> Made(m)
  BY <1>1, <1>3 DEF Made
<1>5. \A id : Subject(id)' = Subject(id)
  BY <1>2 DEF Subject
<1> QED BY <1>1, <1>2, <1>3, <1>4, <1>5

LEMMA FlowNever ==
  ASSUME IInv, OInv, Flow, NEW n \in Asked, Never(n)
  PROVE  Never(n)'
<1>1. n \notin ran'
  <2> SUFFICES ASSUME n \in ran' PROVE FALSE
    OBVIOUS
  <2>1. n \in ran' \ ran
    BY DEF Never
  <2> QED BY <2>1 DEF Flow, Never
<1>2. ASSUME NEW h \in Channels, NEW m \in Down(h)'
      PROVE  ~Carries(m, n)
  BY <1>2, OwnMessages DEF Flow, Never
<1>3. ASSUME NEW a \in Instances
      PROVE  ~Carries(doing'[a], n)
  <2>1. CASE doing'[a] \in {doing[a], NoMessage}
    BY <2>1, OwnMessages DEF Never
  <2>2. ASSUME NEW g \in Channels, doing'[a] \in Down(g)
        PROVE  ~Carries(doing'[a], n)
    BY <2>2 DEF Never
  <2> QED BY <2>1, <2>2 DEF Flow
<1> QED BY <1>1, <1>2, <1>3 DEF Never

LEMMA FlowRan ==
  ASSUME Flow, NEW id, RanAs(id)
  PROVE  RanAs(id)'
<1>1. \A n : Id(n, 0)' = Id(n, 0)
  BY SameAsks DEF Flow
<1> QED BY <1>1 DEF Flow, RanAs

LEMMA FlowMade == ASSUME IInv, OInv, Flow PROVE MessagesMade'
<1>1. \A m : Made(m)' <=> Made(m)
  BY SameAsks DEF Flow
<1>2. ASSUME NEW h \in Channels, NEW m \in Down(h)'
      PROVE  m = ShutdownRequest \/ Made(m)'
  BY <1>1, <1>2 DEF Flow, OInv, MessagesMade
<1>3. ASSUME NEW a \in Instances, NEW m, m = doing'[a]
      PROVE  m = NoMessage \/ (Made(m)' /\ m.id.attempt = 0)
  <2>1. CASE m \in {doing[a], NoMessage}
    BY <1>1, <2>1 DEF OInv, MessagesMade
  <2>2. ASSUME NEW g \in Channels, m \in Down(g), m.id.attempt = 0, m # ShutdownRequest
        PROVE  m = NoMessage \/ (Made(m)' /\ m.id.attempt = 0)
    BY <1>1, <2>2 DEF OInv, MessagesMade
  <2> QED BY <1>3, <2>1, <2>2 DEF Flow
<1> QED BY <1>2, <1>3 DEF MessagesMade

LEMMA FlowFollowed ==
  ASSUME IInv, OInv, Flow, NEW n \in Asked, NEW a \in Instances, Followed(n, a)
  PROVE  Followed(n, a)'
<1>1. ASSUME NEW h \in Channels, NEW m \in Down(h)', Carries(m, n)
      PROVE  at'[a] = h
  <2>1. m \in Down(h)
    BY <1>1, OwnMessages DEF Flow
  <2>2. at[a] = h
    BY <1>1, <2>1 DEF Followed
  <2> QED BY <1>1, <2>2 DEF Flow
<1>2. ASSUME NEW b \in Instances, Carries(doing'[b], n)
      PROVE  b = a
  <2>1. CASE doing'[b] \in {doing[b], NoMessage}
    BY <1>2, <2>1, OwnMessages DEF Followed
  <2>2. ASSUME NEW g \in Channels, at[b] = g, doing'[b] \in Down(g)
        PROVE  b = a
    <3>1. at[a] = g
      BY <1>2, <2>2 DEF Followed
    <3> QED BY <2>2, <3>1 DEF IInv, Wired, Opener, Channels, None
  <2> QED BY <2>1, <2>2 DEF Flow
<1>3. Id(n, 0)' = Id(n, 0) /\ Id(n, 0) \in MsgIds
  <2>1. 0 \in 0 .. Attempts
    BY LimitsAssumption
  <2> QED BY <2>1, SameAsks, IdsOf DEF Flow, IInv
<1>4. ASSUME n \in ran'
      PROVE  a \notin alive' \/ Noted(a, Id(n, 0))'
  <2>1. CASE n \in ran
    BY <1>3, <2>1 DEF Flow, Followed, Noted
  <2>2. CASE n \notin ran
    <3>1. PICK b \in Instances :
            Carries(doing[b], n) /\ (b \notin alive' \/ \A id : id = doing[b].id => Noted(b, id)')
      BY <1>4, <2>2 DEF Flow
    <3>2. b = a
      BY <3>1 DEF Followed
    <3>3. doing[b] # NoMessage
      BY <3>1, OwnMessages
    <3>4. Made(doing[b])
      BY <3>3 DEF OInv, MessagesMade
    <3>5. doing[b].id = Id(n, 0)
      BY <3>1, <3>4, MadeFacts DEF IInv, Carries
    <3>6. \A id : id = doing[b].id => id = Id(n, 0)'
      BY <1>3, <3>5
    <3> QED BY <3>1, <3>2, <3>5, <3>6, <1>3 DEF Noted
  <2> QED BY <2>1, <2>2
<1> QED BY <1>1, <1>2, <1>4 DEF Followed

-----------------------------------------------------------------------------
(* Steps of the daemon, the channels and the agents keep the invariant if  *)
(* they are such a flow, if what is newly said is true and asked for, and  *)
(* if the answers handed to callers mean what they say.                    *)

UpFlow ==
  \A h \in Channels : \A x \in Up(h)' :
    \/ x \in Up(h) \/ x \notin Answers
    \/ /\ TrueAnswer(x)'
       /\ \A n \in Asked : Informs(x, n) =>
            \E g \in Channels, m \in Messages : m \in Down(g) /\ Inquires(m, n)

LEMMA FlowMeans ==
  ASSUME IInv, OInv, Flow, NEW c \in Callers, pc[c] # "idle", NEW r, Means(c, r)
  PROVE  Means(c, r)'
<1>1. my[c].n \in Asked /\ UNCHANGED <<my, asks>>
  BY DEF IInv, CallerTypes, Asked, Flow
<1>2. \A id : id = Id(my[c].n, 0) => id = Id(my[c].n, 0)'
  BY <1>1, SameAsks
<1>3. RanAs(Id(my[c].n, 0)) => RanAs(Id(my[c].n, 0))'
  <2>1. \A id : RanAs(id) => RanAs(id)'
    BY FlowRan
  <2> QED BY <1>1, <1>2, <2>1 DEF RanAs
<1>4. \A n : n = my[c].n /\ Never(n) => Never(n)'
  BY <1>1, FlowNever
<1>5. Never(my[c].n) => Never(my[c].n)'
  BY <1>1, <1>4 DEF Never
<1> QED BY <1>1, <1>3, <1>5 DEF Means

LEMMA FlowServed ==
  ASSUME IInv, OInv, Flow, UpFlow, NEW c \in Callers, pc[c] # "idle", Means(c, reply[c])'
  PROVE  Served(c)'
<1> DEFINE n == my[c].n
           a == my[c].sentTo
<1>1. n \in Asked /\ UNCHANGED <<my, asks, told, pc>> /\ Served(c)
  BY DEF IInv, CallerTypes, Asked, Flow, OInv, CallersServed
<1>2. ASSUME my[c].attempt = 0
      PROVE  NotInquired(n)'
  <2>1. NotInquired(n)
    BY <1>1, <1>2 DEF Served
  <2>2. \A h \in Channels : \A m \in Down(h)' : ~Inquires(m, n)
    BY <1>1, <2>1, OwnMessages DEF Flow, NotInquired
  <2>3. \A h \in Channels : \A x \in Up(h)' : ~Informs(x, n)
    BY <1>1, <2>1 DEF UpFlow, NotInquired, Informs
  <2> QED BY <1>1, <2>2, <2>3 DEF NotInquired
<1>3. \A i : i = n /\ Never(i) => Never(i)'
  BY <1>1, FlowNever
<1>4. \A i, b : i = n /\ b = a /\ b # NoCaller => Followed(i, b)'
  <2> SUFFICES ASSUME a # NoCaller PROVE \A i, b : i = n /\ b = a => Followed(i, b)'
    OBVIOUS
  <2>1. a \in Instances /\ Followed(n, a)
    BY <1>1 DEF IInv, CallerTypes, Served
  <2> QED BY <1>1, <2>1, FlowFollowed
<1>5. Never(n) => Never(n)'
  BY <1>1, <1>3 DEF Never
<1>6. a # NoCaller => Followed(n, a)'
  BY <1>1, <1>4 DEF Followed
<1> QED BY <1>1, <1>2, <1>5, <1>6 DEF Served

LEMMA FlowTrue ==
  ASSUME IInv, OInv, Flow, NEW x \in Answers, TrueAnswer(x)
  PROVE  TrueAnswer(x)'
<1>1. UNCHANGED <<my, asks, pc>> /\ Asked' = Asked /\ Subject(x.id)' = Subject(x.id)
  BY SameAsks DEF Flow
<1>2. ASSUME x.reply.verdict = "ok", x.id # ShutdownId
      PROVE  RanAs(Subject(x.id))'
  <2>1. \A id : RanAs(id) => RanAs(id)'
    BY FlowRan
  <2> QED BY <1>1, <1>2, <2>1 DEF TrueAnswer, RanAs
<1>3. ASSUME x.id.attempt > 0, Never(x.id.n)
      PROVE  Never(x.id.n)'
  BY <1>3, FlowNever DEF TrueAnswer
<1> QED BY <1>1, <1>2, <1>3 DEF TrueAnswer

LEMMA Moved ==
  ASSUME IInv, OInv, Flow, UpFlow, InTurn', RecordTypes', TrueRecords', Entered',
         \A c \in Callers : pc[c] # "idle" => Means(c, reply[c])'
  PROVE  OInv'
<1> USE DEF OInv
<1>1. UNCHANGED <<asks, told, pc, my>> /\ Asked' = Asked
  BY SameAsks DEF Flow
<1>2. MessagesMade'
  BY FlowMade
<1>3. CallersApart'
  BY <1>1 DEF CallersApart
<1>4. CallersServed'
  BY <1>1, FlowServed DEF CallersServed
<1>5. TrueAnswers'
  <2> SUFFICES ASSUME NEW h \in Channels, NEW x \in Up(h)', x \in Answers
               PROVE  TrueAnswer(x)'
    BY DEF TrueAnswers, Answers, Replies, MsgIds, KeyIds, OwnIds, Keys
  <2>1. CASE x \in Up(h)
    BY <2>1, FlowTrue DEF TrueAnswers
  <2> QED BY <2>1 DEF UpFlow
<1>6. SafeForEver'
  BY <1>1, FlowNever DEF SafeForEver
<1> QED BY <1>2, <1>3, <1>4, <1>5, <1>6

(* A step that hands no answer to anybody.                                 *)
LEMMA MovedQuietly ==
  ASSUME IInv, OInv, Flow, UpFlow, InTurn', RecordTypes', TrueRecords', UNCHANGED <<pending, reply>>
  PROVE  OInv'
<1>1. UNCHANGED <<asks, my, pc>>
  BY DEF Flow
<1>2. Entered'
  BY <1>1, SameId DEF OInv, Entered
<1>3. ASSUME NEW c \in Callers, pc[c] # "idle"
      PROVE  Means(c, reply[c])'
  <2>1. \A r : r = reply[c] => Means(c, r)'
    BY <1>3, FlowMeans DEF OInv, CallersServed, Served
  <2> QED BY <2>1 DEF Means
<1> QED BY <1>2, <1>3, Moved

-----------------------------------------------------------------------------
(* The journal.                                                            *)

LEMMA LastOf ==
  ASSUME NEW S, NEW s \in Seq(S), NEW k \in Nat
  PROVE  /\ Last(s, k) \in Seq(S)
         /\ Len(s) <= k => Last(s, k) = s
         /\ Len(s) > k => Len(Last(s, k)) = k /\ \A j \in 1 .. k : Last(s, k)[j] = s[Len(s) - k + j]
<1>0. Len(s) \in Nat /\ DOMAIN s = 1 .. Len(s)
  OBVIOUS
<1>1. CASE Len(s) <= k
  <2>1. Last(s, k) = s
    BY <1>1 DEF Last
  <2>2. Last(s, k) \in Seq(S) /\ ~(Len(s) > k)
    BY <1>0, <1>1, <2>1
  <2> QED BY <2>1, <2>2, Zenon
<1>2. CASE Len(s) > k
  <2>1. PICK d \in Nat : d = Len(s) - k
    <3>1. Len(s) - k \in Nat
      BY <1>0, <1>2
    <3> QED BY <3>1
  <2> DEFINE last == Last(s, k)
  <2>2. last = SubSeq(s, d + 1, Len(s))
    BY <1>0, <1>2, <2>1 DEF Last
  <2> HIDE DEF last
  <2>3. d + 1 \in Int /\ Len(s) \in Int /\ \A i \in d + 1 .. Len(s) : s[i] \in S
    BY <1>0
  <2>4. /\ last \in Seq(S) /\ Len(last) = (IF d + 1 <= Len(s) THEN Len(s) - (d + 1) + 1 ELSE 0)
        /\ \A i \in 1 .. Len(s) - (d + 1) + 1 : last[i] = s[d + 1 + i - 1]
    BY <2>2, <2>3, SubSeqProperties
  <2>5. Len(last) = k
    BY <1>0, <2>1, <2>4
  <2>6. ASSUME NEW j \in 1 .. k PROVE last[j] = s[Len(s) - k + j]
    <3>1. j \in 1 .. Len(s) - (d + 1) + 1 /\ d + 1 + j - 1 = Len(s) - k + j
      BY <1>0, <2>1
    <3> QED BY <2>4, <3>1
  <2>7. last \in Seq(S) /\ Len(last) = k /\ \A j \in 1 .. k : last[j] = s[Len(s) - k + j]
    BY <2>4, <2>5, <2>6
  <2> QED BY <1>0, <1>2, <2>7 DEF last
<1> QED BY <1>0, <1>1, <1>2

LEMMA FirstOf ==
  ASSUME NEW S, NEW s \in Seq(S), NEW d \in 0 .. Len(s)
  PROVE  SubSeq(s, 1, d) \in Seq(S) /\ Len(SubSeq(s, 1, d)) = d
         /\ \A j \in 1 .. d : SubSeq(s, 1, d)[j] = s[j]
<1> DEFINE out == SubSeq(s, 1, d)
<1>1. \A i \in 1 .. d : s[i] \in S
  OBVIOUS
<1>2. /\ out \in Seq(S) /\ Len(out) = (IF 1 <= d THEN d - 1 + 1 ELSE 0)
      /\ \A i \in 1 .. d - 1 + 1 : out[i] = s[1 + i - 1]
  BY <1>1, SubSeqProperties
<1> HIDE DEF out
<1>3. Len(out) = d
  BY <1>2
<1>4. ASSUME NEW j \in 1 .. d PROVE out[j] = s[j]
  <2>1. j \in 1 .. d - 1 + 1 /\ 1 + j - 1 = j
    OBVIOUS
  <2> QED BY <1>2, <2>1
<1> QED BY <1>2, <1>3, <1>4 DEF out

(* A record read from disk is listed in memory.                            *)
LEMMA Cached ==
  ASSUME RecordTypes, TrueRecords, NEW a \in Instances, NEW found \in SUBSET (Entries(a) \cup disk),
         Cache(a, found), UNCHANGED <<evicted, disk, ran, told, asks>>
  PROVE  /\ RecordTypes' /\ TrueRecords'
         /\ \A b \in Instances, id \in MsgIds : Noted(b, id) => Noted(b, id)'
<1>1. journal[a] \in Seq(Records) /\ Entries(a) \subseteq Records
  BY DEF RecordTypes, Entries
<1>2. CASE found \subseteq Entries(a)
  <2>1. journal' = journal
    BY <1>2 DEF Cache, RecordTypes
  <2>2. Asked' = Asked /\ \A id : RanAs(id)' <=> RanAs(id)
    BY SameAsks DEF RanAs
  <2>3. \A b \in Instances : Entries(b)' = Entries(b) /\ Dropped(b)' = Dropped(b)
    BY <2>1 DEF Entries, Dropped
  <2>4. RecordTypes'
    BY <2>1, <2>2 DEF RecordTypes
  <2>5. TrueRecords'
    BY <2>2, <2>3 DEF TrueRecords
  <2> QED BY <2>3, <2>4, <2>5 DEF Noted
<1>3. CASE ~(found \subseteq Entries(a))
  <2> DEFINE e == CHOOSE e \in found : TRUE
  <2>1. e \in found /\ e \in Records /\ (e.ok => RanAs(e.id))
    BY <1>1, <1>3 DEF TrueRecords, RecordTypes
  <2>2. journal' = [journal EXCEPT ![a] = Append(journal[a], e)]
    BY <1>3 DEF Cache
  <2> HIDE DEF e
  <2>3. journal' \in [Instances -> Seq(Records)] /\ journal'[a] = Append(journal[a], e)
        /\ \A b \in Instances \ {a} : journal'[b] = journal[b]
    BY <1>1, <2>1, <2>2 DEF RecordTypes
  <2>4. Entries(a)' = Entries(a) \cup {e} /\ \A b \in Instances \ {a} : Entries(b)' = Entries(b)
    BY <1>1, <2>1, <2>3, AppendElements DEF Entries
  <2>5. \A id : RanAs(id)' <=> RanAs(id)
    BY SameAsks DEF RanAs
  <2>6. RecordTypes'
    BY <2>3, SameAsks DEF RecordTypes
  <2>7. TrueRecords'
    BY <2>1, <2>4, <2>5 DEF TrueRecords
  <2>8. \A b \in Instances : Dropped(b)' = Dropped(b) /\ Entries(b) \subseteq Entries(b)'
    BY <2>4 DEF Dropped
  <2> QED BY <2>6, <2>7, <2>8 DEF Noted
<1> QED BY <1>2, <1>3

(* A result is journaled, and what makes room for it is remembered.        *)
LEMMA Noting ==
  ASSUME RecordTypes, Remembers', NEW a \in Instances, NEW e \in Records, Record(a, e)
  PROVE  /\ journal' \in [Instances -> Seq(Records)] /\ evicted' \in [Instances -> Seq(MsgIds)]
         /\ \A b \in Instances : Entries(b)' \subseteq Entries(b) \cup {e}
         /\ \A b \in Instances, id \in MsgIds : Noted(b, id) => Noted(b, id)'
         /\ Noted(a, e.id)'
<1> DEFINE all  == Append(journal[a], e)
           kept == Last(all, JournalLimit)
           out  == SubSeq(all, 1, Len(all) - Len(kept))
           ids  == [i \in DOMAIN out |-> out[i].id]
           more == evicted[a] \o ids
<1>1. all \in Seq(Records) /\ JournalLimit \in Nat /\ EvictedLimit \in Nat
  BY LimitsAssumption DEF RecordTypes
<1>2. /\ journal' = [journal EXCEPT ![a] = kept]
      /\ evicted' = [evicted EXCEPT ![a] = Last(more, EvictedLimit)]
  BY DEF Record
<1>3. /\ \A i \in DOMAIN journal[a] : i \in DOMAIN all /\ all[i] = journal[a][i]
      /\ \A i \in DOMAIN all : (i \in DOMAIN journal[a] /\ all[i] = journal[a][i]) \/ all[i] = e
      /\ Len(journal[a]) + 1 \in DOMAIN all /\ all[Len(journal[a]) + 1] = e
  BY AppendElements DEF RecordTypes
<1>0. kept = Last(all, JournalLimit) /\ out = SubSeq(all, 1, Len(all) - Len(kept))
  OBVIOUS
<1> HIDE DEF all, kept, out
<1>4. /\ kept \in Seq(Records) /\ out \in Seq(Records)
      /\ \A j \in DOMAIN kept : \E i \in DOMAIN all : kept[j] = all[i]
      /\ \A i \in DOMAIN all : \/ \E j \in DOMAIN out : out[j] = all[i]
                               \/ \E j \in DOMAIN kept : kept[j] = all[i]
  <2>0. Len(all) \in Nat /\ DOMAIN all = 1 .. Len(all)
    BY <1>1
  <2>1. /\ kept \in Seq(Records)
        /\ Len(all) <= JournalLimit => kept = all
        /\ Len(all) > JournalLimit =>
             /\ Len(kept) = JournalLimit
             /\ \A j \in 1 .. JournalLimit : kept[j] = all[Len(all) - JournalLimit + j]
    BY <1>0, <1>1, LastOf
  <2>2. CASE Len(all) <= JournalLimit
    <3>1. kept = all /\ out = <<>>
      BY <1>0, <2>0, <2>1, <2>2
    <3> QED BY <1>1, <3>1
  <2>3. CASE Len(all) > JournalLimit
    <3>1. PICK d \in 0 .. Len(all) : d = Len(all) - JournalLimit
      <4>1. Len(all) - JournalLimit \in 0 .. Len(all)
        BY <1>1, <2>0, <2>3
      <4> QED BY <4>1
    <3>2. out = SubSeq(all, 1, d)
      BY <1>0, <2>1, <2>3, <3>1
    <3>3. /\ DOMAIN kept = 1 .. JournalLimit
          /\ \A j \in 1 .. JournalLimit : kept[j] = all[d + j] /\ d + j \in DOMAIN all
      BY <1>1, <2>0, <2>1, <2>3, <3>1
    <3>4. out \in Seq(Records) /\ DOMAIN out = 1 .. d /\ \A j \in 1 .. d : out[j] = all[j]
      <4>1. out \in Seq(Records) /\ Len(out) = d /\ \A j \in 1 .. d : out[j] = all[j]
        BY <1>1, <3>1, <3>2, FirstOf
      <4> QED BY <4>1
    <3>5. ASSUME NEW i \in DOMAIN all
          PROVE  (\E j \in DOMAIN out : out[j] = all[i]) \/ (\E j \in DOMAIN kept : kept[j] = all[i])
      <4>1. i \in 1 .. d \/ (i - d \in 1 .. JournalLimit /\ d + (i - d) = i)
        BY <1>1, <2>0, <3>1
      <4> QED BY <3>3, <3>4, <4>1
    <3>6. \A j \in DOMAIN kept : \E i \in DOMAIN all : kept[j] = all[i]
      BY <3>3
    <3> QED BY <2>1, <3>4, <3>5, <3>6
  <2> QED BY <1>1, <2>0, <2>2, <2>3
<1>5. ids \in Seq(MsgIds) /\ DOMAIN ids = DOMAIN out /\ \A j \in DOMAIN out : ids[j] = out[j].id
  <2>1. \A j \in DOMAIN out : out[j] \in Records
    BY <1>4
  <2>2. \A j \in DOMAIN out : out[j].id \in MsgIds
    BY <2>1 DEF Records
  <2>3. Len(out) \in Nat /\ DOMAIN out = 1 .. Len(out)
    BY <1>4
  <2> QED BY <2>2, <2>3
<1> HIDE DEF ids
<1>6. /\ evicted[a] \in Seq(MsgIds) /\ more \in Seq(MsgIds)
      /\ Len(evicted[a]) \in Nat /\ Len(ids) \in Nat /\ Len(more) = Len(evicted[a]) + Len(ids)
      /\ \A i \in 1 .. Len(evicted[a]) + Len(ids) :
           more[i] = IF i <= Len(evicted[a]) THEN evicted[a][i] ELSE ids[i - Len(evicted[a])]
  <2>1. evicted[a] \in Seq(MsgIds)
    BY DEF RecordTypes
  <2> QED BY <1>5, <2>1, ConcatProperties
<1>7. /\ \A i \in DOMAIN evicted[a] : \E j \in DOMAIN more : more[j] = evicted[a][i]
      /\ \A i \in DOMAIN ids : \E j \in DOMAIN more : more[j] = ids[i]
  <2>1. \A i \in DOMAIN evicted[a] : i \in DOMAIN more /\ more[i] = evicted[a][i]
    BY <1>6
  <2>2. ASSUME NEW i \in DOMAIN ids
        PROVE  Len(evicted[a]) + i \in DOMAIN more /\ more[Len(evicted[a]) + i] = ids[i]
    <3>1. i \in 1 .. Len(ids) /\ DOMAIN more = 1 .. Len(more)
      BY <1>5, <1>6, <2>2
    <3>2. Len(evicted[a]) + i \in 1 .. Len(evicted[a]) + Len(ids) /\ ~(Len(evicted[a]) + i <= Len(evicted[a]))
          /\ (Len(evicted[a]) + i) - Len(evicted[a]) = i
      BY <1>6, <3>1
    <3> QED BY <1>6, <3>1, <3>2
  <2> QED BY <2>1, <2>2
<1> HIDE DEF more
<1>8. Last(more, EvictedLimit) \in Seq(MsgIds)
      /\ (Len(Last(more, EvictedLimit)) < EvictedLimit => Last(more, EvictedLimit) = more)
  <2> DEFINE last == Last(more, EvictedLimit)
  <2>1. /\ last \in Seq(MsgIds) /\ (Len(more) <= EvictedLimit => last = more)
        /\ (Len(more) > EvictedLimit => Len(last) = EvictedLimit)
    BY <1>1, <1>6, LastOf
  <2> HIDE DEF last
  <2>2. Len(last) < EvictedLimit => last = more
    BY <1>1, <1>6, <2>1
  <2> QED BY <2>1, <2>2 DEF last
<1>9. evicted'[a] = more /\ \A b \in Instances \ {a} : evicted'[b] = evicted[b]
  BY <1>2, <1>8 DEF Remembers, RecordTypes
<1>10. journal'[a] = kept /\ \A b \in Instances \ {a} : journal'[b] = journal[b]
  BY <1>2 DEF RecordTypes
<1>11. journal' \in [Instances -> Seq(Records)] /\ evicted' \in [Instances -> Seq(MsgIds)]
  BY <1>2, <1>4, <1>8 DEF RecordTypes
<1>12. ASSUME NEW i \in DOMAIN all
       PROVE  (\E x \in Entries(a)' : x = all[i]) \/ all[i].id \in Dropped(a)'
  <2>1. CASE \E j \in DOMAIN kept : kept[j] = all[i]
    BY <1>10, <2>1 DEF Entries
  <2>2. ASSUME NEW j \in DOMAIN out, out[j] = all[i]
        PROVE  all[i].id \in Dropped(a)'
    BY <1>5, <1>7, <1>9, <2>2 DEF Dropped
  <2> QED BY <1>4, <2>1, <2>2
<1>13. Noted(a, e.id)'
  BY <1>3, <1>12 DEF Noted
<1>14. ASSUME NEW b \in Instances, NEW id \in MsgIds, Noted(b, id)
       PROVE  Noted(b, id)'
  <2>1. CASE b # a
    BY <1>9, <1>10, <1>14, <2>1 DEF Noted, Entries, Dropped
  <2>2. CASE b = a /\ id \in Dropped(a)
    BY <1>7, <1>9, <2>2 DEF Noted, Dropped
  <2>3. ASSUME b = a, NEW i \in DOMAIN journal[a], journal[a][i].id = id
        PROVE  Noted(b, id)'
    <3>1. i \in DOMAIN all /\ all[i].id = id
      BY <1>3, <2>3
    <3> QED BY <1>12, <2>3, <3>1 DEF Noted
  <2> QED BY <1>14, <2>1, <2>2, <2>3 DEF Noted, Entries
<1>15. ASSUME NEW b \in Instances
       PROVE  Entries(b)' \subseteq Entries(b) \cup {e}
  BY <1>3, <1>4, <1>10 DEF Entries
<1> QED BY <1>11, <1>13, <1>14, <1>15

-----------------------------------------------------------------------------
(* The agents' steps.                                                      *)

(* What a flow says of the wires, and that turns are kept on them.         *)
Passes ==
  /\ UNCHANGED <<asks, told, pc, my>> /\ alive' \subseteq alive
  /\ \A h \in Channels : \A m \in Down(h)' : m = ShutdownRequest \/ m \in Down(h)
  /\ \A b \in Instances, h \in Channels : at[b] = h => at'[b] = h \/ Down(h)' = {}
  /\ InTurn'

(* A step that executes nothing, and one that keeps the journals.          *)
Rests == UNCHANGED <<doing, ran>>
Keeps == UNCHANGED <<journalVars, told, asks, ran>>

LEMMA KeepsJournals ==
  ASSUME RecordTypes, TrueRecords, Keeps
  PROVE  /\ RecordTypes' /\ TrueRecords'
         /\ \A b \in Instances, id \in MsgIds : Noted(b, id) => Noted(b, id)'
<1>1. Asked' = Asked /\ \A id : RanAs(id)' <=> RanAs(id)
  BY SameAsks DEF RanAs, Keeps
<1>2. \A b \in Instances : Entries(b)' = Entries(b) /\ Dropped(b)' = Dropped(b)
  BY DEF Keeps, journalVars, Entries, Dropped
<1>3. RecordTypes'
  BY <1>1 DEF RecordTypes, Keeps, journalVars
<1>4. TrueRecords'
  BY <1>1, <1>2 DEF TrueRecords, Keeps, journalVars
<1> QED BY <1>2, <1>3, <1>4 DEF Noted

LEMMA RestingFlows ==
  ASSUME Passes, Rests, \A b \in Instances, id \in MsgIds : Noted(b, id) => Noted(b, id)'
  PROVE  Flow
BY DEF Passes, Rests, Flow

LEMMA TurnsPass ==
  ASSUME IInv, OInv, UNCHANGED asks,
         \A h \in Channels : \/ chan'[h].down = chan[h].down
                             \/ chan'[h].down = <<>>
                             \/ chan[h].down # <<>> /\ chan'[h].down = Tail(chan[h].down)
                             \/ chan'[h].down = Append(chan[h].down, ShutdownRequest)
  PROVE  /\ InTurn'
         /\ \A h \in Channels : \A m \in Down(h)' : m = ShutdownRequest \/ m \in Down(h)
<1>1. Asked' = Asked /\ AgentTypes
  BY DEF Asked, IInv
<1>2. ASSUME NEW h \in Channels, NEW n \in Asked
      PROVE  TurnKept(chan'[h].down, n)
  <2>1. TurnKept(chan[h].down, n) /\ chan[h].down \in Seq(Messages)
    BY <1>1, DownOf DEF OInv, InTurn
  <2>2. CASE chan'[h].down = chan[h].down
    BY <2>1, <2>2
  <2>3. CASE chan'[h].down = <<>>
    BY <2>3 DEF TurnKept
  <2>4. CASE chan[h].down # <<>> /\ chan'[h].down = Tail(chan[h].down)
    BY <2>1, <2>4, TurnTail
  <2>5. CASE chan'[h].down = Append(chan[h].down, ShutdownRequest)
    BY <2>1, <2>5, TurnAppend, IdleMessages, OwnMessages
  <2> QED BY <2>2, <2>3, <2>4, <2>5
<1>3. ASSUME NEW h \in Channels, NEW m \in Down(h)'
      PROVE  m = ShutdownRequest \/ m \in Down(h)
  <2>1. CASE chan'[h].down = chan[h].down
    BY <1>3, <2>1 DEF Down
  <2>2. CASE chan'[h].down = <<>>
    BY <1>3, <2>2 DEF Down
  <2>3. CASE chan[h].down # <<>> /\ chan'[h].down = Tail(chan[h].down)
    BY <1>1, <1>3, <2>3, DownTail
  <2>4. CASE chan'[h].down = Append(chan[h].down, ShutdownRequest)
    BY <1>1, <1>3, <2>4, DownAppend, IdleMessages
  <2> QED BY <2>1, <2>2, <2>3, <2>4
<1> QED BY <1>1, <1>2, <1>3 DEF InTurn

LEMMA WorksPass ==
  ASSUME IInv, OInv, NEW a \in Instances, Works(a)
  PROVE  Passes /\ UNCHANGED <<pending, reply>>
<1>1. UNCHANGED <<asks, told, pc, my, reply, pending, alive, at>>
  BY DEF Works, callerVars, dvcVars
<1>2. \A h \in Channels : \/ chan'[h].down = chan[h].down
                          \/ chan[h].down # <<>> /\ chan'[h].down = Tail(chan[h].down)
  BY DEF Works
<1> QED BY <1>1, <1>2, TurnsPass DEF Passes

LEMMA LeavesPass ==
  ASSUME IInv, OInv, NEW a \in Instances, Leaves(a)
  PROVE  /\ Passes /\ UNCHANGED <<pending, reply>>
         /\ \A b \in Instances : doing'[b] \in {doing[b], NoMessage}
<1>0. PICK h \in Channels : h = at[a]
  BY DEF Leaves
<1>1. /\ UNCHANGED <<asks, told, pc, my, reply, pending>>
      /\ alive' \in {alive, alive \ {a}} /\ doing' = [doing EXCEPT ![a] = NoMessage]
      /\ at' = [at EXCEPT ![a] = None]
  BY DEF Leaves, callerVars, dvcVars
<1>2. chan'[h].down = <<>> /\ \A g \in Channels \ {h} : chan'[g] = chan[g]
  BY <1>0 DEF Leaves, IInv, AgentTypes
<1>3. Down(h)' = {}
  BY <1>2 DEF Down
<1>4. /\ \A b \in Instances \ {a} : at'[b] = at[b]
      /\ \A b \in Instances : doing'[b] \in {doing[b], NoMessage}
  BY <1>1 DEF IInv, AgentTypes
<1>5. /\ InTurn'
      /\ \A g \in Channels : \A m \in Down(g)' : m = ShutdownRequest \/ m \in Down(g)
  BY <1>1, <1>2, TurnsPass
<1>6. \A b \in Instances, g \in Channels : at[b] = g => at'[b] = g \/ Down(g)' = {}
  BY <1>0, <1>3, <1>4
<1> QED BY <1>1, <1>4, <1>5, <1>6 DEF Passes

(* What an agent has said is true and asked for.                           *)
LEMMA SaidNothing ==
  ASSUME IInv, \A h \in Channels : \/ chan'[h].up = chan[h].up
                                   \/ chan'[h].up = Append(chan[h].up, Closing)
                                   \/ chan[h].up # <<>> /\ chan'[h].up = Tail(chan[h].up)
                                   \/ chan'[h].up = <<Greeting>>
  PROVE  UpFlow
<1> SUFFICES ASSUME NEW h \in Channels, NEW x \in Up(h)'
             PROVE  x \in Up(h) \/ x \notin Answers
  BY DEF UpFlow
<1>1. CASE chan'[h].up = chan[h].up
  BY <1>1 DEF Up
<1>2. CASE chan'[h].up = Append(chan[h].up, Closing)
  BY <1>2, UpAppend DEF IInv, Closing, Answers
<1>3. CASE chan[h].up # <<>> /\ chan'[h].up = Tail(chan[h].up)
  BY <1>3, UpTail DEF IInv
<1>4. CASE chan'[h].up = <<Greeting>>
  <2>1. x = Greeting
    BY <1>4 DEF Up
  <2> QED BY <2>1 DEF Greeting, Answers
<1> QED BY <1>1, <1>2, <1>3, <1>4

LEMMA SaidTruly ==
  ASSUME IInv, NEW h \in Channels, \A g \in Channels \ {h} : chan'[g] = chan[g],
         NEW x \in Answers,
         \/ chan'[h].up = Append(chan[h].up, x)
         \/ chan'[h].up = Append(Append(chan[h].up, x), Closing),
         TrueAnswer(x)',
         x.id.attempt > 0 => \E m \in Down(h) : Inquires(m, x.id.n)
  PROVE  UpFlow
<1>1. \A y \in Up(h)' : y \in Up(h) \/ y = x \/ y \notin Answers
  <2>1. chan[h].up \in Ups
    BY DownOf DEF IInv
  <2>2. CASE chan'[h].up = Append(chan[h].up, x)
    BY <2>2, UpAppend DEF IInv
  <2>3. CASE chan'[h].up = Append(Append(chan[h].up, x), Closing)
    <3> DEFINE S == {Greeting, Closing} \cup Answers
               u == Append(chan[h].up, x)
    <3>1. chan[h].up \in Seq(S) /\ x \in S /\ Closing \in S
      BY <2>1 DEF Ups
    <3> HIDE DEF S
    <3>2. u \in Seq(S) /\ \A i \in DOMAIN u : (i \in DOMAIN chan[h].up /\ u[i] = chan[h].up[i]) \/ u[i] = x
      BY <3>1, AppendElements
    <3> HIDE DEF u
    <3>3. \A i \in DOMAIN Append(u, Closing) :
            (i \in DOMAIN u /\ Append(u, Closing)[i] = u[i]) \/ Append(u, Closing)[i] = Closing
      BY <3>1, <3>2, AppendElements
    <3>4. Closing \notin Answers
      BY DEF Closing, Answers
    <3>5. chan'[h].up = Append(u, Closing)
      BY <2>3 DEF u
    <3> QED BY <3>2, <3>3, <3>4, <3>5 DEF Up
  <2> QED BY <2>2, <2>3
<1>2. \A g \in Channels \ {h} : Up(g)' = Up(g)
  BY DEF Up
<1>3. ASSUME NEW n \in Asked, Informs(x, n)
      PROVE  \E g \in Channels, m \in Messages : m \in Down(g) /\ Inquires(m, n)
  BY <1>3, DownOf DEF IInv, Informs
<1> QED BY <1>1, <1>2, <1>3 DEF UpFlow

(* A command ends: its result is noted, and says it took effect only if it *)
(* did.                                                                    *)
LEMMA DoingFacts ==
  ASSUME IInv, OInv, NEW a \in Instances, doing[a] # NoMessage
  PROVE  /\ doing[a] \in Messages /\ doing[a].n \in Asked /\ doing[a].id.attempt = 0
         /\ doing[a].id = Id(doing[a].n, 0) /\ doing[a].id # ShutdownId
         /\ Carries(doing[a], doing[a].n) /\ Subject(doing[a].id) = doing[a].id
<1>1. Made(doing[a]) /\ doing[a].id.attempt = 0
  BY DEF OInv, MessagesMade
<1>2. /\ doing[a] \in Messages /\ doing[a].n \in Asked
      /\ doing[a].id = Id(doing[a].n, 0)
  BY <1>1, MadeFacts DEF IInv
<1>3. doing[a].id # ShutdownId
  <2>1. 0 \in 0 .. Attempts
    BY LimitsAssumption
  <2> QED BY <1>2, <2>1, IdsOf DEF IInv
<1> QED BY <1>1, <1>2, <1>3 DEF Carries, Subject

LEMMA Concluded ==
  ASSUME IInv, OInv, Remembers', NEW a \in Instances, doing[a] # NoMessage, UNCHANGED <<asks, told>>,
         NEW o \in Outcomes, NEW written \in BOOLEAN, NEW old, Complete(a, o, written, old),
         NEW m \in Messages, m = doing[a]
  PROVE  /\ RecordTypes' /\ TrueRecords'
         /\ ran' = ran \/ ran' = ran \cup {m.n}
         /\ (o.ok => RanAs(m.id)') /\ Noted(a, m.id)'
         /\ \A b \in Instances, id \in MsgIds : Noted(b, id) => Noted(b, id)'
<1> DEFINE e == Entry(m.id, m.cmd, o.ok)
<1>1. m.n \in Asked /\ m.id = Id(m.n, 0)
  BY DoingFacts
<1>2. o.ok \in BOOLEAN /\ o.effect \in BOOLEAN /\ (o.ok => o.effect)
  BY DEF Outcomes
<1>3. e \in Records /\ e.id = m.id /\ e.ok = o.ok
  BY <1>2 DEF Entry, Records, Messages
<1>4. Record(a, e) /\ ran' = (IF o.effect THEN ran \cup {m.n} ELSE ran)
  BY DEF Complete, TakesEffect
<1>5. disk' \subseteq disk \cup {e}
  BY DEF Complete, Persist
<1> HIDE DEF e
<1>6. RecordTypes /\ TrueRecords
  BY DEF OInv
<1>7. /\ journal' \in [Instances -> Seq(Records)] /\ evicted' \in [Instances -> Seq(MsgIds)]
      /\ \A b \in Instances : Entries(b)' \subseteq Entries(b) \cup {e}
      /\ \A b \in Instances, id \in MsgIds : Noted(b, id) => Noted(b, id)'
      /\ Noted(a, e.id)'
  BY <1>3, <1>4, <1>6, Noting
<1>8. Noted(a, m.id)'
  BY <1>3, <1>7 DEF Noted
<1>9. Asked' = Asked /\ \A n : Id(n, 0)' = Id(n, 0)
  BY SameAsks
<1>10. ran \subseteq ran' /\ ran' \subseteq Asked
  BY <1>1, <1>4, <1>6 DEF RecordTypes
<1>11. \A id : RanAs(id) => RanAs(id)'
  BY <1>9, <1>10 DEF RanAs
<1>12. o.ok => RanAs(m.id)'
  BY <1>1, <1>2, <1>4, <1>9 DEF RanAs
<1>13. RecordTypes'
  BY <1>3, <1>5, <1>6, <1>7, <1>9, <1>10 DEF RecordTypes
<1>14. \A id : id = m.id /\ o.ok => RanAs(id)'
  BY <1>12 DEF RanAs
<1>15. TrueRecords'
  BY <1>3, <1>5, <1>6, <1>7, <1>11, <1>14 DEF TrueRecords
<1> QED BY <1>4, <1>7, <1>8, <1>12, <1>13, <1>15

(* Whoever ends what it executes passes on what is under way.              *)
LEMMA ConcludedFlows ==
  ASSUME IInv, OInv, Passes, NEW a \in Instances, doing[a] # NoMessage,
         \A b \in Instances : doing'[b] \in {doing[b], NoMessage},
         NEW m \in Messages, m = doing[a], ran' = ran \/ ran' = ran \cup {m.n},
         a \notin alive' \/ Noted(a, m.id)',
         \A b \in Instances, id \in MsgIds : Noted(b, id) => Noted(b, id)'
  PROVE  Flow
<1>1. m.n \in Asked /\ Carries(m, m.n)
  BY DoingFacts
<1>2. ran \subseteq ran'
  OBVIOUS
<1>3. \A id : id = doing[a].id => a \notin alive' \/ Noted(a, id)'
  BY DEF Noted
<1>4. \A n \in ran' \ ran : n \in Asked /\ \E b \in Instances :
        Carries(doing[b], n) /\ (b \notin alive' \/ \A id : id = doing[b].id => Noted(b, id)')
  BY <1>1, <1>3
<1> QED BY <1>2, <1>4 DEF Flow, Passes

LEMMA NextFacts ==
  ASSUME IInv, OInv, NEW a \in Instances, Free(a)
  PROVE  /\ at[a] \in Channels /\ chan[at[a]].down \in Seq(Messages)
         /\ 1 \in DOMAIN chan[at[a]].down /\ chan[at[a]].down[1] = NextFor(a)
         /\ NextFor(a) \in Down(at[a]) /\ NextFor(a) \in Messages
         /\ NextFor(a).cmd # "shutdown" => Made(NextFor(a))
<1>1. /\ at[a] \in Channels /\ chan[at[a]].down \in Seq(Messages) /\ chan[at[a]].down # <<>>
      /\ NextFor(a) \in Messages
  BY Holding DEF Free, IInv
<1>2. 1 \in DOMAIN chan[at[a]].down /\ chan[at[a]].down[1] = NextFor(a)
  BY <1>1 DEF NextFor
<1>3. NextFor(a) \in Down(at[a])
  BY <1>2 DEF Down
<1>4. NextFor(a) = ShutdownRequest \/ Made(NextFor(a))
  BY <1>1, <1>3 DEF OInv, MessagesMade
<1> QED BY <1>1, <1>2, <1>3, <1>4 DEF ShutdownRequest

LEMMA LoseMessageTrue == ASSUME IInv, OInv, NEW a \in Instances, LoseMessage(a) PROVE OInv'
<1>1. /\ Free(a) /\ chan' = [chan EXCEPT ![at[a]] = Taken(a)]
      /\ UNCHANGED <<dvcVars, agentVars, callerVars, ghostVars>>
  BY DEF LoseMessage
<1>2. Works(a) /\ Rests /\ Keeps
  BY <1>1, TakingWorks DEF IInv, agentVars, callerVars, ghostVars, Rests, Keeps
<1>3. Passes /\ UNCHANGED <<pending, reply>>
  BY <1>2, WorksPass
<1>4. UpFlow
  BY <1>1, Holding, SaidNothing DEF Free, IInv, AgentTypes
<1>5. /\ RecordTypes' /\ TrueRecords'
      /\ \A b \in Instances, id \in MsgIds : Noted(b, id) => Noted(b, id)'
  BY <1>2, KeepsJournals DEF OInv
<1>6. Flow
  BY <1>2, <1>3, <1>5, RestingFlows
<1> QED BY <1>3, <1>4, <1>5, <1>6, MovedQuietly DEF Passes

LEMMA StartTrue == ASSUME IInv, OInv, NEW a \in Instances, Start(a) PROVE OInv'
<1>1. /\ Free(a) /\ chan' = [chan EXCEPT ![at[a]] = Taken(a)]
      /\ doing' = [doing EXCEPT ![a] = NextFor(a)]
      /\ NextFor(a).cmd \notin {"query_result", "shutdown"}
      /\ UNCHANGED <<dvcVars, alive, at, journalVars, callerVars, ghostVars>>
  BY DEF Start
<1>2. Works(a) /\ Keeps
  BY <1>1, TakingWorks DEF IInv, callerVars, ghostVars, Keeps
<1>3. Passes /\ UNCHANGED <<pending, reply>>
  BY <1>2, WorksPass
<1>4. UpFlow
  BY <1>1, Holding, SaidNothing DEF Free, IInv, AgentTypes
<1>5. /\ RecordTypes' /\ TrueRecords'
      /\ \A b \in Instances, id \in MsgIds : Noted(b, id) => Noted(b, id)'
  BY <1>2, KeepsJournals DEF OInv
<1>6. ASSUME NEW b \in Instances
      PROVE  \/ doing'[b] \in {doing[b], NoMessage}
             \/ doing'[b].id.attempt = 0 /\ doing'[b] # ShutdownRequest
                  /\ \E g \in Channels : at[b] = g /\ doing'[b] \in Down(g)
  <2>1. CASE b # a
    BY <1>1, <2>1 DEF IInv, AgentTypes
  <2>2. CASE b = a
    <3>1. doing'[a] = NextFor(a)
      BY <1>1 DEF IInv, AgentTypes
    <3>2. NextFor(a) \in Down(at[a]) /\ Made(NextFor(a)) /\ at[a] \in Channels
      BY <1>1, NextFacts
    <3>3. NextFor(a).id.attempt = 0 /\ NextFor(a) # ShutdownRequest
      BY <1>1, <3>2, MadeFacts DEF IInv
    <3> QED BY <2>2, <3>1, <3>2, <3>3
  <2> QED BY <2>1, <2>2
<1>7. Flow
  BY <1>1, <1>3, <1>5, <1>6 DEF Flow, Passes, ghostVars
<1> QED BY <1>3, <1>4, <1>5, <1>7, MovedQuietly DEF Passes

LEMMA ReplayTrue == ASSUME IInv, OInv, NEW a \in Instances, Replay(a) PROVE OInv'
<1>1. PICK m \in Messages : m = NextFor(a)
  BY NextFacts DEF Replay
<1> DEFINE found == Lookup(a, m.id, IsKeyed(m))
<1>2. /\ Free(a) /\ m.cmd \notin {"query_result", "shutdown"} /\ Cache(a, found)
      /\ UNCHANGED <<dvcVars, alive, at, doing, evicted, pruned, disk, callerVars, ghostVars>>
  BY <1>1 DEF Replay
<1>3. found \subseteq Entries(a) \cup disk /\ \A e \in found : e.id = m.id
  BY DEF Lookup, InMemory
<1>4. PICK e \in found :
        Says(a, Taken(a), m.id,
             Reply(IF e.cmd # m.cmd THEN "reused" ELSE IF e.ok THEN "ok" ELSE "failed", a))
  BY <1>1 DEF Replay
<1>5. PICK v \in {"ok", "failed", "reused"} :
        Says(a, Taken(a), m.id, Reply(v, a)) /\ (v = "ok" => e.ok)
  BY <1>4
<1>6. PICK h \in Channels : h = at[a]
  BY <1>2, NextFacts
<1> DEFINE x == Answer(m.id, Reply(v, a))
<1>7. x \in Answers /\ x.id = m.id /\ x.reply.verdict = v /\ x.reply.by = a
  BY AgentsAnswers DEF Messages, Answer, Reply
<1>8. Works(a) /\ chan'[h].up = Append(chan[h].up, x)
  BY <1>1, <1>2, <1>5, <1>6, <1>7, SayingWorks DEF IInv, Free
<1>9. Passes /\ UNCHANGED <<pending, reply>> /\ \A g \in Channels \ {h} : chan'[g] = chan[g]
  BY <1>6, <1>8, WorksPass DEF Works
<1>10. Made(m) /\ m.id.attempt = 0 /\ m.id = Id(m.n, m.id.attempt) /\ m.n \in Asked
  BY <1>1, <1>2, NextFacts, MadeFacts DEF IInv
<1>11. UNCHANGED <<evicted, disk, ran, told, asks>> /\ Rests
  BY <1>2 DEF callerVars, ghostVars, Rests
<1>12. RecordTypes /\ TrueRecords
  BY DEF OInv
<1> HIDE DEF found, x
<1>13. /\ RecordTypes' /\ TrueRecords'
       /\ \A b \in Instances, id \in MsgIds : Noted(b, id) => Noted(b, id)'
  BY <1>2, <1>3, <1>11, <1>12, Cached
<1>14. Flow
  BY <1>9, <1>11, <1>13, RestingFlows
<1>15. TrueAnswer(x)
  <2>1. Subject(m.id) = m.id
    BY <1>10 DEF Subject
  <2>2. v = "ok" => RanAs(m.id)
    BY <1>3, <1>5, <1>12 DEF TrueRecords
  <2> QED BY <1>7, <1>10, <2>1, <2>2 DEF TrueAnswer
<1>16. TrueAnswer(x)'
  BY <1>7, <1>14, <1>15, FlowTrue
<1>17. UpFlow
  BY <1>7, <1>8, <1>9, <1>10, <1>16, SaidTruly
<1> QED BY <1>9, <1>13, <1>14, <1>17, MovedQuietly DEF Passes

LEMMA ReportedTrue ==
  ASSUME IInv, OInv, Remembers', NEW a \in Instances, Holds(a), doing[a] # NoMessage,
         NEW o \in Outcomes, NEW written \in BOOLEAN, NEW old, Complete(a, o, written, old), Reports(a, o)
  PROVE  OInv'
<1>1. PICK m \in Messages : m = doing[a]
  BY DEF IInv, AgentTypes
<1>2. PICK v \in {"ok", "failed"} : Says(a, chan[at[a]], m.id, Reply(v, a)) /\ (v = "ok" => o.ok)
  BY <1>1 DEF Reports
<1>3. PICK h \in Channels : h = at[a]
  BY Holding DEF IInv
<1> DEFINE x == Answer(m.id, Reply(v, a))
<1>4. x \in Answers /\ x.id = m.id /\ x.reply.verdict = v
  BY AgentsAnswers DEF Messages, Answer, Reply
<1>5. doing' = [doing EXCEPT ![a] = NoMessage] /\ UNCHANGED <<dvcVars, alive, at, callerVars>>
  BY DEF Reports
<1>6. Works(a) /\ chan'[h].up = Append(chan[h].up, x)
  BY <1>2, <1>3, <1>4, <1>5, SayingWorks DEF IInv
<1> HIDE DEF x
<1>7. Passes /\ UNCHANGED <<pending, reply, asks, told>> /\ \A g \in Channels \ {h} : chan'[g] = chan[g]
  BY <1>3, <1>6, WorksPass DEF Works, Passes
<1>8. /\ RecordTypes' /\ TrueRecords'
      /\ ran' = ran \/ ran' = ran \cup {m.n}
      /\ (o.ok => RanAs(m.id)') /\ Noted(a, m.id)'
      /\ \A b \in Instances, id \in MsgIds : Noted(b, id) => Noted(b, id)'
  BY <1>1, <1>7, Concluded
<1>9. \A b \in Instances : doing'[b] \in {doing[b], NoMessage}
  BY <1>5 DEF IInv, AgentTypes
<1>10. Flow
  BY <1>1, <1>7, <1>8, <1>9, ConcludedFlows
<1>11. m.id.attempt = 0
  BY <1>1, DoingFacts
<1>12. TrueAnswer(x)'
  <2>1. \A id : id = m.id => Subject(id)' = m.id
    BY <1>11 DEF Subject
  <2>2. \A id : id = m.id /\ v = "ok" => RanAs(id)'
    BY <1>2, <1>8 DEF RanAs
  <2> QED BY <1>4, <1>11, <2>1, <2>2 DEF TrueAnswer, RanAs
<1>13. UpFlow
  BY <1>4, <1>6, <1>7, <1>11, <1>12, SaidTruly
<1> QED BY <1>7, <1>8, <1>10, <1>13, MovedQuietly DEF Passes

LEMMA FinishTrue == ASSUME IInv, OInv, Remembers', NEW a \in Instances, Finish(a) PROVE OInv'
BY ReportedTrue DEF Finish

LEMMA FinishUnrecordedTrue ==
  ASSUME IInv, OInv, Remembers', NEW a \in Instances, FinishUnrecorded(a) PROVE OInv'
<1>1. doing[a] # NoMessage
  BY DEF FinishUnrecorded, IsKeyed, NoMessage, ShutdownId
<1> QED BY <1>1, ReportedTrue DEF FinishUnrecorded

LEMMA FinishUnheardTrue ==
  ASSUME IInv, OInv, Remembers', NEW a \in Instances, FinishUnheard(a) PROVE OInv'
<1>1. PICK m \in Messages : m = doing[a]
  BY DEF IInv, AgentTypes
<1>2. PICK o \in Outcomes : Complete(a, o, TRUE, {})
  BY DEF FinishUnheard
<1>3. Leaves(a) /\ chan'[at[a]].up = Append(chan[at[a]].up, Closing) /\ at[a] \in Channels /\ doing[a] # NoMessage
  BY HangingLeaves, Holding DEF FinishUnheard, IInv
<1>4. /\ Passes /\ UNCHANGED <<pending, reply, asks, told>>
      /\ \A b \in Instances : doing'[b] \in {doing[b], NoMessage}
  BY <1>3, LeavesPass DEF Passes
<1>5. UpFlow
  BY <1>3, SaidNothing DEF Leaves, IInv, AgentTypes
<1>6. /\ RecordTypes' /\ TrueRecords'
      /\ ran' = ran \/ ran' = ran \cup {m.n}
      /\ Noted(a, m.id)'
      /\ \A b \in Instances, id \in MsgIds : Noted(b, id) => Noted(b, id)'
  BY <1>1, <1>2, <1>3, <1>4, Concluded
<1>7. Flow
  BY <1>1, <1>3, <1>4, <1>6, ConcludedFlows
<1> QED BY <1>4, <1>5, <1>6, <1>7, MovedQuietly DEF Passes

LEMMA QuietLeaveTrue ==
  ASSUME IInv, OInv, NEW a \in Instances, Leaves(a), Keeps, UpFlow
  PROVE  OInv'
<1>1. /\ Passes /\ UNCHANGED <<pending, reply>>
      /\ \A b \in Instances : doing'[b] \in {doing[b], NoMessage}
  BY LeavesPass
<1>2. /\ RecordTypes' /\ TrueRecords'
      /\ \A b \in Instances, id \in MsgIds : Noted(b, id) => Noted(b, id)'
  BY KeepsJournals DEF OInv
<1>3. Flow
  BY <1>1, <1>2 DEF Flow, Passes, Keeps
<1> QED BY <1>1, <1>2, <1>3, MovedQuietly DEF Passes

LEMMA ChannelFailsTrue == ASSUME IInv, OInv, NEW a \in Instances, ChannelFails(a) PROVE OInv'
<1>1. doing' = [doing EXCEPT ![a] = NoMessage]
  BY DEF ChannelFails, IInv, AgentTypes
<1>2. Leaves(a) /\ chan'[at[a]].up = Append(chan[at[a]].up, Closing)
  BY <1>1, HangingLeaves DEF ChannelFails, IInv
<1>3. UpFlow
  BY <1>2, SaidNothing DEF Leaves, IInv, AgentTypes
<1> QED BY <1>2, <1>3, QuietLeaveTrue DEF ChannelFails, Keeps, callerVars, ghostVars

LEMMA ExitTrue == ASSUME IInv, OInv, NEW a \in Instances, Exit(a) PROVE OInv'
<1> DEFINE x == Answer(ShutdownId, Reply("ok", a))
<1>1. Free(a) /\ Holds(a) /\ doing[a] = NoMessage
  BY DEF Exit, Free
<1>2. PICK h \in Channels : h = at[a]
  BY <1>1, Holding DEF IInv
<1>3. chan[h].up \in Ups
  BY DownOf DEF IInv
<1>4. x \in Answers /\ x.id = ShutdownId
  BY AgentsAnswers, IdleMessages DEF ShutdownRequest, Messages, Answer
<1> DEFINE u == Append(chan[h].up, x)
<1>5. u \in Ups /\ chan[h].up \o <<x, Closing>> = Append(u, Closing) /\ <<x, Closing>> \in Seq({Closing} \cup Answers)
  BY <1>3, <1>4, LastWords
<1>6. Deserting(a, <<x, Closing>>) = [agent |-> chan[h].agent, down |-> <<>>, up |-> Append(u, Closing)]
  BY <1>1, <1>2, <1>5, Departing DEF IInv
<1>7. chan' = [chan EXCEPT ![h] = [agent |-> chan[h].agent, down |-> <<>>, up |-> Append(u, Closing)]]
  BY <1>2, <1>6 DEF Exit
<1>8. doing' = [doing EXCEPT ![a] = NoMessage]
  BY <1>1 DEF Exit, IInv, AgentTypes
<1>9. Leaves(a)
  BY <1>2, <1>4, <1>5, <1>7, <1>8 DEF Leaves, Exit
<1>10. TrueAnswer(x)'
  <2>1. ShutdownId.attempt = 0 /\ x.reply.verdict = "ok"
    BY DEF ShutdownId, Answer, Reply
  <2> QED BY <1>4, <2>1 DEF TrueAnswer
<1>11. chan'[h].up = Append(u, Closing) /\ \A g \in Channels \ {h} : chan'[g] = chan[g]
  BY <1>7 DEF IInv, AgentTypes
<1>12. UpFlow
  <2>1. ~(x.id.attempt > 0)
    BY <1>4 DEF ShutdownId
  <2>2. chan'[h].up = Append(Append(chan[h].up, x), Closing)
    BY <1>11
  <2> HIDE DEF x, u
  <2> QED BY <1>4, <1>10, <1>11, <2>1, <2>2, SaidTruly
<1>13. Keeps
  BY DEF Exit, Keeps, callerVars, ghostVars
<1> QED BY <1>9, <1>12, <1>13, QuietLeaveTrue

(* An agent that lives and has no record of what it was handed has not     *)
(* executed it, and has nothing before it that would.                      *)
LEMMA UnknownIsNever ==
  ASSUME IInv, OInv, NEW a \in Instances, a \in alive, doing[a] = NoMessage,
         NEW n \in Asked, Followed(n, a), ~Noted(a, Id(n, 0)),
         NEW h \in Channels, h = at[a],
         1 \in DOMAIN chan[h].down, Inquires(chan[h].down[1], n)
  PROVE  Never(n)
<1>1. n \notin ran
  BY DEF Followed
<1>2. ASSUME NEW b \in Instances
      PROVE  ~Carries(doing[b], n)
  BY OwnMessages DEF Followed
<1>3. ASSUME NEW g \in Channels, NEW m \in Down(g)
      PROVE  ~Carries(m, n)
  <2> SUFFICES ASSUME Carries(m, n) PROVE FALSE
    OBVIOUS
  <2>1. g = h
    BY <1>3 DEF Followed
  <2>2. PICK j \in DOMAIN chan[h].down : m = chan[h].down[j]
    BY <1>3, <2>1 DEF Down
  <2>3. j # 1
    BY <2>2 DEF Carries, Inquires
  <2>4. j \in Nat /\ 1 < j
    <3>1. chan[h].down \in Seq(Messages)
      BY DownOf DEF IInv
    <3>2. j \in 1 .. Len(chan[h].down) /\ Len(chan[h].down) \in Nat
      BY <2>2, <3>1
    <3> QED BY <2>3, <3>2
  <2>5. TurnKept(chan[h].down, n)
    BY DEF OInv, InTurn
  <2> QED BY <2>2, <2>4, <2>5 DEF TurnKept
<1> QED BY <1>1, <1>2, <1>3 DEF Never

LEMMA AnswerQueryTrue == ASSUME IInv, OInv, NEW a \in Instances, AnswerQuery(a) PROVE OInv'
<1>1. PICK m \in Messages : m = NextFor(a)
  BY NextFacts DEF AnswerQuery
<1>2. /\ Free(a) /\ m.cmd = "query_result"
      /\ UNCHANGED <<dvcVars, alive, at, doing, evicted, pruned, disk, callerVars, ghostVars>>
  BY <1>1 DEF AnswerQuery
<1>3. PICK h \in Channels : h = at[a]
  BY <1>2, NextFacts
<1>4. Made(m) /\ m \in Down(h) /\ 1 \in DOMAIN chan[h].down /\ chan[h].down[1] = m
  BY <1>1, <1>2, <1>3, NextFacts
<1>5. /\ m.n \in Asked /\ m.id.attempt \in 1 .. Attempts /\ m.id = Id(m.n, m.id.attempt)
      /\ m.id.n = m.n /\ Inquires(m, m.n) /\ Subject(m.id) = Id(m.n, 0)
  <2>1. m.n \in Asked /\ m.id.attempt \in 0 .. Attempts /\ m.id = Id(m.n, m.id.attempt) /\ m.id.attempt > 0
    BY <1>2, <1>4, MadeFacts DEF IInv
  <2>2. Id(m.n, m.id.attempt) = [key |-> NoKey, n |-> m.n, attempt |-> m.id.attempt]
    BY <2>1, IdsOf DEF IInv
  <2>3. m.id.n = m.n
    BY <2>1, <2>2
  <2> QED BY <2>1, <2>3, LimitsAssumption DEF Inquires, Subject
<1>6. PICK id \in MsgIds : id = Id(m.n, 0)
  <2>1. 0 \in 0 .. Attempts
    BY LimitsAssumption
  <2> QED BY <1>5, <2>1, IdsOf DEF IInv
<1> DEFINE found == Lookup(a, id, TRUE)
<1>7. /\ Cache(a, found)
      /\ \E v \in IF found # {} THEN {IF e.ok THEN "ok" ELSE "failed" : e \in found}
                  ELSE IF id \in Dropped(a) \cup pruned[a] THEN {"evicted"} ELSE {"unknown"} :
           Says(a, Taken(a), m.id, Reply(v, a))
  BY <1>1, <1>6 DEF AnswerQuery
<1>8. found \subseteq Entries(a) \cup disk /\ \A e \in found : e.id = id
  BY DEF Lookup, InMemory
<1>9. found = {} => \A e \in Entries(a) : e.id # id
  BY DEF Lookup, InMemory
<1> HIDE DEF found
<1>10. PICK v \in {"ok", "failed", "evicted", "unknown"} :
         /\ Says(a, Taken(a), m.id, Reply(v, a))
         /\ v = "ok" => \E e \in found : e.ok
         /\ v = "unknown" => found = {} /\ id \notin Dropped(a)
  BY <1>7
<1> DEFINE x == Answer(m.id, Reply(v, a))
<1>11. x \in Answers /\ x.id = m.id /\ x.reply.verdict = v /\ x.reply.by = a
  BY AgentsAnswers DEF Messages, Answer, Reply
<1>12. Works(a) /\ chan'[h].up = Append(chan[h].up, x)
  BY <1>1, <1>2, <1>3, <1>10, <1>11, SayingWorks DEF IInv, Free
<1> HIDE DEF x
<1>13. Passes /\ UNCHANGED <<pending, reply>> /\ \A g \in Channels \ {h} : chan'[g] = chan[g]
  BY <1>3, <1>12, WorksPass DEF Works
<1>14. UNCHANGED <<evicted, disk, ran, told, asks>> /\ Rests
  BY <1>2 DEF callerVars, ghostVars, Rests
<1>15. RecordTypes /\ TrueRecords
  BY DEF OInv
<1>16. /\ RecordTypes' /\ TrueRecords'
       /\ \A b \in Instances, i \in MsgIds : Noted(b, i) => Noted(b, i)'
  BY <1>7, <1>8, <1>14, <1>15, Cached
<1>17. Flow
  BY <1>13, <1>14, <1>16, RestingFlows
<1>18. TrueAnswer(x)
  <2>1. v = "ok" => RanAs(id)
    BY <1>8, <1>10, <1>15 DEF TrueRecords
  <2>2. m.id # ShutdownId /\ Subject(m.id) = id /\ m.id.attempt > 0
    BY <1>5, <1>6 DEF ShutdownId
  <2>3. ASSUME v = "unknown", NEW c \in Callers, pc[c] # "idle", my[c].n = m.n, my[c].sentTo # NoCaller,
               my[c].sentTo = a
        PROVE  Never(m.n)
    <3>1. Followed(m.n, a)
      BY <2>3 DEF OInv, CallersServed, Served
    <3>2. ~Noted(a, Id(m.n, 0))
      BY <1>6, <1>9, <1>10, <2>3 DEF Noted
    <3>3. a \in alive /\ doing[a] = NoMessage
      BY <1>2 DEF Free, Holds
    <3> QED BY <1>3, <1>4, <1>5, <3>1, <3>2, <3>3, UnknownIsNever
  <2> QED BY <1>5, <1>11, <2>1, <2>2, <2>3 DEF TrueAnswer
<1>19. TrueAnswer(x)'
  BY <1>11, <1>17, <1>18, FlowTrue
<1>20. UpFlow
  BY <1>4, <1>5, <1>11, <1>12, <1>13, <1>19, SaidTruly
<1> QED BY <1>13, <1>16, <1>17, <1>20, MovedQuietly DEF Passes

LEMMA DieTrue == ASSUME IInv, OInv, NEW a \in Instances, Die(a) PROVE OInv'
<1>1. /\ a \in alive /\ alive' = alive \ {a} /\ doing' = [doing EXCEPT ![a] = NoMessage]
      /\ UNCHANGED <<dvcVars, journalVars, callerVars>>
  BY DEF Die
<1>2. PICK m \in Messages : m = doing[a]
  BY DEF IInv, AgentTypes
<1>3. ran' = ran \/ (m # NoMessage /\ ran' = ran \cup {m.n})
  BY <1>2 DEF Die, TakesEffect, ghostVars
<1>4. Passes /\ UpFlow /\ \A b \in Instances : doing'[b] \in {doing[b], NoMessage}
  <2>1. CASE at[a] = None
    <3>1. UNCHANGED <<at, chan>>
      BY <2>1 DEF Die
    <3>2. UpFlow
      BY <3>1, SaidNothing
    <3>3. Passes
      BY <1>1, <3>1, TurnsPass DEF Passes, callerVars
    <3>4. \A b \in Instances : doing'[b] \in {doing[b], NoMessage}
      BY <1>1 DEF IInv, AgentTypes
    <3> QED BY <3>2, <3>3, <3>4
  <2>2. CASE at[a] # None
    <3>1. Leaves(a) /\ chan'[at[a]].up = Append(chan[at[a]].up, Closing)
      BY <1>1, <2>2, HangingLeaves DEF Die, Holds, IInv
    <3>2. UpFlow
      BY <3>1, SaidNothing DEF Leaves, IInv, AgentTypes
    <3> QED BY <3>1, <3>2, LeavesPass
  <2> QED BY <2>1, <2>2
<1>5. /\ \A b \in Instances, id \in MsgIds : Noted(b, id) => Noted(b, id)'
      /\ Asked' = Asked
  BY <1>1, SameAsks DEF Noted, Entries, Dropped, journalVars, callerVars
<1>6. Flow
  <2>1. CASE ran' = ran
    BY <1>4, <1>5, <2>1 DEF Flow, Passes
  <2>2. CASE m # NoMessage /\ ran' = ran \cup {m.n}
    BY <1>1, <1>2, <1>4, <1>5, <2>2, ConcludedFlows
  <2> QED BY <1>3, <2>1, <2>2
<1>7. RecordTypes' /\ TrueRecords'
  <2>1. ran \subseteq ran' /\ ran' \subseteq Asked
    BY <1>2, <1>3, DoingFacts DEF OInv, RecordTypes
  <2>2. \A id : RanAs(id) => RanAs(id)'
    BY <1>6, FlowRan
  <2>3. \A b \in Instances : Entries(b)' = Entries(b)
    BY <1>1 DEF Entries, journalVars
  <2>4. TrueRecords'
    BY <1>1, <2>2, <2>3 DEF OInv, TrueRecords, journalVars
  <2>5. RecordTypes'
    BY <1>1, <1>5, <2>1 DEF OInv, RecordTypes, journalVars, callerVars
  <2> QED BY <2>4, <2>5
<1> QED BY <1>1, <1>4, <1>6, <1>7, MovedQuietly DEF Passes, dvcVars, callerVars

-----------------------------------------------------------------------------
(* The steps of the daemon and the channels.                               *)

LEMMA QuietTrue ==
  ASSUME IInv, OInv, Passes, UpFlow, Rests, Keeps, UNCHANGED <<pending, reply>>
  PROVE  OInv'
<1>1. /\ RecordTypes' /\ TrueRecords'
      /\ \A b \in Instances, id \in MsgIds : Noted(b, id) => Noted(b, id)'
  BY KeepsJournals DEF OInv
<1>2. Flow
  BY <1>1, RestingFlows
<1> QED BY <1>1, <1>2, MovedQuietly DEF Passes

LEMMA OpenTrue == ASSUME IInv, OInv, NEW a \in Instances, NEW h \in Channels, Open(a, h) PROVE OInv'
<1>1. /\ at[a] = None /\ at' = [at EXCEPT ![a] = h]
      /\ chan' = [chan EXCEPT ![h] = [agent |-> a, down |-> <<>>, up |-> <<Greeting>>]]
      /\ UNCHANGED <<pending, alive, doing, journalVars, callerVars, ghostVars>>
  BY DEF Open
<1>2. /\ chan'[h].down = <<>> /\ chan'[h].up = <<Greeting>>
      /\ \A g \in Channels \ {h} : chan'[g] = chan[g]
  BY <1>1 DEF IInv, AgentTypes
<1>3. UpFlow
  BY <1>2, SaidNothing
<1>4. \A b \in Instances, g \in Channels : at[b] = g => at'[b] = g
  BY <1>1 DEF IInv, AgentTypes, None, Channels
<1>5. /\ InTurn'
      /\ \A g \in Channels : \A m \in Down(g)' : m = ShutdownRequest \/ m \in Down(g)
  BY <1>1, <1>2, TurnsPass DEF callerVars
<1>6. Passes
  BY <1>1, <1>4, <1>5 DEF Passes, callerVars
<1>7. Rests /\ Keeps /\ UNCHANGED <<pending, reply>>
  BY <1>1 DEF Rests, Keeps, callerVars, ghostVars
<1> QED BY <1>3, <1>6, <1>7, QuietTrue

LEMMA HearsPass ==
  ASSUME IInv, OInv, NEW h \in Channels, Hears(h), UNCHANGED <<agentVars, asks, told, pc, my>>
  PROVE  Passes /\ UpFlow
<1>1. \A g \in Channels : \/ chan'[g].down = chan[g].down
                          \/ chan'[g].down = Append(chan[g].down, ShutdownRequest)
  BY DEF Hears
<1>2. UpFlow
  BY SaidNothing DEF Hears
<1>3. /\ InTurn'
      /\ \A g \in Channels : \A m \in Down(g)' : m = ShutdownRequest \/ m \in Down(g)
  BY <1>1, TurnsPass
<1> QED BY <1>2, <1>3 DEF Passes, agentVars

LEMMA GreetTrue == ASSUME IInv, OInv, NEW h \in Channels, Greet(h) PROVE OInv'
<1>1. Hears(h) /\ UNCHANGED <<pending, stopping, agentVars, callerVars, ran, runs>>
  BY HearsHeard, HearsDismissed DEF Greet, IInv
<1>2. Passes /\ UpFlow
  BY <1>1, HearsPass DEF callerVars
<1>3. Rests /\ Keeps /\ UNCHANGED <<pending, reply>>
  BY <1>1 DEF Rests, Keeps, agentVars, callerVars
<1> QED BY <1>2, <1>3, QuietTrue

(* Handing a message over adds it to the channel of an agent that is       *)
(* there, if there is one.                                                 *)
LEMMA HandedDown ==
  ASSUME IInv, NEW m \in Messages, HandsOver(m)
  PROVE  /\ \A h \in Channels : chan'[h].up = chan[h].up
         /\ \A h \in Channels : chan'[h].down = chan[h].down \/ chan'[h].down = Append(chan[h].down, m)
         /\ \A h \in Channels : chan'[h].down # chan[h].down =>
              h = primary /\ \E a \in alive : at[a] = h /\ chan[h].agent = a
<1>1. primary \in Channels
  BY DEF IInv, DaemonTypes, HandsOver, None, Channels
<1>2. CASE ~Deliverable(primary)
  BY <1>2 DEF HandsOver
<1>3. CASE Deliverable(primary)
  <2> DEFINE d == Append(chan[primary].down, m)
  <2>1. chan[primary] \in Wires /\ d \in Seq(Messages)
    BY <1>1 DEF IInv, AgentTypes, Wires
  <2>2. chan' = [chan EXCEPT ![primary] = [chan[primary] EXCEPT !.down = d]]
    BY <1>3 DEF HandsOver
  <2> HIDE DEF d
  <2>3. [chan[primary] EXCEPT !.down = d] = [agent |-> chan[primary].agent, down |-> d, up |-> chan[primary].up]
    BY <2>1, WithDown
  <2>4. chan'[primary].down = d /\ chan'[primary].up = chan[primary].up
        /\ \A h \in Channels \ {primary} : chan'[h] = chan[h]
    BY <1>1, <2>2, <2>3 DEF IInv, AgentTypes
  <2>5. \E a \in alive : at[a] = primary /\ chan[primary].agent = a
    BY <1>1, <1>3 DEF Deliverable, IInv, Wired, Opener, AgentTypes, None, Channels
  <2> QED BY <2>4, <2>5 DEF d
<1> QED BY <1>2, <1>3

LEMMA StopAgentTrue == ASSUME IInv, OInv, StopAgent PROVE OInv'
<1>1. HandsOver(ShutdownRequest) /\ UNCHANGED <<pending, callerVars>>
  BY DEF StopAgent, HandsOver, Ready
<1>2. /\ \A h \in Channels : chan'[h].up = chan[h].up
      /\ \A h \in Channels : \/ chan'[h].down = chan[h].down
                             \/ chan'[h].down = Append(chan[h].down, ShutdownRequest)
  BY <1>1, IdleMessages, HandedDown
<1>3. UpFlow
  BY <1>2, SaidNothing
<1>4. /\ InTurn'
      /\ \A g \in Channels : \A m \in Down(g)' : m = ShutdownRequest \/ m \in Down(g)
  BY <1>1, <1>2, TurnsPass DEF callerVars
<1>5. Passes /\ Rests /\ Keeps /\ UNCHANGED <<pending, reply>>
  BY <1>1, <1>4 DEF Passes, Rests, Keeps, HandsOver, agentVars, callerVars, ghostVars
<1> QED BY <1>3, <1>5, QuietTrue

(* Waiters that are answered get what the answer means for them.           *)
LEMMA AnsweringTrue ==
  ASSUME IInv, OInv, Passes, UpFlow, Rests, Keeps, Entered',
         \A c \in Callers : reply'[c] = reply[c] \/ \A r : r = reply'[c] => pc[c] # "idle" /\ Means(c, r)
  PROVE  OInv'
<1>1. /\ RecordTypes' /\ TrueRecords'
      /\ \A b \in Instances, id \in MsgIds : Noted(b, id) => Noted(b, id)'
  BY KeepsJournals DEF OInv
<1>2. Flow
  BY <1>1, RestingFlows
<1>3. ASSUME NEW c \in Callers, pc[c] # "idle"
      PROVE  Means(c, reply[c])'
  <2>1. \A r : r = reply'[c] => Means(c, r)
    BY <1>3 DEF OInv, CallersServed, Served
  <2>2. \A r : r = reply'[c] => Means(c, r)'
    BY <1>2, <1>3, <2>1, FlowMeans
  <2> QED BY <2>2 DEF Means
<1> QED BY <1>1, <1>2, <1>3, Moved DEF Passes

LEMMA RespondTrue == ASSUME IInv, OInv, NEW h \in Channels, Respond(h) PROVE OInv'
<1>1. PICK msg \in Answers : msg = Head(chan[h].up)
  BY HeardIsTail DEF Respond, Greeting, Closing, IInv
<1>2. /\ Hears(h)
      /\ UNCHANGED <<agentVars, ghostVars, primary, extras, handshake, stopping, asks, told, pc, my>>
  BY HearsHeard DEF Respond, IInv
<1>3. Passes /\ UpFlow /\ Rests /\ Keeps
  BY <1>2, HearsPass DEF Rests, Keeps, agentVars, ghostVars
<1>4. CASE UNCHANGED <<pending, reply>>
  BY <1>3, <1>4, QuietTrue
<1>5. CASE /\ msg.id \in DOMAIN pending
           /\ reply' = [reply EXCEPT ![pending[msg.id]] = msg.reply]
           /\ pending' = [i \in DOMAIN pending \ {msg.id} |-> pending[i]]
  <2>1. PICK c \in Callers : c = pending[msg.id]
    BY <1>5 DEF OInv, Entered
  <2>2. pc[c] \in {"waiting", "expired"} /\ MyId(c) = msg.id /\ my[c].n \in Asked
        /\ my[c].attempt \in 0 .. Attempts /\ msg.id = Id(my[c].n, my[c].attempt)
    BY <1>5, <2>1 DEF OInv, Entered, MyId, IInv, CallerTypes, Asked
  <2>3. TrueAnswer(msg)
    <3>1. 1 \in DOMAIN chan[h].up /\ msg = chan[h].up[1]
      BY <1>1, HeardIsTail DEF Respond, IInv, Ups
    <3> QED BY <3>1 DEF OInv, TrueAnswers, Up
  <2>4. Means(c, msg.reply)
    <3>1. Subject(msg.id) = Id(my[c].n, 0) /\ msg.id # ShutdownId
      BY <2>2, IdsOf DEF IInv
    <3>2. msg.id.attempt > 0 => msg.id.n = my[c].n
      BY <2>2, IdsOf DEF IInv
    <3> QED BY <2>2, <2>3, <3>1, <3>2 DEF TrueAnswer, Means
  <2>5. /\ reply' = [reply EXCEPT ![c] = msg.reply]
        /\ reply'[c] = msg.reply /\ \A d \in Callers \ {c} : reply'[d] = reply[d]
    BY <1>5, <2>1 DEF IInv, CallerTypes
  <2>6. \A id \in DOMAIN pending' : id \in DOMAIN pending /\ pending'[id] = pending[id] /\ pending[id] # c
    BY <1>5, <2>2 DEF OInv, Entered
  <2>7. Entered'
    <3>1. \A d \in Callers : MyId(d)' = MyId(d)
      BY <1>2, SameId
    <3> QED BY <1>2, <2>2, <2>5, <2>6, <3>1 DEF OInv, Entered
  <2> QED BY <1>3, <2>2, <2>4, <2>5, <2>7, AnsweringTrue
<1> QED BY <1>1, <1>4, <1>5 DEF Respond

(* Everybody who waits is told that the channel is gone.                   *)
LEMMA FailingTrue ==
  ASSUME IInv, OInv, Passes, UpFlow, Rests, Keeps, FailPending
  PROVE  OInv'
<1>1. /\ reply' = [c \in Callers |-> IF \E id \in DOMAIN pending : pending[id] = c THEN Closed ELSE reply[c]]
      /\ pending' = <<>>
  BY DEF FailPending
<1>2. \A c \in Callers : \/ reply'[c] = reply[c]
                         \/ reply'[c] = Closed /\ pc[c] \in {"waiting", "expired"}
  BY <1>1 DEF OInv, Entered
<1>3. Entered'
  BY <1>1, <1>2 DEF OInv, Entered, Passes
<1>4. \A c, r : r = Closed => Means(c, r)
  BY DEF Means, Closed, Reply
<1> QED BY <1>2, <1>3, <1>4, AnsweringTrue

LEMMA CloseTrue == ASSUME IInv, OInv, NEW h \in Channels, Close(h) PROVE OInv'
<1>1. Hears(h) /\ UNCHANGED <<agentVars, ghostVars, stopping, asks, told, pc, my>>
  BY HearsHeard DEF Close, IInv
<1>2. Passes /\ UpFlow /\ Rests /\ Keeps
  BY <1>1, HearsPass DEF Rests, Keeps, agentVars, ghostVars
<1>3. FailPending \/ UNCHANGED <<pending, reply>>
  BY DEF Close
<1> QED BY <1>2, <1>3, QuietTrue, FailingTrue

LEMMA ReleasePrimaryTrue == ASSUME IInv, OInv, ReleasePrimary PROVE OInv'
<1>1. UNCHANGED <<chan, agentVars, asks, told, pc, my, ran, runs>>
  BY DEF ReleasePrimary
<1>2. UpFlow
  BY <1>1, SaidNothing
<1>3. /\ InTurn'
      /\ \A g \in Channels : \A m \in Down(g)' : m = ShutdownRequest \/ m \in Down(g)
  BY <1>1, TurnsPass
<1>4. Passes /\ Rests /\ Keeps
  BY <1>1, <1>3 DEF Passes, Rests, Keeps, agentVars
<1>5. FailPending \/ UNCHANGED <<pending, reply>>
  BY DEF ReleasePrimary
<1> QED BY <1>2, <1>4, <1>5, QuietTrue, FailingTrue

-----------------------------------------------------------------------------
(* The callers' steps.                                                     *)

LEMMA FarStill ==
  ASSUME UNCHANGED <<FarVars, asks>>
  PROVE  /\ Asked' = Asked
         /\ \A h \in Channels : Down(h)' = Down(h) /\ Up(h)' = Up(h)
         /\ \A n : (Never(n)' <=> Never(n)) /\ (NotInquired(n)' <=> NotInquired(n))
         /\ \A n, a : Followed(n, a) => Followed(n, a)'
         /\ \A id : (RanAs(id)' <=> RanAs(id)) /\ Subject(id)' = Subject(id)
         /\ \A n, t : Id(n, t)' = Id(n, t)
         /\ \A m : Made(m)' <=> Made(m)
<1> USE DEF FarVars, agentVars, journalVars, ghostVars
<1>1. \A n, t : Id(n, t)' = Id(n, t)
  BY SameAsks
<1>2. \A h \in Channels : Down(h)' = Down(h) /\ Up(h)' = Up(h)
  BY DEF Down, Up
<1>3. \A n : (Never(n)' <=> Never(n)) /\ (NotInquired(n)' <=> NotInquired(n))
  BY <1>2 DEF Never, NotInquired
<1>4. \A a, id : Noted(a, id) => Noted(a, id)'
  BY DEF Noted, Entries, Dropped
<1>5. \A n, a : Followed(n, a) => Followed(n, a)'
  BY <1>1, <1>2, <1>4 DEF Followed, Noted
<1>6. \A id : RanAs(id)' <=> RanAs(id)
  BY <1>1 DEF RanAs
<1> QED BY <1>1, <1>2, <1>3, <1>5, <1>6, SameAsks

(* The caller serves on what it serves, or is done with it.                *)
ServesOn(c) ==
  /\ told' = told /\ pc'[c] # "idle"
  /\ my'[c].n = my[c].n /\ my'[c].sentTo = my[c].sentTo
  /\ my'[c].attempt = 0 => my[c].attempt = 0 /\ pc'[c] # "ready"
  /\ reply'[c] = NoReply

Concludes(c, answer) ==
  /\ pc'[c] = "idle" /\ told' = [told EXCEPT ![my[c].n] = answer]
  /\ answer \in Outcome!Claims \cup Outcome!NoClaim
  /\ answer \in Outcome!Safe => Never(my[c].n)
  /\ answer = "done" => RanAs(Id(my[c].n, 0))

CallerMoves(c) ==
  /\ pc[c] # "idle" /\ UNCHANGED <<FarVars, asks>> /\ Entered'
  /\ \A d \in Callers \ {c} : /\ pc'[d] = pc[d] /\ my'[d] = my[d]
                              /\ reply'[d] = reply[d] \/ reply'[d] = Gone
  /\ ServesOn(c) \/ \E answer : Concludes(c, answer)

LEMMA AskedNumbers == ASSUME CallerTypes PROVE Asked \subseteq Numbers
BY LimitsAssumption DEF CallerTypes, Asked, Numbers

LEMMA CallerTrue ==
  ASSUME IInv, OInv, NEW c \in Callers, CallerMoves(c)
  PROVE  OInv'
<1> USE DEF CallerMoves
<1> DEFINE n == my[c].n
<1>1. n \in Asked /\ n \in Numbers /\ Served(c)
  BY AskedNumbers DEF IInv, CallerTypes, Asked, OInv, CallersServed
<1>2. RecordTypes'
  <2>1. told' \in [Numbers -> Tells]
    BY <1>1 DEF ServesOn, Concludes, OInv, RecordTypes, Tells
  <2> QED BY <2>1, FarStill DEF OInv, RecordTypes, FarVars, agentVars, journalVars, ghostVars
<1>3. MessagesMade'
  BY FarStill DEF OInv, MessagesMade, FarVars, agentVars
<1>4. InTurn'
  BY FarStill DEF OInv, InTurn, FarVars
<1>5. CallersApart'
  BY DEF OInv, CallersApart, ServesOn, Concludes
<1>6. ASSUME NEW d \in Callers, pc'[d] # "idle"
      PROVE  Served(d)'
  <2>1. CASE d # c
    <3>1. pc[d] # "idle" /\ my'[d] = my[d] /\ pc'[d] = pc[d] /\ my[d].n # n /\ my[d].n \in Asked
      BY <1>6, <2>1 DEF OInv, CallersApart, IInv, CallerTypes, Asked
    <3>2. Served(d)
      BY <3>1 DEF OInv, CallersServed
    <3>3. told'[my[d].n] = "asked"
      <4>1. my[d].n \in Numbers /\ told[my[d].n] = "asked"
        BY <3>1, <3>2, AskedNumbers DEF Served, IInv
      <4>2. told' = told \/ \E answer : told' = [told EXCEPT ![n] = answer]
        BY DEF ServesOn, Concludes
      <4> QED BY <3>1, <4>1, <4>2 DEF OInv, RecordTypes
    <3>4. \A r : r = reply'[d] => Means(d, r)'
      <4>1. \A r : r = reply'[d] => Means(d, r)
        BY <2>1, <3>2 DEF Served, Means, Gone, Reply
      <4> QED BY <3>1, <4>1, FarStill DEF Means
    <3> QED BY <3>1, <3>2, <3>3, <3>4, FarStill DEF Served, Means
  <2>2. CASE d = c /\ ServesOn(c)
    <3>1. \A r : r = reply'[c] => Means(c, r)'
      BY <2>2 DEF ServesOn, Means, NoReply, Reply
    <3> QED BY <1>1, <2>2, <3>1, FarStill DEF Served, ServesOn, Means
  <2> QED BY <1>6, <2>1, <2>2 DEF Concludes
<1>7. TrueAnswers'
  <2> SUFFICES ASSUME NEW h \in Channels, NEW x \in Up(h), x \in Answers
               PROVE  TrueAnswer(x)'
    BY FarStill DEF TrueAnswers
  <2>1. TrueAnswer(x)
    BY DEF OInv, TrueAnswers
  <2>2. \A d \in Callers : pc'[d] # "idle" => /\ pc[d] # "idle" /\ my'[d].n = my[d].n
                                               /\ my'[d].sentTo = my[d].sentTo
    BY DEF ServesOn, Concludes
  <2> QED BY <2>1, <2>2, FarStill DEF TrueAnswer
<1>8. TrueRecords'
  BY FarStill DEF OInv, TrueRecords, Entries, FarVars, agentVars, journalVars
<1>9. SafeForEver'
  <2> SUFFICES ASSUME NEW i \in Asked, told'[i] \in {"neverRan", "notSent"}
               PROVE  Never(i)
    BY FarStill DEF SafeForEver
  <2>1. CASE told'[i] = told[i]
    BY <2>1 DEF OInv, SafeForEver
  <2>2. CASE told'[i] # told[i]
    <3>1. i \in Numbers
      BY AskedNumbers DEF IInv
    <3>2. PICK answer : Concludes(c, answer)
      BY <2>2 DEF ServesOn
    <3>3. i = n /\ told'[i] = answer
      BY <1>1, <2>2, <3>1, <3>2 DEF Concludes, OInv, RecordTypes
    <3> QED BY <3>2, <3>3 DEF Concludes, Outcome!Safe
  <2> QED BY <2>1, <2>2
<1> QED BY <1>2, <1>3, <1>4, <1>5, <1>6, <1>7, <1>8, <1>9 DEF OInv, CallersServed

LEMMA MovesServe ==
  ASSUME IInv, OInv, NEW c \in Callers, pc[c] # "idle", reply'[c] = NoReply
  PROVE  /\ NextLookup(c) => ServesOn(c) \/ \E answer : Concludes(c, answer)
         /\ Resolve(c) => ServesOn(c) \/ \E answer : Concludes(c, answer)
         /\ \A answer \in Outcome!Claims \cup Outcome!NoClaim :
              Tell(c, answer) /\ (answer \in Outcome!Safe => Never(my[c].n))
                /\ (answer = "done" => RanAs(Id(my[c].n, 0))) => Concludes(c, answer)
         /\ (NextLookup(c) \/ \E answer : Tell(c, answer)) =>
              /\ pc'[c] \in {"idle", "ready"}
              /\ \A d \in Callers \ {c} : pc'[d] = pc[d] /\ my'[d] = my[d]
<1>1. CallerTypes
  BY DEF IInv
<1>2. ASSUME NEW answer, Tell(c, answer)
      PROVE  /\ pc'[c] = "idle" /\ told' = [told EXCEPT ![my[c].n] = answer]
             /\ \A d \in Callers \ {c} : pc'[d] = pc[d] /\ my'[d] = my[d]
  BY <1>1, <1>2 DEF Tell, CallerTypes
<1>3. "unknown" \in (Outcome!Claims \cup Outcome!NoClaim) /\ "unknown" \notin Outcome!Safe /\ "unknown" # "done"
  BY DEF Outcome!Claims, Outcome!NoClaim, Outcome!Safe
<1>4. \A answer \in Outcome!Claims \cup Outcome!NoClaim :
        Tell(c, answer) /\ (answer \in Outcome!Safe => Never(my[c].n))
          /\ (answer = "done" => RanAs(Id(my[c].n, 0))) => Concludes(c, answer)
  BY <1>2 DEF Concludes
<1>5. Tell(c, "unknown") => Concludes(c, "unknown")
  BY <1>3, <1>4
<1>6. ASSUME NextLookup(c), my[c].attempt < Attempts
      PROVE  /\ ServesOn(c) /\ pc'[c] = "ready"
             /\ \A d \in Callers \ {c} : pc'[d] = pc[d] /\ my'[d] = my[d]
  <2> DEFINE next == [my[c] EXCEPT !.attempt = @ + 1]
  <2>1. next.n = my[c].n /\ next.sentTo = my[c].sentTo /\ next.attempt = my[c].attempt + 1
        /\ my[c].attempt \in Nat
    BY <1>1, LimitsAssumption DEF CallerTypes
  <2>2. my' = [my EXCEPT ![c] = next] /\ pc' = [pc EXCEPT ![c] = "ready"] /\ told' = told
    BY <1>6 DEF NextLookup
  <2> HIDE DEF next
  <2>3. my'[c] = next /\ pc'[c] = "ready" /\ \A d \in Callers \ {c} : pc'[d] = pc[d] /\ my'[d] = my[d]
    BY <1>1, <2>2 DEF CallerTypes
  <2>4. my[c].attempt + 1 # 0
    BY <2>1
  <2> QED BY <2>1, <2>2, <2>3, <2>4 DEF ServesOn
<1>7. NextLookup(c) /\ ~(my[c].attempt < Attempts) => Tell(c, "unknown")
  BY DEF NextLookup
<1>8. Resolve(c) => NextLookup(c) \/ Tell(c, "unknown")
  BY DEF Resolve
<1> QED BY <1>2, <1>4, <1>5, <1>6, <1>7, <1>8

(* Steps that leave the waiters as they are.                               *)
LEMMA MovesAlone ==
  ASSUME IInv, OInv, NEW c \in Callers, pc[c] # "idle", UNCHANGED <<FarVars, asks, pending>>,
         NextLookup(c) \/ \E answer : Tell(c, answer),
         ServesOn(c) \/ \E answer : Concludes(c, answer),
         reply'[c] = NoReply, \A d \in Callers \ {c} : reply'[d] = reply[d],
         pc[c] = "ready" \/ reply[c] # NoReply
  PROVE  CallerMoves(c)
<1>1. /\ pc'[c] \in {"idle", "ready"}
      /\ \A d \in Callers \ {c} : pc'[d] = pc[d] /\ my'[d] = my[d]
  BY MovesServe
<1>2. \A id \in DOMAIN pending : pending[id] # c
  BY DEF OInv, Entered
<1>3. \A d \in Callers \ {c} : MyId(d)' = MyId(d)
  BY <1>1, SameId
<1>4. Entered'
  BY <1>1, <1>2, <1>3 DEF OInv, Entered
<1> QED BY <1>1, <1>4 DEF CallerMoves

LEMMA SendRefusedMoves == ASSUME IInv, OInv, NEW c \in Callers, SendRefused(c) PROVE CallerMoves(c)
<1>1. pc[c] = "ready" /\ UNCHANGED <<FarVars, asks, pending, reply>>
  BY DEF SendRefused, FarVars, dvcVars
<1>2. reply[c] = NoReply /\ Served(c)
  BY <1>1 DEF OInv, Entered, CallersServed
<1>3. CASE my[c].attempt = 0 /\ Tell(c, "notSent")
  <2>1. Never(my[c].n)
    BY <1>1, <1>2, <1>3 DEF Served
  <2>2. "notSent" \in Outcome!Claims \cup Outcome!NoClaim
    BY DEF Outcome!Claims, Outcome!Safe
  <2>3. Concludes(c, "notSent")
    BY <1>1, <1>2, <1>3, <2>1, <2>2, MovesServe
  <2> QED BY <1>1, <1>2, <1>3, <2>3, MovesAlone
<1>4. CASE NextLookup(c)
  <2>1. ServesOn(c) \/ \E answer : Concludes(c, answer)
    BY <1>1, <1>2, <1>4, MovesServe
  <2> QED BY <1>1, <1>2, <1>4, <2>1, MovesAlone
<1> QED BY <1>3, <1>4 DEF SendRefused

LEMMA AnsweredMoves == ASSUME IInv, OInv, NEW c \in Callers, Answered(c) PROVE CallerMoves(c)
<1>1. /\ pc[c] = "waiting" /\ UNCHANGED <<FarVars, asks, pending>> /\ reply[c].verdict \notin {"none", "gone"}
      /\ reply' = [reply EXCEPT ![c] = NoReply]
  BY DEF Answered, FarVars, dvcVars
<1>2. /\ reply[c] # NoReply /\ reply'[c] = NoReply /\ reply[c] \in Replies
      /\ \A d \in Callers \ {c} : reply'[d] = reply[d]
  BY <1>1 DEF NoReply, Reply, IInv, CallerTypes
<1>3. Means(c, reply[c])
  BY <1>1 DEF OInv, CallersServed, Served
<1>4. CASE NextLookup(c)
  <2>1. ServesOn(c) \/ \E answer : Concludes(c, answer)
    BY <1>1, <1>2, <1>4, MovesServe
  <2> QED BY <1>1, <1>2, <1>4, <2>1, MovesAlone
<1>5. CASE Tell(c, Verdict(c, reply[c]))
  <2> DEFINE answer == Verdict(c, reply[c])
  <2>1. /\ answer \in Outcome!Claims \cup Outcome!NoClaim
        /\ answer \in Outcome!Safe => Never(my[c].n)
        /\ answer = "done" => RanAs(Id(my[c].n, 0))
    <3>1. reply[c].verdict \in Verdicts \ {"none", "gone"}
      BY <1>1, <1>2 DEF Replies
    <3> USE DEF Outcome!Claims, Outcome!NoClaim, Outcome!Safe, Verdict, UnknownIdVerdict
    <3>2. CASE reply[c].verdict = "ok"
      BY <1>3, <3>2 DEF Means
    <3>3. CASE reply[c].verdict \in {"unknown", "evicted"}
      BY <1>3, <3>3 DEF Means
    <3>4. CASE reply[c].verdict \in {"closed", "failed", "reused"}
      BY <3>4
    <3> QED BY <3>1, <3>2, <3>3, <3>4 DEF Verdicts
  <2> HIDE DEF answer
  <2>2. Tell(c, answer)
    BY <1>5 DEF answer
  <2>3. Concludes(c, answer)
    BY <1>1, <1>2, <2>1, <2>2, MovesServe
  <2> QED BY <1>1, <1>2, <2>2, <2>3, MovesAlone
<1> QED BY <1>4, <1>5 DEF Answered

LEMMA SenderGoneMoves == ASSUME IInv, OInv, NEW c \in Callers, SenderGone(c) PROVE CallerMoves(c)
<1>1. /\ pc[c] = "waiting" /\ UNCHANGED <<FarVars, asks, pending>> /\ reply[c] = Gone /\ Resolve(c)
      /\ reply' = [reply EXCEPT ![c] = NoReply]
  BY DEF SenderGone, FarVars, dvcVars
<1>2. reply[c] # NoReply /\ reply'[c] = NoReply /\ \A d \in Callers \ {c} : reply'[d] = reply[d]
  BY <1>1, NamesTyped DEF IInv, CallerTypes
<1>3. ServesOn(c) \/ \E answer : Concludes(c, answer)
  BY <1>1, <1>2, MovesServe
<1> QED BY <1>1, <1>2, <1>3, MovesAlone DEF Resolve

LEMMA TimesOutMoves == ASSUME IInv, OInv, NEW c \in Callers, TimesOut(c) PROVE CallerMoves(c)
<1>1. /\ pc[c] = "waiting" /\ reply[c] = NoReply /\ pc' = [pc EXCEPT ![c] = "expired"]
      /\ UNCHANGED <<FarVars, asks, pending, told, my, reply>>
  BY DEF TimesOut, FarVars, dvcVars
<1>2. pc'[c] = "expired" /\ \A d \in Callers \ {c} : pc'[d] = pc[d]
  BY <1>1 DEF IInv, CallerTypes
<1>3. \A d \in Callers : MyId(d)' = MyId(d)
  BY <1>1, SameId
<1>4. Entered'
  BY <1>1, <1>2, <1>3 DEF OInv, Entered
<1>5. ServesOn(c)
  BY <1>1, <1>2 DEF ServesOn
<1> QED BY <1>1, <1>2, <1>4, <1>5 DEF CallerMoves

LEMMA RemoveMoves == ASSUME IInv, OInv, NEW c \in Callers, Remove(c) PROVE CallerMoves(c)
<1>1. PICK id : id = MyId(c)
  OBVIOUS
<1>2. /\ pc[c] = "expired" /\ Resolve(c) /\ UNCHANGED <<FarVars, asks>>
      /\ pending' = [i \in DOMAIN pending \ {id} |-> pending[i]]
      /\ reply' = [d \in Callers |-> IF d = c THEN NoReply
                                    ELSE IF id \in DOMAIN pending /\ pending[id] = d THEN Gone ELSE reply[d]]
  BY <1>1 DEF Remove, FarVars
<1>3. reply'[c] = NoReply /\ (NextLookup(c) \/ Tell(c, "unknown"))
  BY <1>2 DEF Resolve
<1>4. ServesOn(c) \/ \E answer : Concludes(c, answer)
  BY <1>2, <1>3, MovesServe
<1>5. /\ pc'[c] \in {"idle", "ready"}
      /\ \A d \in Callers \ {c} : pc'[d] = pc[d] /\ my'[d] = my[d]
  BY <1>2, <1>3, MovesServe
<1>6. \A d \in Callers \ {c} : MyId(d)' = MyId(d)
  BY <1>2, <1>5, SameId
<1>7. ASSUME NEW i \in DOMAIN pending'
      PROVE  /\ i \in DOMAIN pending /\ pending'[i] = pending[i] /\ pending[i] # c
             /\ reply'[pending[i]] = NoReply
  <2>1. i \in DOMAIN pending /\ pending'[i] = pending[i] /\ i # id
    BY <1>2, <1>7
  <2>2. pending[i] \in Callers /\ MyId(pending[i]) = i /\ reply[pending[i]] = NoReply
    BY <2>1 DEF OInv, Entered
  <2>3. pending[i] # c
    BY <1>1, <2>1, <2>2
  <2>4. ~(id \in DOMAIN pending /\ pending[id] = pending[i])
    BY <2>1, <2>2 DEF OInv, Entered
  <2> QED BY <1>2, <2>1, <2>2, <2>3, <2>4
<1>8. ASSUME NEW d \in Callers, pc'[d] \in {"idle", "ready"}
      PROVE  reply'[d] = NoReply
  <2>1. CASE d # c
    <3>1. pc[d] \in {"idle", "ready"} /\ reply[d] = NoReply
      BY <1>5, <1>8, <2>1 DEF OInv, Entered
    <3>2. ~(id \in DOMAIN pending /\ pending[id] = d)
      BY <3>1 DEF OInv, Entered
    <3> QED BY <1>2, <2>1, <3>1, <3>2
  <2> QED BY <1>3, <2>1
<1>9. Entered'
  <2>1. \A i \in DOMAIN pending' : pending'[i] \in Callers /\ pc'[pending'[i]] \in {"waiting", "expired"}
                                  /\ reply'[pending'[i]] = NoReply
    BY <1>5, <1>7 DEF OInv, Entered
  <2>2. \A i \in DOMAIN pending' : \A d : d = pending'[i] => MyId(d)' = i
    BY <1>6, <1>7 DEF OInv, Entered
  <2> QED BY <1>8, <2>1, <2>2 DEF Entered, MyId, Id
<1>10. \A d \in Callers \ {c} : reply'[d] = reply[d] \/ reply'[d] = Gone
  BY <1>2
<1> QED BY <1>2, <1>4, <1>5, <1>9, <1>10 DEF CallerMoves

-----------------------------------------------------------------------------
(* A request is sent, or asked for.                                        *)

LEMMA SendingPasses ==
  ASSUME IInv, OInv, NEW n \in Asked, NEW t \in 0 .. Attempts, NEW m, m = Message(n, t),
         HandsOver(m), UNCHANGED asks, t = 0 => NotInquired(n)
  PROVE  /\ MessagesMade' /\ InTurn'
         /\ \A h \in Channels : Up(h)' = Up(h)
         /\ \A h \in Channels : \A x \in Down(h)' :
              x \in Down(h) \/ (x = m /\ h = primary /\ \E a \in alive : at[a] = h /\ chan[h].agent = a)
         /\ \A i \in Asked : Never(i) /\ (i # n \/ t # 0) => Never(i)'
         /\ \A i \in Asked : NotInquired(i) /\ (i # n \/ t = 0) => NotInquired(i)'
         /\ \A i \in Asked, a \in Instances : Followed(i, a) /\ (i # n \/ t # 0) => Followed(i, a)'
<1>1. /\ m \in Messages /\ m.n = n /\ m.id = Id(n, t) /\ m.id.attempt = t /\ Made(m)
      /\ CallerTypes /\ AgentTypes
  BY MessagesOf, IdsOf DEF IInv, Made
<1>2. /\ \A h \in Channels : chan'[h].up = chan[h].up
      /\ \A h \in Channels : chan'[h].down = chan[h].down \/ chan'[h].down = Append(chan[h].down, m)
      /\ \A h \in Channels : chan'[h].down # chan[h].down =>
           h = primary /\ \E a \in alive : at[a] = h /\ chan[h].agent = a
  BY <1>1, HandedDown
<1>3. UNCHANGED <<alive, at, doing, journal, evicted, ran>>
  BY DEF HandsOver, agentVars, journalVars, ghostVars
<1>4. \A h \in Channels : Up(h)' = Up(h)
  BY <1>2 DEF Up
<1>5. ASSUME NEW h \in Channels, NEW x \in Down(h)'
      PROVE  x \in Down(h) \/ (x = m /\ h = primary /\ \E a \in alive : at[a] = h /\ chan[h].agent = a)
  <2>1. CASE chan'[h].down = chan[h].down
    BY <1>5, <2>1 DEF Down
  <2>2. CASE chan'[h].down # chan[h].down
    <3>1. Down(h)' = Down(h) \cup {m}
      BY <1>1, <1>2, <2>2, DownAppend
    <3> QED BY <1>2, <1>5, <2>2, <3>1
  <2> QED BY <2>1, <2>2
<1>6. \A i \in Asked : /\ Carries(m, i) => i = n /\ t = 0
                       /\ Inquires(m, i) => i = n /\ t # 0
  BY <1>1 DEF Carries, Inquires
<1>7. \A i \in Asked : Never(i) /\ (i # n \/ t # 0) => Never(i)'
  BY <1>3, <1>5, <1>6 DEF Never
<1>8. \A i \in Asked : NotInquired(i) /\ (i # n \/ t = 0) => NotInquired(i)'
  BY <1>4, <1>5, <1>6 DEF NotInquired
<1>9. ASSUME NEW i \in Asked, NEW a \in Instances, Followed(i, a), i # n \/ t # 0
      PROVE  Followed(i, a)'
  <2>1. \A id : id = Id(i, 0) => id = Id(i, 0)' /\ (Noted(a, id) => Noted(a, id)')
    BY <1>3, SameAsks DEF Noted, Entries, Dropped
  <2> QED BY <1>3, <1>5, <1>6, <1>9, <2>1 DEF Followed, Noted
<1>10. MessagesMade'
  <2>1. \A x : Made(x)' <=> Made(x)
    BY SameAsks
  <2> QED BY <1>1, <1>3, <1>5, <2>1 DEF OInv, MessagesMade
<1>11. InTurn'
  <2>1. ASSUME NEW h \in Channels, NEW i \in Asked
        PROVE  TurnKept(chan'[h].down, i)
    <3>1. TurnKept(chan[h].down, i) /\ chan[h].down \in Seq(Messages)
      BY <1>1, DownOf DEF OInv, InTurn
    <3>2. Carries(m, i) => \A j \in DOMAIN chan[h].down : ~Inquires(chan[h].down[j], i)
      BY <1>6 DEF NotInquired, Down
    <3>3. CASE chan'[h].down = chan[h].down
      BY <3>1, <3>3
    <3>4. CASE chan'[h].down = Append(chan[h].down, m)
      BY <1>1, <3>1, <3>2, <3>4, TurnAppend
    <3> QED BY <1>2, <3>3, <3>4
  <2>2. Asked' = Asked
    BY DEF Asked
  <2> QED BY <2>1, <2>2 DEF InTurn
<1> QED BY <1>4, <1>5, <1>7, <1>8, <1>9, <1>10, <1>11

LEMMA SendTrue == ASSUME IInv, OInv, NEW c \in Callers, Send(c) PROVE OInv'
<1> USE DEF OInv
<1>0. PICK n \in Asked, t \in 0 .. Attempts : n = my[c].n /\ t = my[c].attempt
  BY DEF Send, IInv, CallerTypes, Asked
<1>1. PICK m : n = my[c].n /\ t = my[c].attempt /\ m = Message(n, t)
  BY <1>0
<1>2. /\ pc[c] = "ready" /\ HandsOver(m) /\ MyId(c) \notin DOMAIN pending
      /\ pending' = [id \in DOMAIN pending \cup {MyId(c)} |-> IF id = MyId(c) THEN c ELSE pending[id]]
      /\ my' = IF my[c].attempt = 0 THEN [my EXCEPT ![c].sentTo = handshake] ELSE my
      /\ pc' = [pc EXCEPT ![c] = "waiting"]
      /\ UNCHANGED <<asks, told, reply, handshake, ghostVars, agentVars>>
  BY <1>1 DEF Send, HandsOver
<1>3. Served(c) /\ reply[c] = NoReply /\ CallerTypes
  BY <1>2 DEF CallersServed, Entered, IInv
<1>4. t = 0 => NotInquired(n) /\ Never(n)
  BY <1>1, <1>2, <1>3 DEF Served
<1>5. /\ MessagesMade' /\ InTurn'
      /\ \A h \in Channels : Up(h)' = Up(h)
      /\ \A h \in Channels : \A x \in Down(h)' :
           x \in Down(h) \/ (x = m /\ h = primary /\ \E a \in alive : at[a] = h /\ chan[h].agent = a)
      /\ \A i \in Asked : Never(i) /\ (i # n \/ t # 0) => Never(i)'
      /\ \A i \in Asked : NotInquired(i) /\ (i # n \/ t = 0) => NotInquired(i)'
      /\ \A i \in Asked, a \in Instances : Followed(i, a) /\ (i # n \/ t # 0) => Followed(i, a)'
  BY <1>1, <1>2, <1>4, SendingPasses
<1>6. /\ \A d \in Callers \ {c} : my'[d] = my[d] /\ pc'[d] = pc[d]
      /\ my'[c].n = n /\ my'[c].attempt = t /\ pc'[c] = "waiting"
      /\ my'[c].sentTo = IF t = 0 THEN handshake ELSE my[c].sentTo
  <2>1. CASE t # 0
    BY <1>1, <1>2, <1>3, <2>1 DEF CallerTypes
  <2>2. CASE t = 0
    <3> DEFINE r == [my[c] EXCEPT !.sentTo = handshake]
    <3>1. r.n = n /\ r.attempt = t /\ r.sentTo = handshake
      BY <1>1, <1>3 DEF CallerTypes
    <3>2. my' = [my EXCEPT ![c] = r]
      BY <1>1, <1>2, <2>2
    <3> HIDE DEF r
    <3> QED BY <1>2, <1>3, <2>2, <3>1, <3>2 DEF CallerTypes
  <2> QED BY <2>1, <2>2
<1>7. Asked' = Asked /\ \A i, k : Id(i, k)' = Id(i, k)
  BY <1>2, SameAsks
<1>8. RecordTypes' /\ TrueRecords'
  BY <1>2, KeepsJournals DEF Keeps, agentVars, ghostVars
<1>9. CallersApart'
  BY <1>1, <1>2, <1>6 DEF CallersApart
<1>10. Entered'
  <2>1. \A d \in Callers : MyId(d)' = MyId(d)
    BY <1>1, <1>6, <1>7 DEF MyId
  <2>2. ASSUME NEW id \in DOMAIN pending', id # MyId(c)
        PROVE  id \in DOMAIN pending /\ pending'[id] = pending[id] /\ pending[id] # c
    BY <1>2, <2>2 DEF Entered
  <2>3. MyId(c) \in DOMAIN pending' /\ pending'[MyId(c)] = c
    BY <1>2
  <2>4. \A id \in DOMAIN pending' : \A d : d = pending'[id] =>
          d \in Callers /\ pc'[d] \in {"waiting", "expired"} /\ MyId(d) = id /\ reply[d] = NoReply
    BY <1>3, <1>6, <2>2, <2>3 DEF Entered
  <2>5. \A id \in DOMAIN pending' : \A d : d = pending'[id] =>
          d \in Callers /\ pc'[d] \in {"waiting", "expired"} /\ MyId(d)' = id /\ reply'[d] = NoReply
    BY <1>2, <2>1, <2>4
  <2>6. \A d \in Callers : pc'[d] \in {"idle", "ready"} => reply'[d] = NoReply
    BY <1>2, <1>6 DEF Entered
  <2> QED BY <2>5, <2>6 DEF Entered, MyId, Id
<1>11. ASSUME NEW d \in Callers, pc'[d] # "idle"
       PROVE  Served(d)'
  <2>1. CASE d # c
    <3>1. PICK i \in Asked : i = my[d].n
      BY <1>3, <1>6, <1>11, <2>1 DEF CallerTypes, Asked
    <3>2. i # n /\ Served(d) /\ my'[d].n = i
      BY <1>1, <1>2, <1>6, <1>11, <2>1, <3>1 DEF CallersApart, CallersServed
    <3>3. my[d].sentTo \in Instances \cup {NoCaller}
      BY <1>3 DEF CallerTypes
    <3>4. /\ Never(i) => Never(i)'
          /\ NotInquired(i) => NotInquired(i)'
          /\ \A a \in Instances : Followed(i, a) => Followed(i, a)'
      BY <1>5, <3>1, <3>2
    <3>5. \A a : a # NoCaller /\ a = my[d].sentTo => Followed(i, a)'
      BY <3>1, <3>2, <3>3, <3>4 DEF Served
    <3>6. \A r : r = reply[d] => Means(d, r)'
      <4>1. \A r : r = reply[d] => Means(d, r)
        BY <3>2 DEF Served
      <4>2. \A id : RanAs(id) => RanAs(id)'
        BY <1>2, <1>7 DEF RanAs, ghostVars
      <4> QED BY <1>6, <1>7, <2>1, <3>1, <3>2, <3>4, <4>1, <4>2 DEF Means, RanAs, Never
    <3> QED BY <1>2, <1>6, <2>1, <3>1, <3>2, <3>4, <3>5, <3>6 DEF Served, Means, Never, NotInquired, Followed
  <2>2. CASE d = c
    <3>1. t = 0 => NotInquired(n)'
      BY <1>4, <1>5
    <3>2. \A a : a # NoCaller /\ a = my'[c].sentTo => Followed(n, a)'
      <4>1. CASE t # 0
        BY <1>1, <1>3, <1>5, <1>6, <4>1 DEF Served, CallerTypes
      <4>2. CASE t = 0 /\ handshake # NoCaller
        <5>1. PICK b \in Instances : b = handshake /\ chan[primary].agent = b
          BY <4>2 DEF IInv, DaemonTypes, HandshakeNamesPrimary
        <5>2. \A h \in Channels : \A x \in Down(h)' : Carries(x, n) => at[b] = h
          BY <1>4, <1>5, <4>2, <5>1 DEF Never
        <5>3. Followed(n, b)'
          BY <1>2, <1>4, <4>2, <5>2 DEF Followed, Never, agentVars, ghostVars
        <5> QED BY <1>6, <4>2, <5>1, <5>3
      <4> QED BY <1>6, <4>1, <4>2
    <3>3. \A r : r = reply'[c] => Means(c, r)'
      BY <1>2, <1>3 DEF Means, NoReply, Reply
    <3> QED BY <1>1, <1>2, <1>3, <1>6, <2>2, <3>1, <3>2, <3>3 DEF Served, Means, NotInquired, Followed
  <2> QED BY <2>1, <2>2
<1>12. TrueAnswers'
  <2> SUFFICES ASSUME NEW h \in Channels, NEW x \in Up(h), x \in Answers
               PROVE  TrueAnswer(x)'
    BY <1>5 DEF TrueAnswers, Answers, Replies, MsgIds, KeyIds, OwnIds, Keys
  <2>1. TrueAnswer(x)
    BY DEF TrueAnswers
  <2>2. Subject(x.id)' = Subject(x.id) /\ \A id : RanAs(id) => RanAs(id)'
    BY <1>2, <1>7, SameAsks DEF RanAs, ghostVars
  <2>3. ASSUME x.reply.verdict = "unknown", NEW d \in Callers, pc'[d] # "idle", my'[d].n = x.id.n,
               my'[d].sentTo # NoCaller, my'[d].sentTo = x.reply.by
        PROVE  Never(x.id.n)'
    <3>1. x.id.attempt > 0 /\ x.id.n \in Asked
      BY <2>1, <2>3 DEF TrueAnswer
    <3>2. CASE t = 0
      <4>1. x.id.n # n
        BY <1>4, <3>1, <3>2 DEF NotInquired, Informs
      <4>2. d # c
        BY <1>6, <2>3, <4>1
      <4>3. Never(x.id.n)
        BY <1>6, <2>1, <2>3, <4>2 DEF TrueAnswer
      <4> QED BY <1>5, <3>1, <4>1, <4>3
    <3>3. CASE t # 0
      <4>1. pc[d] # "idle" /\ my[d].n = x.id.n /\ my[d].sentTo = my'[d].sentTo
        BY <1>1, <1>2, <1>6, <2>3, <3>3
      <4>2. Never(x.id.n)
        BY <2>1, <2>3, <4>1 DEF TrueAnswer
      <4> QED BY <1>5, <3>1, <3>3, <4>2
    <3> QED BY <3>2, <3>3
  <2> QED BY <1>7, <2>1, <2>2, <2>3 DEF TrueAnswer, RanAs
<1>13. SafeForEver'
  <2> SUFFICES ASSUME NEW i \in Asked, told[i] \in {"neverRan", "notSent"} PROVE Never(i)'
    BY <1>2, <1>7 DEF SafeForEver
  <2>1. i # n
    BY <1>1, <1>3 DEF Served
  <2> QED BY <1>5, <2>1 DEF SafeForEver
<1> QED BY <1>5, <1>8, <1>9, <1>10, <1>11, <1>12, <1>13 DEF CallersServed

(* A request nobody has asked yet is nowhere.                              *)
LEMMA UnaskedIsNowhere ==
  ASSUME IInv, OInv, NEW n \in Nat \ Asked, n # 0
  PROVE  Never(n) /\ NotInquired(n)
<1>1. \A h \in Channels : \A m \in Down(h) : m.n # n
  BY MadeFacts DEF OInv, MessagesMade, IInv, ShutdownRequest, None
<1>2. \A a \in Instances : \A m : m = doing[a] => m.n # n
  BY MadeFacts DEF OInv, MessagesMade, IInv, NoMessage, None
<1>3. n \notin ran
  BY DEF OInv, RecordTypes
<1>4. \A h \in Channels : \A x \in Up(h) : ~Informs(x, n)
  BY DEF OInv, TrueAnswers, TrueAnswer, Informs
<1> QED BY <1>1, <1>2, <1>3, <1>4 DEF Never, NotInquired, Carries, Inquires

LEMMA AskTrue == ASSUME IInv, OInv, NEW c \in Callers, NEW r \in Requests, Ask(c, r) PROVE OInv'
<1> USE DEF OInv
<1> DEFINE new == Len(asks) + 1
<1>1. /\ pc[c] = "idle" /\ Len(asks) < MaxRequests
      /\ asks' = Append(asks, r) /\ told' = [told EXCEPT ![new] = "asked"]
      /\ my' = [my EXCEPT ![c] = [Idle EXCEPT !.n = new]] /\ pc' = [pc EXCEPT ![c] = "ready"]
      /\ UNCHANGED <<pending, handshake, primary, chan, agentVars, reply, ghostVars>>
      /\ CallerTypes
  BY DEF Ask, dvcVars, IInv
<1>2. /\ Len(asks) \in Nat /\ new \in Numbers /\ new \notin Asked /\ new # 0
      /\ Asked' = Asked \cup {new} /\ Asked \subseteq Numbers
      /\ \A n \in Asked : asks'[n] = asks[n]
  BY <1>1, LimitsAssumption DEF CallerTypes, Asked, Numbers
<1>3. new \in Nat
  BY <1>2
<1> HIDE DEF new
<1>4. Never(new) /\ NotInquired(new)
  BY <1>2, <1>3, UnaskedIsNowhere
<1>5. \A n \in Asked : \A t : Id(n, t)' = Id(n, t) /\ Message(n, t)' = Message(n, t)
  BY <1>2 DEF Id, Message
<1>6. \A h \in Channels : Down(h)' = Down(h) /\ Up(h)' = Up(h)
  BY <1>1 DEF Down, Up
<1>7. UNCHANGED <<alive, at, doing, journal, evicted, disk, ran>>
  BY <1>1 DEF agentVars, journalVars, ghostVars
<1>8. /\ \A n : (Never(n) => Never(n)') /\ (NotInquired(n) => NotInquired(n)')
      /\ \A n \in Asked : \A a : Followed(n, a) => Followed(n, a)'
  <2>1. \A n : (Never(n) => Never(n)') /\ (NotInquired(n) => NotInquired(n)')
    BY <1>6, <1>7 DEF Never, NotInquired
  <2>2. \A a, id : Noted(a, id) => Noted(a, id)'
    BY <1>7 DEF Noted, Entries, Dropped
  <2>3. \A n \in Asked : \A a : Followed(n, a) => Followed(n, a)'
    BY <1>5, <1>6, <1>7, <2>2 DEF Followed, Noted
  <2> QED BY <2>1, <2>3
<1>9. \A id : RanAs(id) => RanAs(id)'
  BY <1>5, <1>7 DEF RanAs, RecordTypes
<1>10. \A m : Made(m) => Made(m)'
  BY <1>2, <1>5 DEF Made
<1>11. \A d \in Callers \ {c} : pc'[d] = pc[d] /\ my'[d] = my[d]
  BY <1>1 DEF CallerTypes
<1>12. pc'[c] = "ready" /\ my'[c].n = new /\ my'[c].attempt = 0 /\ my'[c].sentTo = NoCaller
  BY <1>1 DEF CallerTypes, Idle
<1>13. told'[new] = "asked" /\ \A n \in Asked : told'[n] = told[n]
  BY <1>1, <1>2 DEF RecordTypes
<1>14. \A d \in Callers : pc[d] # "idle" => my[d].n \in Asked
  BY <1>1 DEF CallerTypes, Asked
<1>15. RecordTypes'
  <2>1. told' \in [Numbers -> Tells]
    BY <1>1, <1>2 DEF RecordTypes, Tells
  <2> QED BY <1>2, <1>7, <2>1 DEF RecordTypes, Records, MsgIds, KeyIds, OwnIds, KeyId, Keys, Cmds
<1>16. MessagesMade'
  BY <1>6, <1>7, <1>10 DEF MessagesMade
<1>17. InTurn'
  <2>1. ASSUME NEW h \in Channels PROVE TurnKept(chan[h].down, new)
    BY <1>4 DEF TurnKept, NotInquired, Down
  <2> QED BY <1>1, <1>2, <2>1 DEF InTurn
<1>18. CallersApart'
  BY <1>2, <1>11, <1>12, <1>14 DEF CallersApart
<1>19. Entered'
  <2>1. \A d \in Callers : pc[d] # "idle" => MyId(d)' = MyId(d)
    BY <1>1, <1>5, <1>11, <1>14 DEF MyId
  <2>2. ASSUME NEW id \in DOMAIN pending, NEW d, d = pending[id]
        PROVE  d \in Callers /\ pc'[d] \in {"waiting", "expired"} /\ MyId(d)' = id /\ reply'[d] = NoReply
    BY <1>1, <1>11, <2>1, <2>2 DEF Entered
  <2>3. \A d \in Callers : pc'[d] \in {"idle", "ready"} => reply'[d] = NoReply
    BY <1>1, <1>11 DEF Entered
  <2> QED BY <1>1, <2>2, <2>3 DEF Entered, MyId, Id
<1>20. ASSUME NEW d \in Callers, pc'[d] # "idle"
       PROVE  Served(d)'
  <2>1. CASE d # c
    <3>1. PICK i \in Asked : i = my[d].n
      BY <1>11, <1>14, <1>20, <2>1
    <3>2. Served(d) /\ my'[d] = my[d] /\ pc'[d] = pc[d] /\ reply'[d] = reply[d]
      BY <1>1, <1>11, <1>20, <2>1 DEF CallersServed
    <3>3. \A a : a # NoCaller /\ a = my[d].sentTo => Followed(i, a)'
      BY <1>8, <3>1, <3>2 DEF Served
    <3>4. \A s : s = reply[d] => Means(d, s)'
      <4>1. \A s : s = reply[d] => Means(d, s)
        BY <3>2 DEF Served
      <4>2. Id(i, 0)' = Id(i, 0)
        BY <1>5
      <4> QED BY <1>8, <1>9, <3>1, <3>2, <4>1, <4>2 DEF Means, RanAs, Never
    <3> QED BY <1>8, <1>13, <3>1, <3>2, <3>3, <3>4 DEF Served, Means, Never, NotInquired, Followed
  <2>2. CASE d = c
    <3>1. reply'[c] = NoReply
      BY <1>1 DEF Entered
    <3>2. \A s : s = reply'[c] => Means(c, s)'
      BY <3>1 DEF Means, NoReply, Reply
    <3>3. \A n : n = my'[c].n => Never(n)' /\ NotInquired(n)'
      BY <1>4, <1>8, <1>12
    <3> QED BY <1>12, <1>13, <2>2, <3>2, <3>3 DEF Served, Means, NotInquired, Never
  <2> QED BY <2>1, <2>2
<1>21. TrueAnswers'
  <2> SUFFICES ASSUME NEW h \in Channels, NEW x \in Up(h), x \in Answers
               PROVE  TrueAnswer(x)'
    BY <1>6 DEF TrueAnswers, Answers, Replies, MsgIds, KeyIds, OwnIds, Keys
  <2>1. TrueAnswer(x)
    BY DEF TrueAnswers
  <2>2. x.id.attempt \in Nat
    BY LimitsAssumption DEF Answers, MsgIds, KeyIds, OwnIds, KeyId
  <2>3. Subject(x.id)' = Subject(x.id)
    <3>1. CASE x.id.attempt = 0
      BY <3>1 DEF Subject
    <3>2. CASE x.id.attempt > 0
      <4>1. Id(x.id.n, 0)' = Id(x.id.n, 0)
        BY <1>5, <2>1, <3>2 DEF TrueAnswer
      <4> QED BY <3>2, <4>1 DEF Subject
    <3> QED BY <2>2, <3>1, <3>2
  <2>4. ASSUME x.reply.verdict = "unknown", NEW d \in Callers, pc'[d] # "idle", my'[d].n = x.id.n,
               my'[d].sentTo # NoCaller, my'[d].sentTo = x.reply.by
        PROVE  Never(x.id.n)'
    <3>1. d # c
      BY <1>12, <2>4
    <3> QED BY <1>8, <1>11, <2>1, <2>4, <3>1 DEF TrueAnswer
  <2> QED BY <1>2, <1>9, <2>1, <2>3, <2>4 DEF TrueAnswer, RanAs
<1>22. TrueRecords'
  BY <1>7, <1>9 DEF TrueRecords, Entries, RanAs
<1>23. SafeForEver'
  BY <1>2, <1>8, <1>13 DEF SafeForEver, Never
<1> QED BY <1>15, <1>16, <1>17, <1>18, <1>19, <1>20, <1>21, <1>22, <1>23 DEF CallersServed

LEMMA InitOInv == RequestsInit => OInv
<1> SUFFICES ASSUME RequestsInit PROVE OInv
  OBVIOUS
<1> USE DEF RequestsInit
<1>1. Asked = {} /\ \A h \in Channels : Down(h) = {} /\ Up(h) = {}
  BY DEF Asked, Down, Up
<1>2. RecordTypes
  BY DEF RecordTypes, Tells
<1>3. MessagesMade /\ InTurn /\ TrueAnswers /\ SafeForEver
  BY <1>1 DEF MessagesMade, InTurn, TrueAnswers, SafeForEver
<1>4. CallersApart /\ Entered /\ CallersServed /\ TrueRecords
  BY DEF CallersApart, Entered, CallersServed, TrueRecords, Entries
<1> QED BY <1>2, <1>3, <1>4 DEF OInv

LEMMA NextOInv == ASSUME IInv, OInv, Remembers', [RequestsNext]_requestVars PROVE OInv'
<1>1. CASE UNCHANGED requestVars
  <2>1. UNCHANGED <<pending, chan, agentVars, callerVars, ghostVars>>
    BY <1>1 DEF requestVars, dvcVars
  <2>2. UpFlow
    BY <2>1, SaidNothing
  <2>3. /\ InTurn'
        /\ \A h \in Channels : \A m \in Down(h)' : m = ShutdownRequest \/ m \in Down(h)
    BY <2>1, TurnsPass DEF callerVars
  <2>4. Passes /\ Rests /\ Keeps /\ UNCHANGED <<pending, reply>>
    BY <2>1, <2>3 DEF Passes, Rests, Keeps, agentVars, callerVars, ghostVars
  <2> QED BY <2>2, <2>4, QuietTrue
<1>2. ASSUME NEW c \in Callers, CallerStep(c) PROVE OInv'
  <2>1. CASE Send(c)
    BY <2>1, SendTrue
  <2>2. CASE SendRefused(c) \/ Answered(c) \/ SenderGone(c) \/ TimesOut(c) \/ Remove(c)
    <3>1. CallerMoves(c)
      BY <2>2, SendRefusedMoves, AnsweredMoves, SenderGoneMoves, TimesOutMoves, RemoveMoves
    <3> QED BY <3>1, CallerTrue
  <2> QED BY <1>2, <2>1, <2>2 DEF CallerStep
<1>3. ASSUME NEW c \in Callers, NEW r \in Requests, Ask(c, r) PROVE OInv'
  BY <1>3, AskTrue
<1>4. ASSUME NEW h \in Channels, Processor(h) PROVE OInv'
  BY <1>4, GreetTrue, RespondTrue, CloseTrue DEF Processor
<1>5. ASSUME NEW h \in Channels, NEW a \in Instances, Open(a, h) PROVE OInv'
  BY <1>5, OpenTrue
<1>6. ASSUME NEW a \in Instances, AgentStep(a) PROVE OInv'
  BY <1>6, ReplayTrue, StartTrue, FinishTrue, AnswerQueryTrue, ExitTrue DEF AgentStep
<1>7. ASSUME NEW a \in Instances, Fault(a) PROVE OInv'
  BY <1>7, FinishUnrecordedTrue, LoseMessageTrue, FinishUnheardTrue, ChannelFailsTrue, DieTrue DEF Fault
<1> QED BY <1>1, <1>2, <1>3, <1>4, <1>5, <1>6, <1>7, StopAgentTrue, ReleasePrimaryTrue DEF RequestsNext, Calm

-----------------------------------------------------------------------------
(* Every step is one RequestOutcome allows.                                *)

(* A key stands for one command: its caller does not reuse it.             *)
OneCommandPerKey == \A r, s \in Requests : r.key = s.key /\ r.key # NoKey => r = s

Promised == [Outcome!OutcomeNext]_<<asks, told, ran>>

LEMMA RanAsOneRun ==
  ASSUME IInv, OInv, OneCommandPerKey, NEW n \in Asked, RanAs(Id(n, 0))
  PROVE  \E m \in ran : Outcome!OneRun(m, n)
<1>1. PICK m \in ran : Id(m, 0) = Id(n, 0)
  BY DEF RanAs
<1>2. asks[m] \in Requests /\ asks[n] \in Requests
  BY <1>1 DEF OInv, RecordTypes, IInv, CallerTypes, Asked
<1>3. Id(m, 0).key = asks[m].key /\ Id(n, 0).key = asks[n].key
  BY DEF Id
<1>4. CASE asks[n].key # NoKey
  BY <1>1, <1>2, <1>3, <1>4 DEF OneCommandPerKey, Outcome!OneRun
<1>5. CASE asks[n].key = NoKey
  <2>1. Id(n, 0).n = n /\ Id(m, 0).n = m
    BY <1>1, <1>3, <1>5 DEF Id
  <2> QED BY <1>1, <2>1 DEF Outcome!OneRun
<1> QED BY <1>4, <1>5

LEMMA CallerPromised ==
  ASSUME IInv, OInv, OneCommandPerKey, NEW c \in Callers, CallerMoves(c)
  PROVE  Promised
<1>1. UNCHANGED <<asks, ran>>
  BY DEF CallerMoves, FarVars, ghostVars
<1>2. CASE ServesOn(c)
  BY <1>1, <1>2 DEF ServesOn, Promised
<1>3. ASSUME NEW answer, Concludes(c, answer)
      PROVE  Promised
  <2>1. PICK n \in Asked : n = my[c].n /\ told[n] = "asked"
    BY DEF CallerMoves, OInv, CallersServed, Served, IInv, CallerTypes, Asked
  <2>2. answer = "done" => \E m \in ran : Outcome!OneRun(m, n)
    BY <1>3, <2>1, RanAsOneRun DEF Concludes
  <2>3. answer \in Outcome!Safe => n \notin ran
    BY <1>3, <2>1 DEF Concludes, Never
  <2>4. Outcome!AnswerOne(n, answer)
    BY <1>1, <1>3, <2>1, <2>2, <2>3 DEF Concludes, Outcome!AnswerOne
  <2>5. n \in DOMAIN asks
    BY DEF Asked, IInv, CallerTypes
  <2> QED BY <1>3, <2>4, <2>5 DEF Concludes, Outcome!OutcomeNext, Promised
<1> QED BY <1>2, <1>3 DEF CallerMoves

LEMMA RunPromised ==
  ASSUME IInv, OInv, NEW a \in Instances, UNCHANGED <<asks, told>>,
         ran' = ran \/ (doing[a] # NoMessage /\ ran' = ran \cup {doing[a].n})
  PROVE  Promised
<1>1. CASE ran' = ran
  BY <1>1 DEF Promised
<1>2. CASE doing[a] # NoMessage /\ ran' = ran \cup {doing[a].n}
  <2>1. PICK n \in Asked : n = doing[a].n /\ Carries(doing[a], n)
    BY <1>2, MadeFacts DEF OInv, MessagesMade, IInv, Carries
  <2>2. told[n] \notin Outcome!Safe
    BY <2>1 DEF OInv, SafeForEver, Never, Outcome!Safe
  <2>3. Outcome!RunOne(n)
    BY <1>2, <2>1, <2>2 DEF Outcome!RunOne
  <2>4. n \in DOMAIN asks
    BY DEF Asked, IInv, CallerTypes
  <2> QED BY <2>3, <2>4 DEF Outcome!OutcomeNext, Promised
<1> QED BY <1>1, <1>2

LEMMA NextPromised ==
  ASSUME IInv, OInv, OneCommandPerKey, [RequestsNext]_requestVars
  PROVE  Promised
<1>1. CASE UNCHANGED <<asks, told, ran>>
  BY <1>1 DEF Promised
<1>2. ASSUME NEW c \in Callers, CallerStep(c) PROVE Promised
  <2>1. CASE Send(c)
    BY <1>1, <2>1 DEF Send, ghostVars
  <2>2. CASE SendRefused(c) \/ Answered(c) \/ SenderGone(c) \/ TimesOut(c) \/ Remove(c)
    <3>1. CallerMoves(c)
      BY <2>2, SendRefusedMoves, AnsweredMoves, SenderGoneMoves, TimesOutMoves, RemoveMoves
    <3> QED BY <3>1, CallerPromised
  <2> QED BY <1>2, <2>1, <2>2 DEF CallerStep
<1>3. ASSUME NEW c \in Callers, NEW r \in Requests, Ask(c, r) PROVE Promised
  <2>1. Outcome!AskFor(r)
    BY <1>3 DEF Ask, ghostVars, Outcome!AskFor
  <2> QED BY <2>1 DEF Outcome!OutcomeNext, Promised
<1>4. ASSUME NEW a \in Instances, Finish(a) \/ FinishUnrecorded(a) \/ FinishUnheard(a) PROVE Promised
  <2>1. UNCHANGED <<asks, told>>
    BY <1>4 DEF Finish, FinishUnrecorded, FinishUnheard, Reports, callerVars
  <2>2. ran' = ran \/ ran' = ran \cup {doing[a].n}
    BY <1>4 DEF Finish, FinishUnrecorded, FinishUnheard, Complete, TakesEffect
  <2>3. doing[a] # NoMessage
    <3>1. NoMessage.id.key = NoKey
      BY DEF NoMessage, ShutdownId
    <3>2. doing[a] # NoMessage \/ IsKeyed(doing[a])
      BY <1>4 DEF Finish, FinishUnrecorded, FinishUnheard
    <3> QED BY <3>1, <3>2 DEF IsKeyed
  <2> QED BY <2>1, <2>2, <2>3, RunPromised
<1>5. ASSUME NEW a \in Instances, Die(a) PROVE Promised
  <2>1. UNCHANGED <<asks, told>>
    BY <1>5 DEF Die, callerVars
  <2>2. ran' = ran \/ (doing[a] # NoMessage /\ ran' = ran \cup {doing[a].n})
    BY <1>5 DEF Die, TakesEffect, ghostVars
  <2> QED BY <2>1, <2>2, RunPromised
<1>6. ASSUME NEW a \in Instances,
             Replay(a) \/ Start(a) \/ AnswerQuery(a) \/ Exit(a) \/ LoseMessage(a) \/ ChannelFails(a)
      PROVE  Promised
  BY <1>1, <1>6 DEF Replay, Start, AnswerQuery, Exit, LoseMessage, ChannelFails, callerVars, ghostVars
<1>7. ASSUME NEW h \in Channels, Processor(h) \/ \E a \in Instances : Open(a, h) PROVE Promised
  BY <1>1, <1>7 DEF Processor, Greet, Respond, Close, Open, callerVars, ghostVars
<1>8. CASE StopAgent \/ ReleasePrimary \/ UNCHANGED requestVars
  BY <1>1, <1>8 DEF StopAgent, ReleasePrimary, requestVars, callerVars, ghostVars
<1> QED BY <1>2, <1>3, <1>4, <1>5, <1>6, <1>7, <1>8 DEF RequestsNext, Calm, AgentStep, Fault

(* While the agents' memory of evicted ids has room, and no key is used    *)
(* for two commands, whatever is lost, late, cut off or asked again a      *)
(* caller hears "done" only of a command that took effect, and "it did not *)
(* run" only of one that has not and never will (resolve_indeterminate,    *)
(* unknown_id_verdict).                                                    *)
THEOREM OutcomesAreKept ==
  ASSUME OneCommandPerKey
  PROVE  RequestsSpec /\ []Remembers => OutcomesKept
<1>1. RequestsInit => Outcome!OutcomeInit
  BY DEF RequestsInit, Outcome!OutcomeInit, Numbers
<1>2. IInv /\ OInv /\ Remembers' /\ [RequestsNext]_requestVars => OInv'
  BY NextOInv
<1>3. IInv /\ OInv /\ [RequestsNext]_requestVars => [Outcome!OutcomeNext]_<<asks, told, ran>>
  BY NextPromised DEF Promised
<1> QED BY <1>1, <1>2, <1>3, Invariance, InitOInv, PTL DEF RequestsSpec, OutcomesKept, Outcome!OutcomeSpec

-----------------------------------------------------------------------------
(* What the promise is worth: from RequestOutcome alone, its answers are   *)
(* true and stay so.                                                       *)

(* Only what was asked runs or is answered.                                *)
OutcomeInv ==
  /\ asks \in Seq(Requests) /\ Len(asks) <= MaxRequests
  /\ told \in [1 .. MaxRequests -> {"unasked", "asked"} \cup Outcome!Claims \cup Outcome!NoClaim]
  /\ \A n \in 1 .. MaxRequests : told[n] = "unasked" <=> n > Len(asks)
  /\ ran \subseteq DOMAIN asks
  /\ Outcome!AnswersTrue

LEMMA OutcomeInvStarts == Outcome!OutcomeInit => OutcomeInv
BY LimitsAssumption DEF LimitsAssumption, Outcome!OutcomeInit, OutcomeInv, Outcome!AnswersTrue, Outcome!Safe

OutcomeStands ==
  /\ \A n \in 1 .. MaxRequests :
       /\ told[n] \notin {"unasked", "asked"} => told'[n] = told[n]
       /\ told[n] \in Outcome!Safe => n \notin ran'
  /\ ran \subseteq ran'

LEMMA OutcomeInvSteps ==
  ASSUME OutcomeInv, [Outcome!OutcomeNext]_<<asks, told, ran>>
  PROVE  OutcomeInv' /\ OutcomeStands
<1>1. Len(asks) \in Nat /\ MaxRequests \in Nat
  BY LimitsAssumption DEF LimitsAssumption, OutcomeInv
<1>2. /\ DOMAIN asks = 1 .. Len(asks) /\ Len(asks) <= MaxRequests
      /\ \A n \in ran : n \in 1 .. Len(asks)
  BY DEF OutcomeInv
<1>3. asks \in Seq(Requests)
  BY DEF OutcomeInv
<1> USE DEF OutcomeInv, OutcomeStands, Outcome!AnswersTrue, Outcome!Safe, Outcome!Claims,
            Outcome!NoClaim
<1>4. ASSUME NEW r \in Requests, Outcome!AskFor(r) PROVE OutcomeInv' /\ OutcomeStands
  <2> HIDE DEF OutcomeInv, OutcomeStands, Outcome!AnswersTrue, Outcome!Safe, Outcome!Claims,
               Outcome!NoClaim
  <2> DEFINE l == Len(asks) + 1
  <2>1. /\ asks' = Append(asks, r) /\ UNCHANGED ran /\ told' = [told EXCEPT ![l] = "asked"]
        /\ Len(asks) < MaxRequests
    BY <1>4 DEF Outcome!AskFor
  <2>0. l \in 1 .. MaxRequests
    BY <2>1, <1>1
  <2>2. /\ asks' \in Seq(Requests) /\ Len(asks') = l /\ DOMAIN asks' = 1 .. l
        /\ \A n \in 1 .. Len(asks) : asks'[n] = asks[n]
    <3>1. asks' = Append(asks, r)
      BY <2>1
    <3> QED BY <3>1, <1>3, AppendProperties
  <2> HIDE DEF l
  <2>3. \A n \in 1 .. MaxRequests : told'[n] = IF n = l THEN "asked" ELSE told[n]
    BY <2>1 DEF OutcomeInv
  <2>4. told[l] = "unasked"
    BY <2>0, <1>2, <1>1 DEF OutcomeInv, l
  <2>5. \A n \in 1 .. MaxRequests : told'[n] = "unasked" <=> n > Len(asks')
    <3> TAKE n \in 1 .. MaxRequests
    <3>1. told[n] = "unasked" <=> n > Len(asks)
      BY DEF OutcomeInv
    <3> QED BY <3>1, <2>0, <2>2, <2>3, <1>2, <1>1 DEF l
  <2>6. \A n \in 1 .. MaxRequests : \A m \in ran :
           told[n] = "done" /\ Outcome!OneRun(m, n) => Outcome!OneRun(m, n)'
    <3> TAKE n \in 1 .. MaxRequests
    <3> TAKE m \in ran
    <3>1. told[n] = "done" => n \in 1 .. Len(asks)
      BY <1>2 DEF OutcomeInv
    <3>2. m \in 1 .. Len(asks)
      BY <1>2
    <3> QED BY <3>1, <3>2, <2>2 DEF Outcome!OneRun
  <2>7. Outcome!AnswersTrue'
    BY <2>1, <2>3, <2>6 DEF OutcomeInv, Outcome!AnswersTrue, Outcome!Safe
  <2>8. told' \in [1 .. MaxRequests -> {"unasked", "asked"} \cup Outcome!Claims
                                          \cup Outcome!NoClaim]
    BY <2>1 DEF OutcomeInv
  <2>9. ran' \subseteq DOMAIN asks'
    <3>1. 1 .. Len(asks) \subseteq 1 .. l
      BY <1>1 DEF l
    <3>2. ran' = ran /\ DOMAIN asks' = 1 .. l
      BY <2>1, <2>2
    <3> QED BY <3>1, <3>2, <1>2
  <2>10. OutcomeStands
    BY <2>1, <2>3, <2>4 DEF OutcomeInv, OutcomeStands, Outcome!AnswersTrue, Outcome!Safe
  <2> QED BY <2>0, <2>1, <2>2, <2>5, <2>7, <2>8, <2>9, <2>10 DEF OutcomeInv
<1>5. ASSUME NEW n \in DOMAIN asks, Outcome!RunOne(n) PROVE OutcomeInv' /\ OutcomeStands
  <2>1. UNCHANGED <<asks, told>> /\ ran' = ran \cup {n} /\ told[n] \notin Outcome!Safe
    BY <1>5 DEF Outcome!RunOne
  <2>2. Outcome!AnswersTrue'
    BY <2>1 DEF Outcome!OneRun
  <2> QED BY <2>1, <2>2
<1>6. ASSUME NEW n \in DOMAIN asks, NEW a \in Outcome!Claims \cup Outcome!NoClaim, Outcome!AnswerOne(n, a)
      PROVE  OutcomeInv' /\ OutcomeStands
  <2>1. /\ UNCHANGED <<asks, ran>> /\ told[n] = "asked" /\ told' = [told EXCEPT ![n] = a]
        /\ a = "done" => \E m \in ran : Outcome!OneRun(m, n)
        /\ a \in Outcome!Safe => n \notin ran
    BY <1>6 DEF Outcome!AnswerOne
  <2>2. n \in 1 .. MaxRequests /\ a \notin {"unasked", "asked"}
    <3>1. n \in 1 .. Len(asks) /\ Len(asks) <= MaxRequests
      BY <1>2
    <3>2. n \in 1 .. MaxRequests
      BY <3>1, <1>1
    <3> QED BY <3>2
  <2>3. \A k \in 1 .. MaxRequests : told'[k] = IF k = n THEN a ELSE told[k]
    BY <2>1
  <2>4. Outcome!AnswersTrue'
    BY <2>1, <2>2, <2>3 DEF Outcome!OneRun
  <2>5. told' \in [1 .. MaxRequests -> {"unasked", "asked"} \cup Outcome!Claims \cup Outcome!NoClaim]
    BY <2>1
  <2> QED BY <2>1, <2>2, <2>3, <2>4, <2>5
<1>7. CASE UNCHANGED <<asks, told, ran>>
  BY <1>7 DEF Outcome!OneRun
<1> QED BY <1>4, <1>5, <1>6, <1>7 DEF Outcome!OutcomeNext

(* RequestOutcome gives every caller one answer, true when it is given and *)
(* ever after: what was said to be safe to retry never takes effect.       *)
THEOREM OutcomesAreTrue ==
  Outcome!OutcomeSpec => []Outcome!AnswersTrue /\ Outcome!AnswersStand
<1>1. OutcomeInv /\ [Outcome!OutcomeNext]_<<asks, told, ran>>
        => OutcomeInv' /\ [OutcomeStands]_<<asks, told, ran>>
  BY OutcomeInvSteps
<1>2. OutcomeInv => Outcome!AnswersTrue
  BY DEF OutcomeInv
<1> QED
  BY <1>1, <1>2, OutcomeInvStarts, PTL DEF Outcome!OutcomeSpec, Outcome!AnswersStand, OutcomeStands

(* So of the daemon, its channels and its agents, under the conditions of  *)
(* OutcomesAreKept: a caller that was told that its request did not run, or*)
(* was not sent, may ask again - nothing still on a wire, in a journal or  *)
(* in an agent's hands will run it - and one told "done" can rely on it    *)
(* (resolve_indeterminate, unknown_id_verdict, dvc_ipc.rs send).           *)
THEOREM CallersHearTheTruth ==
  ASSUME OneCommandPerKey
  PROVE  RequestsSpec /\ []Remembers => []Outcome!AnswersTrue /\ Outcome!AnswersStand
BY OutcomesAreKept, OutcomesAreTrue, PTL DEF OutcomesKept

-----------------------------------------------------------------------------
(* What the queues, the journals and the history may hold.                 *)

KeyedRecords == {e \in Records : e.id \in KeyIds}

(* Past the journal's limit there are only keyed records read back from    *)
(* disk, each the only one of its key.                                     *)
ReadBack(s) ==
  \A i \in DOMAIN s : i > JournalLimit =>
    s[i].id \in KeyIds /\ \A j \in DOMAIN s : j < i => s[j].id # s[i].id

JournalsOK ==
  /\ journal \in [Instances -> Seq(Records)] /\ evicted \in [Instances -> Seq(MsgIds)]
  /\ disk \subseteq KeyedRecords
  /\ \A a \in Instances : ReadBack(journal[a]) /\ Len(evicted[a]) <= EvictedLimit

WaitersOK == \A id \in DOMAIN pending : id \in MsgIds /\ pending[id] \in Callers

Numbered(m) == m.cmd = "shutdown" \/ m.n \in Numbers

NumbersOK ==
  /\ \A h \in Channels : \A m \in Down(h) : Numbered(m)
  /\ \A a \in Instances : \A m : m = doing[a] => m = NoMessage \/ m.n \in Numbers

HistoryOK ==
  /\ ran \subseteq Numbers /\ excused \subseteq Keys \cup {NoKey} /\ stopping.count <= MaxStops

LimitsInv == JournalsOK /\ WaitersOK /\ NumbersOK /\ HistoryOK

LEMMA NothingReadBack ==
  ASSUME NEW s, Len(s) <= JournalLimit, s \in Seq(Records)
  PROVE  ReadBack(s)
BY LimitsAssumption DEF ReadBack

(* The journal's length is bounded by the limit and one record per key.    *)
LEMMA JournalBound ==
  ASSUME IsFiniteSet(Keys), NEW s \in Seq(Records), ReadBack(s)
  PROVE  Len(s) <= JournalLimit + Cardinality(Keys)
<1>1. PICK n \in Nat : n = Len(s)
  OBVIOUS
<1>2. JournalLimit \in Nat /\ Cardinality(Keys) \in Nat
  BY LimitsAssumption, FS_CardinalityType
<1>3. CASE n <= JournalLimit
  BY <1>1, <1>2, <1>3
<1>4. CASE n > JournalLimit
  <2> DEFINE S == JournalLimit + 1 .. n
             key == [i \in S |-> s[i].id.key]
  <2>1. IsFiniteSet(S) /\ Cardinality(S) = n - JournalLimit
    <3>1. PICK l \in Int : l = JournalLimit + 1
      BY <1>2
    <3>2. n \in Int /\ ~(l > n) /\ n - l + 1 = n - JournalLimit
      BY <1>2, <1>4, <3>1
    <3>3. IsFiniteSet(l .. n) /\ Cardinality(l .. n) = IF l > n THEN 0 ELSE n - l + 1
      BY <3>1, <3>2, FS_Interval
    <3> QED BY <3>1, <3>2, <3>3
  <2>2. \A i \in S : i \in DOMAIN s /\ i > JournalLimit
    BY <1>1, <1>2
  <2>3. \A i \in S : s[i].id \in KeyIds
    BY <2>2 DEF ReadBack
  <2>4. \A i \in S : s[i].id = KeyId(s[i].id.key) /\ s[i].id.key \in Keys
    BY <2>3 DEF KeyIds, KeyId
  <2>5. key \in [S -> Keys]
    BY <2>4
  <2>6. ASSUME NEW i \in S, NEW j \in S, i # j
        PROVE  key[i] # key[j]
    <3>1. i < j \/ j < i
      BY <1>2, <2>6
    <3>2. s[i].id # s[j].id
      BY <2>2, <3>1 DEF ReadBack
    <3> QED BY <2>4, <3>2
  <2> HIDE DEF S, key
  <2>7. ~(Cardinality(Keys) < Cardinality(S))
    BY <2>1, <2>5, <2>6, FS_PigeonHole
  <2> QED BY <1>1, <1>2, <2>1, <2>7
<1> QED BY <1>1, <1>2, <1>3, <1>4

LEMMA JournalsKept == ASSUME JournalsOK, UNCHANGED <<journal, evicted, disk>> PROVE JournalsOK'
BY DEF JournalsOK

LEMMA JournalsCache ==
  ASSUME JournalsOK, NEW a \in Instances, NEW id, NEW onDisk \in BOOLEAN,
         Cache(a, Lookup(a, id, onDisk)), UNCHANGED <<evicted, disk>>
  PROVE  JournalsOK'
<1> DEFINE found == Lookup(a, id, onDisk)
<1>1. CASE found \subseteq Entries(a)
  <2>1. journal' = journal
    BY <1>1 DEF Cache, JournalsOK
  <2> QED BY <2>1, JournalsKept
<1>2. CASE ~(found \subseteq Entries(a))
  <2>1. InMemory(a, id) = {} /\ found = {e \in disk : e.id = id}
    BY <1>2 DEF Lookup, InMemory
  <2> DEFINE e == CHOOSE e \in found : TRUE
  <2>2. e \in found
    BY <1>2
  <2>3. journal' = [journal EXCEPT ![a] = Append(journal[a], e)]
    BY <1>2 DEF Cache
  <2>4. e \in Records /\ e.id = id /\ id \in KeyIds
    BY <2>1, <2>2 DEF JournalsOK, KeyedRecords
  <2> HIDE DEF e, found
  <2>5. journal[a] \in Seq(Records) /\ ReadBack(journal[a])
    BY DEF JournalsOK
  <2>6. \A i \in DOMAIN journal[a] : journal[a][i].id # id
    BY <2>1 DEF InMemory, Entries
  <2> DEFINE t == Append(journal[a], e)
  <2>7. /\ \A i \in DOMAIN t : \/ i \in DOMAIN journal[a] /\ t[i] = journal[a][i] /\ i <= Len(journal[a])
                               \/ i = Len(journal[a]) + 1 /\ t[i] = e
        /\ t \in Seq(Records) /\ Len(journal[a]) \in Nat
    BY <2>4, <2>5, AppendElements
  <2>8. \A i \in DOMAIN t : i \in Nat
    BY <2>7
  <2> HIDE DEF t
  <2>9. ReadBack(t)
    <3> SUFFICES ASSUME NEW i \in DOMAIN t, i > JournalLimit
                 PROVE  t[i].id \in KeyIds /\ \A j \in DOMAIN t : j < i => t[j].id # t[i].id
      BY DEF ReadBack
    <3>1. CASE i \in DOMAIN journal[a] /\ t[i] = journal[a][i] /\ i <= Len(journal[a])
      <4>1. \A j \in DOMAIN t : j < i => j \in DOMAIN journal[a] /\ t[j] = journal[a][j]
        BY <2>7, <2>8, <3>1
      <4> QED BY <2>5, <3>1, <4>1 DEF ReadBack
    <3>2. CASE i = Len(journal[a]) + 1 /\ t[i] = e
      <4>1. \A j \in DOMAIN t : j < i => j \in DOMAIN journal[a] /\ t[j] = journal[a][j]
        BY <2>7, <2>8, <3>2
      <4> QED BY <2>4, <2>6, <3>2, <4>1
    <3> QED BY <2>7, <3>1, <3>2
  <2>10. journal' = [journal EXCEPT ![a] = t]
    BY <2>3 DEF t
  <2> QED BY <2>7, <2>9, <2>10 DEF JournalsOK
<1> QED BY <1>1, <1>2

LEMMA JournalsRecord ==
  ASSUME JournalsOK, NEW a \in Instances, NEW e \in Records, Record(a, e),
         disk' \subseteq disk \/ (e.id \in KeyIds /\ disk' \subseteq disk \cup {e})
  PROVE  JournalsOK'
<1> DEFINE all  == Append(journal[a], e)
           kept == Last(all, JournalLimit)
           out  == SubSeq(all, 1, Len(all) - Len(kept))
           ids  == [i \in DOMAIN out |-> out[i].id]
           more == evicted[a] \o ids
<1>1. all \in Seq(Records) /\ JournalLimit \in Nat /\ EvictedLimit \in Nat
  BY LimitsAssumption DEF JournalsOK
<1>2. /\ journal' = [journal EXCEPT ![a] = kept]
      /\ evicted' = [evicted EXCEPT ![a] = Last(more, EvictedLimit)]
  BY DEF Record
<1>0. kept = Last(all, JournalLimit) /\ out = SubSeq(all, 1, Len(all) - Len(kept))
  OBVIOUS
<1> HIDE DEF all, kept, out
<1>3. kept \in Seq(Records) /\ Len(kept) <= JournalLimit /\ Len(kept) <= Len(all) /\ Len(kept) \in Nat
      /\ Len(all) \in Nat
  <2>1. /\ kept \in Seq(Records)
        /\ Len(all) <= JournalLimit => kept = all
        /\ Len(all) > JournalLimit => Len(kept) = JournalLimit
    BY <1>0, <1>1, LastOf
  <2>2. Len(kept) \in Nat /\ Len(all) \in Nat
    BY <1>1, <2>1
  <2> QED BY <1>1, <2>1, <2>2
<1>4. out \in Seq(Records)
  <2>1. PICK d \in 0 .. Len(all) : d = Len(all) - Len(kept)
    <3>1. Len(all) - Len(kept) \in 0 .. Len(all)
      BY <1>3
    <3> QED BY <3>1
  <2> QED BY <1>0, <1>1, <2>1, FirstOf
<1>5. ids \in Seq(MsgIds)
  <2>1. \A j \in DOMAIN out : out[j] \in Records
    BY <1>4
  <2>2. \A j \in DOMAIN out : out[j].id \in MsgIds
    BY <2>1 DEF Records
  <2>3. Len(out) \in Nat /\ DOMAIN out = 1 .. Len(out)
    BY <1>4
  <2> QED BY <2>2, <2>3
<1> HIDE DEF ids
<1>6. more \in Seq(MsgIds)
  <2>1. evicted[a] \in Seq(MsgIds)
    BY DEF JournalsOK
  <2> QED BY <1>5, <2>1, ConcatProperties
<1> HIDE DEF more
<1>7. Last(more, EvictedLimit) \in Seq(MsgIds) /\ Len(Last(more, EvictedLimit)) <= EvictedLimit
  <2> DEFINE last == Last(more, EvictedLimit)
  <2>1. /\ last \in Seq(MsgIds) /\ (Len(more) <= EvictedLimit => last = more)
        /\ (Len(more) > EvictedLimit => Len(last) = EvictedLimit)
    BY <1>1, <1>6, LastOf
  <2>2. Len(more) \in Nat
    BY <1>6
  <2> HIDE DEF last
  <2> QED BY <1>1, <2>1, <2>2 DEF last
<1>8. ReadBack(kept)
  BY <1>3, NothingReadBack
<1>9. /\ journal'[a] = kept /\ \A b \in Instances \ {a} : journal'[b] = journal[b]
      /\ evicted'[a] = Last(more, EvictedLimit) /\ \A b \in Instances \ {a} : evicted'[b] = evicted[b]
  BY <1>2 DEF JournalsOK
<1>10. journal' \in [Instances -> Seq(Records)] /\ evicted' \in [Instances -> Seq(MsgIds)]
  BY <1>2, <1>3, <1>7 DEF JournalsOK
<1>11. \A b \in Instances : ReadBack(journal'[b]) /\ Len(evicted'[b]) <= EvictedLimit
  BY <1>7, <1>8, <1>9 DEF JournalsOK
<1>12. disk' \subseteq KeyedRecords
  BY DEF JournalsOK, KeyedRecords
<1> QED BY <1>10, <1>11, <1>12 DEF JournalsOK

-----------------------------------------------------------------------------
(* Every step keeps them.                                                  *)

LEMMA IdKeys ==
  ASSUME NEW id \in MsgIds
  PROVE  id \in Ids /\ id.key \in Keys \cup {NoKey} /\ (id.key # NoKey => id \in KeyIds)
<1>1. CASE id \in KeyIds
  <2>1. PICK k \in Keys : id = KeyId(k)
    BY <1>1 DEF KeyIds
  <2> QED BY <1>1, <2>1, LimitsAssumption DEF KeyId, Ids, None
<1>2. CASE id \in OwnIds
  BY <1>2 DEF OwnIds, Ids
<1> QED BY <1>1, <1>2 DEF MsgIds

(* What travels down was there before or is new and numbered, and so is    *)
(* what the agents execute.                                                *)
FlowsDown ==
  \A h \in Channels :
    \/ chan'[h].down \in {chan[h].down, <<>>}
    \/ chan[h].down # <<>> /\ chan'[h].down = Tail(chan[h].down)
    \/ \E m \in Messages : Numbered(m) /\ chan'[h].down = Append(chan[h].down, m)

TakesUp == \A b \in Instances : doing'[b] \in {doing[b], NoMessage} \/ doing'[b].n \in Numbers

LEMMA NumbersKept ==
  ASSUME IInv, NumbersOK, FlowsDown, TakesUp
  PROVE  NumbersOK'
<1>1. ASSUME NEW h \in Channels, NEW m \in Down(h)'
      PROVE  Numbered(m)
  <2>1. AgentTypes /\ \A x \in Down(h) : Numbered(x)
    BY DEF IInv, NumbersOK
  <2>2. CASE chan'[h].down = chan[h].down
    BY <1>1, <2>1, <2>2 DEF Down
  <2>3. CASE chan'[h].down = <<>>
    BY <1>1, <2>3 DEF Down
  <2>4. CASE chan[h].down # <<>> /\ chan'[h].down = Tail(chan[h].down)
    BY <1>1, <2>1, <2>4, DownTail
  <2>5. ASSUME NEW x \in Messages, Numbered(x), chan'[h].down = Append(chan[h].down, x)
        PROVE  Numbered(m)
    BY <1>1, <2>1, <2>5, DownAppend
  <2> QED BY <2>2, <2>3, <2>4, <2>5 DEF FlowsDown
<1>2. ASSUME NEW a \in Instances
      PROVE  \A m : m = doing'[a] => m = NoMessage \/ m.n \in Numbers
  BY DEF TakesUp, NumbersOK
<1> QED BY <1>1, <1>2 DEF NumbersOK, Numbered

(* Nobody new waits.                                                       *)
Fewer == DOMAIN pending' \subseteq DOMAIN pending /\ \A id \in DOMAIN pending' : pending'[id] = pending[id]

LEMMA FewerWait == ASSUME WaitersOK, Fewer PROVE WaitersOK'
BY DEF WaitersOK, Fewer

(* A step that executes nothing and keeps the journals.                    *)
LEMMA LimitsStay ==
  ASSUME IInv, LimitsInv, FlowsDown, TakesUp, Fewer, JournalsOK',
         ran' \subseteq Numbers, excused' \subseteq excused \cup Keys \cup {NoKey},
         stopping'.count <= MaxStops
  PROVE  LimitsInv'
<1>1. NumbersOK' /\ WaitersOK'
  BY NumbersKept, FewerWait DEF LimitsInv
<1> QED BY <1>1 DEF LimitsInv, HistoryOK

LEMMA QuietLimits ==
  ASSUME IInv, LimitsInv, FlowsDown, TakesUp, Fewer, UNCHANGED <<journal, evicted, disk, ran>>,
         excused' \subseteq excused \cup Keys \cup {NoKey}, stopping'.count <= MaxStops
  PROVE  LimitsInv'
<1>1. JournalsOK' /\ ran' \subseteq Numbers
  BY JournalsKept DEF LimitsInv, HistoryOK
<1> QED BY <1>1, LimitsStay

LEMMA SameFlow ==
  /\ UNCHANGED chan => FlowsDown
  /\ UNCHANGED doing => TakesUp
  /\ UNCHANGED pending => Fewer
BY DEF FlowsDown, TakesUp, Fewer

LEMMA CallersLimits ==
  ASSUME IInv, LimitsInv, NEW c \in Callers,
         \/ SendRefused(c) \/ Answered(c) \/ SenderGone(c) \/ TimesOut(c) \/ Remove(c)
         \/ \E r \in Requests : Ask(c, r)
  PROVE  LimitsInv'
<1>1. UNCHANGED <<stopping, chan, doing, journal, evicted, disk, ran, excused>>
  BY DEF SendRefused, Answered, SenderGone, TimesOut, Remove, Ask, dvcVars, agentVars, journalVars, ghostVars
<1>2. Fewer
  BY DEF SendRefused, Answered, SenderGone, TimesOut, Remove, Ask, dvcVars, Fewer
<1>3. stopping'.count <= MaxStops
  BY <1>1 DEF LimitsInv, HistoryOK
<1> QED BY <1>1, <1>2, <1>3, SameFlow, QuietLimits

LEMMA SendLimits == ASSUME IInv, LimitsInv, NEW c \in Callers, Send(c) PROVE LimitsInv'
<1>1. PICK n \in Asked, t \in 0 .. Attempts : my[c].n = n /\ my[c].attempt = t
  BY DEF IInv, CallerTypes, Asked, Send
<1>2. PICK m \in Messages : m = Message(n, t) /\ m.n = n
  BY MessagesOf DEF IInv
<1>3. HandsOver(m) /\ UNCHANGED <<stopping, doing, journal, evicted, disk, ran, excused>>
  BY <1>1, <1>2 DEF Send, HandsOver, agentVars, journalVars, ghostVars
<1>4. n \in Numbers
  BY AskedNumbers DEF IInv
<1>5. FlowsDown
  BY <1>2, <1>3, <1>4, HandedDown DEF FlowsDown, Numbered
<1>6. WaitersOK'
  <2>1. MyId(c) \in MsgIds
    BY <1>1, IdsOf DEF MyId, IInv
  <2>2. pending' = [id \in DOMAIN pending \cup {MyId(c)} |-> IF id = MyId(c) THEN c ELSE pending[id]]
    BY DEF Send
  <2> QED BY <2>1, <2>2 DEF LimitsInv, WaitersOK
<1>7. NumbersOK' /\ JournalsOK'
  BY <1>3, <1>5, SameFlow, NumbersKept, JournalsKept DEF LimitsInv
<1> QED BY <1>3, <1>6, <1>7 DEF LimitsInv, HistoryOK

LEMMA OwnNumbered == Numbered(ShutdownRequest) /\ ShutdownRequest \in Messages
BY IdleMessages DEF Numbered, ShutdownRequest

LEMMA StopAgentLimits == ASSUME IInv, LimitsInv, StopAgent PROVE LimitsInv'
<1>1. HandsOver(ShutdownRequest) /\ UNCHANGED <<pending, doing, journal, evicted, disk, ran, excused>>
  BY DEF StopAgent, HandsOver, Ready, agentVars, journalVars, ghostVars
<1>2. FlowsDown
  BY <1>1, OwnNumbered, HandedDown DEF FlowsDown
<1>3. stopping'.count <= MaxStops
  <2>1. stopping.count \in Nat /\ stopping.count < MaxStops /\ stopping'.count = stopping.count + 1
    BY DEF StopAgent, IInv, DaemonTypes
  <2> QED BY <2>1, LimitsAssumption
<1> QED BY <1>1, <1>2, <1>3, SameFlow, QuietLimits

LEMMA KeysOnKeys == ASSUME IInv, NEW h \in Channels PROVE KeysOn(h) \subseteq Keys
<1>1. \A m \in Messages : m.id.key \in Keys \cup {NoKey}
  BY IdKeys DEF Messages
<1>2. \A i \in DOMAIN chan[h].down : chan[h].down[i] \in Messages
  BY DownOf DEF IInv
<1>3. \A a \in Instances : doing[a] \in Messages
  BY DEF IInv, AgentTypes
<1> QED BY <1>1, <1>2, <1>3 DEF KeysOn

LEMMA ReleaseLimits == ASSUME IInv, LimitsInv, ReleasePrimary PROVE LimitsInv'
<1>1. UNCHANGED <<chan, doing, journal, evicted, disk, ran>>
  BY DEF ReleasePrimary, agentVars, journalVars
<1>2. stopping'.count <= MaxStops
  <2>1. stopping' = [stopping EXCEPT !.channel = None]
    BY DEF ReleasePrimary
  <2> QED BY <2>1 DEF LimitsInv, HistoryOK, IInv, DaemonTypes
<1>3. Fewer
  BY DEF ReleasePrimary, FailPending, Fewer
<1>4. excused' \subseteq excused \cup Keys
  <2>1. excused' = excused \/ (primary = stopping.channel /\ stopping.channel # None
                                 /\ excused' = excused \cup KeysOn(primary))
    BY DEF ReleasePrimary
  <2>2. primary # None => primary \in Channels
    BY DEF IInv, DaemonTypes, None, Channels
  <2> QED BY <2>1, <2>2, KeysOnKeys
<1> QED BY <1>1, <1>2, <1>3, <1>4, SameFlow, QuietLimits

LEMMA HearsDown == ASSUME NEW h \in Channels, Hears(h) PROVE FlowsDown
BY OwnNumbered DEF Hears, FlowsDown

LEMMA ProcessorLimits == ASSUME IInv, LimitsInv, NEW h \in Channels, Processor(h) PROVE LimitsInv'
<1>1. Hears(h) /\ UNCHANGED <<stopping, agentVars, ran>>
  BY HearsHeard, HearsDismissed DEF Processor, Greet, Respond, Close, ghostVars, IInv
<1>2. Fewer
  BY DEF Processor, Greet, Respond, Close, FailPending, Fewer
<1>3. excused' \subseteq excused \cup Keys
  BY KeysOnKeys DEF Processor, Greet, Respond, Close, ghostVars
<1>4. stopping'.count <= MaxStops
  BY <1>1 DEF LimitsInv, HistoryOK
<1> QED BY <1>1, <1>2, <1>3, <1>4, HearsDown, SameFlow, QuietLimits DEF agentVars, journalVars

LEMMA OpenLimits ==
  ASSUME IInv, LimitsInv, NEW a \in Instances, NEW h \in Channels, Open(a, h)
  PROVE  LimitsInv'
<1>1. UNCHANGED <<pending, stopping, doing, journal, evicted, disk, ran, excused>>
  BY DEF Open, journalVars, ghostVars
<1>2. FlowsDown
  BY DEF Open, IInv, AgentTypes, FlowsDown
<1>3. stopping'.count <= MaxStops
  BY <1>1 DEF LimitsInv, HistoryOK
<1> QED BY <1>1, <1>2, <1>3, SameFlow, QuietLimits

LEMMA WorksDown ==
  ASSUME IInv, LimitsInv, NEW a \in Instances, Works(a)
  PROVE  FlowsDown /\ Fewer /\ stopping'.count <= MaxStops
<1>1. UNCHANGED <<pending, stopping>>
  BY DEF Works, dvcVars
<1> QED BY <1>1, SameFlow DEF Works, FlowsDown, LimitsInv, HistoryOK

LEMMA LeavesDown ==
  ASSUME IInv, LimitsInv, NEW a \in Instances, Leaves(a)
  PROVE  FlowsDown /\ TakesUp /\ Fewer /\ stopping'.count <= MaxStops
<1>1. UNCHANGED <<pending, stopping>> /\ doing' = [doing EXCEPT ![a] = NoMessage]
  BY DEF Leaves, dvcVars
<1>2. TakesUp
  BY <1>1 DEF IInv, AgentTypes, TakesUp
<1>3. PICK h \in Channels : h = at[a]
  BY DEF Leaves
<1>4. chan'[h].down = <<>> /\ \A g \in Channels \ {h} : chan'[g] = chan[g]
  BY <1>3 DEF Leaves, IInv, AgentTypes
<1>5. FlowsDown
  BY <1>4 DEF FlowsDown
<1> QED BY <1>1, <1>2, <1>5, SameFlow DEF LimitsInv, HistoryOK

LEMMA LoseMessageLimits == ASSUME IInv, LimitsInv, NEW a \in Instances, LoseMessage(a) PROVE LimitsInv'
<1>1. Works(a)
  BY TakingWorks DEF LoseMessage, IInv, agentVars
<1>2. UNCHANGED <<doing, journal, evicted, disk, ran, excused>>
  BY DEF LoseMessage, agentVars, journalVars, ghostVars
<1> QED BY <1>1, <1>2, WorksDown, SameFlow, QuietLimits

LEMMA StartLimits == ASSUME IInv, LimitsInv, NEW a \in Instances, Start(a) PROVE LimitsInv'
<1>1. Works(a)
  BY TakingWorks DEF Start, IInv
<1>2. UNCHANGED <<journal, evicted, disk, ran, excused>> /\ Free(a) /\ NextFor(a).cmd # "shutdown"
      /\ doing' = [doing EXCEPT ![a] = NextFor(a)]
  BY DEF Start, journalVars, ghostVars
<1>3. NextFor(a) \in Down(at[a]) /\ at[a] \in Channels
  <2>1. at[a] \in Channels /\ chan[at[a]].down \in Seq(Messages) /\ chan[at[a]].down # <<>>
    BY <1>2, Holding DEF Free, IInv
  <2>2. 1 \in DOMAIN chan[at[a]].down /\ chan[at[a]].down[1] = NextFor(a)
    BY <2>1 DEF NextFor
  <2> QED BY <2>1, <2>2 DEF Down
<1>4. NextFor(a).n \in Numbers
  BY <1>2, <1>3 DEF LimitsInv, NumbersOK, Numbered
<1>5. TakesUp
  BY <1>2, <1>4 DEF TakesUp, IInv, AgentTypes
<1> QED BY <1>1, <1>2, <1>5, WorksDown, QuietLimits

(* An answer from the journal may list a record in memory once more.       *)
LEMMA CachedLimits ==
  ASSUME IInv, LimitsInv, NEW a \in Instances, NEW id, NEW onDisk \in BOOLEAN, Cache(a, Lookup(a, id, onDisk)),
         Works(a), UNCHANGED <<doing, evicted, disk, ghostVars>>
  PROVE  LimitsInv'
<1>1. JournalsOK' /\ ran' \subseteq Numbers /\ excused' = excused
  BY JournalsCache DEF LimitsInv, HistoryOK, ghostVars
<1> QED BY <1>1, WorksDown, SameFlow, LimitsStay

LEMMA ReplayLimits == ASSUME IInv, LimitsInv, NEW a \in Instances, Replay(a) PROVE LimitsInv'
<1> DEFINE m == NextFor(a)
<1>1. PICK v \in {"ok", "failed", "reused"} : Says(a, Taken(a), m.id, Reply(v, a))
  BY DEF Replay
<1>2. /\ Free(a) /\ Holds(a) /\ Cache(a, Lookup(a, m.id, IsKeyed(m))) /\ IsKeyed(m) \in BOOLEAN
      /\ UNCHANGED <<dvcVars, alive, at, callerVars, doing, evicted, disk, ghostVars>>
  BY DEF Replay, Free, IsKeyed
<1>3. m \in Messages
  BY <1>2, Holding DEF IInv, Free
<1>4. Answer(m.id, Reply(v, a)) \in Answers
  BY <1>3, AgentsAnswers DEF Messages
<1>5. Works(a)
  BY <1>1, <1>2, <1>4, SayingWorks DEF IInv
<1> QED BY <1>2, <1>5, CachedLimits

LEMMA AnswerQueryLimits == ASSUME IInv, LimitsInv, NEW a \in Instances, AnswerQuery(a) PROVE LimitsInv'
<1> DEFINE m == NextFor(a)
<1>1. PICK v \in {"ok", "failed", "evicted", "unknown"} : Says(a, Taken(a), m.id, Reply(v, a))
  BY DEF AnswerQuery
<1>2. /\ Free(a) /\ Holds(a) /\ Cache(a, Lookup(a, Id(m.n, 0), TRUE))
      /\ UNCHANGED <<dvcVars, alive, at, callerVars, doing, evicted, disk, ghostVars>>
  BY DEF AnswerQuery, Free
<1>3. m \in Messages
  BY <1>2, Holding DEF IInv, Free
<1>4. Answer(m.id, Reply(v, a)) \in Answers
  BY <1>3, AgentsAnswers DEF Messages
<1>5. Works(a)
  BY <1>1, <1>2, <1>4, SayingWorks DEF IInv
<1> QED BY <1>2, <1>5, CachedLimits

LEMMA CompletedLimits ==
  ASSUME IInv, LimitsInv, NEW a \in Instances, doing[a] # NoMessage, NEW o \in Outcomes,
         NEW written \in BOOLEAN, NEW old \in SUBSET disk, Complete(a, o, written, old)
  PROVE  JournalsOK' /\ ran' \subseteq Numbers /\ excused' \subseteq excused \cup Keys \cup {NoKey}
<1>1. PICK m \in Messages : m = doing[a]
  BY DEF IInv, AgentTypes
<1> DEFINE e == Entry(m.id, m.cmd, o.ok)
<1>2. m.n \in Numbers /\ m.id \in MsgIds /\ m.id.key \in Keys \cup {NoKey}
      /\ (IsKeyed(m) => m.id \in KeyIds)
  BY <1>1, IdKeys DEF LimitsInv, NumbersOK, Messages, IsKeyed
<1>3. e \in Records /\ e.id = m.id
  BY <1>2 DEF Entry, Records, Messages, Outcomes
<1>4. Record(a, e) /\ ran' \in {ran, ran \cup {m.n}}
  BY <1>1 DEF Complete, TakesEffect
<1>5. \/ UNCHANGED <<disk, excused>>
      \/ IsKeyed(m) /\ Persist(a, e, written, old)
           /\ excused' \subseteq excused \cup {d.id.key : d \in old} \cup {m.id.key}
  BY <1>1 DEF Complete
<1> HIDE DEF e
<1>6. disk' \subseteq disk \/ (e.id \in KeyIds /\ disk' \subseteq disk \cup {e})
  BY <1>2, <1>3, <1>5 DEF Persist
<1>7. JournalsOK'
  BY <1>3, <1>4, <1>6, JournalsRecord DEF LimitsInv
<1>8. \A d \in old : d.id.key \in Keys
  BY DEF LimitsInv, JournalsOK, KeyedRecords, KeyIds, KeyId
<1>9. excused' \subseteq excused \cup Keys \cup {NoKey}
  BY <1>2, <1>5, <1>8
<1> QED BY <1>2, <1>4, <1>7, <1>9 DEF LimitsInv, HistoryOK

LEMMA ReportedLimits ==
  ASSUME IInv, LimitsInv, NEW a \in Instances, Holds(a), doing[a] # NoMessage, NEW o \in Outcomes,
         NEW written \in BOOLEAN, NEW old \in SUBSET disk, Complete(a, o, written, old), Reports(a, o)
  PROVE  LimitsInv'
<1>1. PICK v \in {"ok", "failed"} : Says(a, chan[at[a]], doing[a].id, Reply(v, a))
  BY DEF Reports
<1>2. doing' = [doing EXCEPT ![a] = NoMessage] /\ UNCHANGED <<dvcVars, alive, at, callerVars>>
  BY DEF Reports
<1>3. Answer(doing[a].id, Reply(v, a)) \in Answers
  BY AgentsAnswers DEF IInv, AgentTypes, Messages
<1>4. Works(a)
  BY <1>1, <1>2, <1>3, SayingWorks DEF IInv
<1>5. TakesUp
  BY <1>2 DEF IInv, AgentTypes, TakesUp
<1> QED BY <1>4, <1>5, CompletedLimits, WorksDown, LimitsStay

LEMMA FinishLimits == ASSUME IInv, LimitsInv, NEW a \in Instances, Finish(a) PROVE LimitsInv'
<1>1. PICK o \in Outcomes : Complete(a, o, TRUE, {}) /\ Reports(a, o)
  BY DEF Finish
<1>2. {} \in SUBSET disk
  OBVIOUS
<1> QED BY <1>1, <1>2, ReportedLimits DEF Finish

LEMMA FinishUnrecordedLimits ==
  ASSUME IInv, LimitsInv, NEW a \in Instances, FinishUnrecorded(a) PROVE LimitsInv'
<1>1. doing[a] # NoMessage
  BY DEF FinishUnrecorded, IsKeyed, NoMessage, ShutdownId
<1> QED BY <1>1, ReportedLimits DEF FinishUnrecorded

LEMMA FinishUnheardLimits ==
  ASSUME IInv, LimitsInv, NEW a \in Instances, FinishUnheard(a) PROVE LimitsInv'
<1>1. PICK o \in Outcomes : Complete(a, o, TRUE, {})
  BY DEF FinishUnheard
<1>2. Leaves(a) /\ doing[a] # NoMessage
  BY HangingLeaves DEF FinishUnheard, IInv
<1>3. {} \in SUBSET disk
  OBVIOUS
<1>4. JournalsOK' /\ ran' \subseteq Numbers /\ excused' \subseteq excused \cup Keys \cup {NoKey}
  BY <1>1, <1>2, <1>3, CompletedLimits
<1> QED BY <1>2, <1>4, LeavesDown, LimitsStay

LEMMA ExitLimits == ASSUME IInv, LimitsInv, NEW a \in Instances, Exit(a) PROVE LimitsInv'
<1>1. UNCHANGED <<pending, stopping, doing, journal, evicted, disk, ran, excused>> /\ Free(a)
  BY DEF Exit, dvcVars, journalVars, ghostVars
<1>2. PICK h \in Channels : h = at[a]
  BY <1>1, Holding DEF Free, IInv
<1> DEFINE x == Answer(ShutdownId, Reply("ok", a))
<1>3. x \in Answers /\ chan[h].up \in Ups
  BY AgentsAnswers, IdleMessages, DownOf DEF ShutdownRequest, Messages, IInv
<1>4. <<x, Closing>> \in Seq({Closing} \cup Answers)
  BY <1>3, LastWords
<1> DEFINE words == <<x, Closing>>
<1>5. chan' = [chan EXCEPT ![h] = Deserting(a, words)]
  BY <1>2 DEF Exit
<1> HIDE DEF x, words
<1>6. Deserting(a, words).down = <<>>
  <2>1. words \in Seq({Closing} \cup Answers) /\ Holds(a) /\ AgentTypes
    BY <1>1, <1>4 DEF Free, IInv, words
  <2>2. Deserting(a, words) = [agent |-> chan[at[a]].agent, down |-> <<>>, up |-> chan[at[a]].up \o words]
    BY <2>1, Departing
  <2> QED BY <2>2
<1>7. chan'[h].down = <<>> /\ \A g \in Channels \ {h} : chan'[g] = chan[g]
  BY <1>5, <1>6 DEF IInv, AgentTypes
<1>8. FlowsDown
  BY <1>7 DEF FlowsDown
<1>9. stopping'.count <= MaxStops
  BY <1>1 DEF LimitsInv, HistoryOK
<1> QED BY <1>1, <1>8, <1>9, SameFlow, QuietLimits

LEMMA ChannelFailsLimits == ASSUME IInv, LimitsInv, NEW a \in Instances, ChannelFails(a) PROVE LimitsInv'
<1>1. doing' = [doing EXCEPT ![a] = NoMessage]
  BY DEF ChannelFails, IInv, AgentTypes
<1>2. Leaves(a)
  BY <1>1, HangingLeaves DEF ChannelFails, IInv
<1>3. UNCHANGED <<journal, evicted, disk, ran, excused>>
  BY DEF ChannelFails, journalVars, ghostVars
<1> QED BY <1>2, <1>3, LeavesDown, QuietLimits

LEMMA DieLimits == ASSUME IInv, LimitsInv, NEW a \in Instances, Die(a) PROVE LimitsInv'
<1>1. /\ alive' = alive \ {a} /\ doing' = [doing EXCEPT ![a] = NoMessage]
      /\ UNCHANGED <<dvcVars, journal, evicted, disk, callerVars>>
  BY DEF Die, journalVars
<1>2. PICK m \in Messages : m = doing[a]
  BY DEF IInv, AgentTypes
<1>3. \/ UNCHANGED <<ran, excused>>
      \/ m # NoMessage /\ ran' = ran \cup {m.n} /\ excused' = excused \cup {m.id.key}
  BY <1>2 DEF Die, TakesEffect, ghostVars
<1>4. m # NoMessage => m.n \in Numbers
  BY <1>2 DEF LimitsInv, NumbersOK
<1>5. m.id.key \in Keys \cup {NoKey}
  BY IdKeys DEF Messages
<1>6. JournalsOK' /\ ran' \subseteq Numbers /\ excused' \subseteq excused \cup Keys \cup {NoKey}
  BY <1>1, <1>3, <1>4, <1>5, JournalsKept DEF LimitsInv, HistoryOK
<1>7. CASE at[a] = None
  <2>1. UNCHANGED <<chan, pending, stopping>>
    BY <1>1, <1>7 DEF Die, dvcVars
  <2>2. TakesUp
    BY <1>1 DEF TakesUp, IInv, AgentTypes
  <2>3. stopping'.count <= MaxStops
    BY <2>1 DEF LimitsInv, HistoryOK
  <2> QED BY <1>6, <2>1, <2>2, <2>3, SameFlow, LimitsStay
<1>8. CASE at[a] # None
  <2>1. Leaves(a)
    BY <1>1, <1>8, HangingLeaves DEF Die, Holds, IInv
  <2> QED BY <1>6, <2>1, LeavesDown, LimitsStay
<1> QED BY <1>7, <1>8

LEMMA InitLimits == RequestsInit => LimitsInv
<1> SUFFICES ASSUME RequestsInit PROVE LimitsInv
  OBVIOUS
<1> USE DEF RequestsInit
<1>1. JournalsOK
  <2>1. \A a \in Instances : journal[a] = <<>> /\ evicted[a] = <<>>
    OBVIOUS
  <2>2. <<>> \in Seq(Records) /\ <<>> \in Seq(MsgIds) /\ Len(<<>>) = 0 /\ ReadBack(<<>>)
    BY DEF ReadBack
  <2> QED BY <2>1, <2>2, LimitsAssumption DEF JournalsOK, KeyedRecords
<1>2. WaitersOK
  BY DEF WaitersOK
<1>3. NumbersOK
  BY DEF NumbersOK, Down
<1>4. HistoryOK
  BY LimitsAssumption DEF HistoryOK
<1> QED BY <1>1, <1>2, <1>3, <1>4 DEF LimitsInv

LEMMA NextLimits == ASSUME IInv, LimitsInv, [RequestsNext]_requestVars PROVE LimitsInv'
<1>1. CASE UNCHANGED requestVars
  <2>1. UNCHANGED <<pending, stopping, chan, doing, journal, evicted, disk, ran, excused>>
    BY <1>1 DEF requestVars, dvcVars, agentVars, journalVars, ghostVars
  <2>2. stopping'.count <= MaxStops
    BY <2>1 DEF LimitsInv, HistoryOK
  <2> QED BY <2>1, <2>2, SameFlow, QuietLimits
<1>2. ASSUME NEW c \in Callers, CallerStep(c) \/ \E r \in Requests : Ask(c, r) PROVE LimitsInv'
  BY <1>2, SendLimits, CallersLimits DEF CallerStep
<1>3. ASSUME NEW h \in Channels, Processor(h) \/ \E a \in Instances : Open(a, h) PROVE LimitsInv'
  BY <1>3, ProcessorLimits, OpenLimits
<1>4. ASSUME NEW a \in Instances, AgentStep(a) PROVE LimitsInv'
  BY <1>4, ReplayLimits, StartLimits, FinishLimits, AnswerQueryLimits, ExitLimits DEF AgentStep
<1>5. ASSUME NEW a \in Instances, Fault(a) PROVE LimitsInv'
  BY <1>5, FinishUnrecordedLimits, LoseMessageLimits, FinishUnheardLimits, ChannelFailsLimits, DieLimits DEF Fault
<1> QED BY <1>1, <1>2, <1>3, <1>4, <1>5, StopAgentLimits, ReleaseLimits DEF RequestsNext, Calm

(* The state keeps its ranges, for any number of callers, agents and       *)
(* requests: the journal's memory tier never exceeds its limit but by      *)
(* records read back from disk, one per key (Add-JournaledResult,          *)
(* Get-JournalEntry), and its eviction memory never exceeds its own.       *)
THEOREM RequestsTypeCorrect ==
  ASSUME IsFiniteSet(Keys)
  PROVE  RequestsSpec => []RequestsTypeOK
<1>1. ASSUME IInv, LimitsInv
      PROVE  RequestsTypeOK
  <2>1. /\ primary \in 0 .. MaxChannels /\ extras \subseteq Channels /\ handshake \in Instances \cup {NoCaller}
        /\ alive \subseteq Instances /\ at \in [Instances -> 0 .. MaxChannels]
        /\ ran \subseteq Numbers /\ excused \subseteq Keys \cup {NoKey}
    BY <1>1 DEF IInv, DaemonTypes, AgentTypes, LimitsInv, HistoryOK
  <2>2. DOMAIN pending \subseteq Ids /\ \A id \in DOMAIN pending : pending[id] \in Callers
    BY <1>1, IdKeys DEF LimitsInv, WaitersOK
  <2>3. stopping \in [channel : 0 .. MaxChannels, count : 0 .. MaxStops]
    <3>1. stopping \in [channel : 0 .. MaxChannels, count : Nat] /\ stopping.count <= MaxStops
      BY <1>1 DEF IInv, DaemonTypes, LimitsInv, HistoryOK
    <3>2. stopping.count \in 0 .. MaxStops
      BY <3>1, LimitsAssumption
    <3> QED BY <3>1, <3>2
  <2>4. \A a \in Instances : /\ Len(journal[a]) <= JournalLimit + Cardinality(Keys)
                              /\ Len(evicted[a]) <= EvictedLimit
    BY <1>1, JournalBound DEF LimitsInv, JournalsOK
  <2>5. /\ Len(asks) <= MaxRequests /\ \A n \in DOMAIN asks : asks[n] \in Requests
        /\ pc \in [Callers -> {"idle", "ready", "waiting", "expired"}]
        /\ my \in [Callers -> [n : 0 .. MaxRequests, attempt : 0 .. Attempts,
                               sentTo : Instances \cup {NoCaller}]]
        /\ reply \in [Callers -> Replies]
    BY <1>1 DEF IInv, CallerTypes
  <2> QED BY <2>1, <2>2, <2>3, <2>4, <2>5 DEF RequestsTypeOK
<1>2. IInv /\ LimitsInv /\ [RequestsNext]_requestVars => LimitsInv'
  BY NextLimits
<1> QED BY <1>1, <1>2, InitLimits, Invariance, PTL DEF RequestsSpec

=============================================================================
