----------------------- MODULE DaemonSession_proofs -----------------------
(***************************************************************************)
(* What DaemonSession guarantees for any number of clients, any bounds and *)
(* any set of requests.                                                    *)
(***************************************************************************)
EXTENDS DaemonSession, TLAPS

USE RequestsAssumption, MaxShortAssumption, BoundsAssumption
    DEF RequestsAssumption, MaxShortAssumption, BoundsAssumption

-----------------------------------------------------------------------------
(* The inductive invariant, in named parts.                                *)

(* The actor runs a connect that has claimed its generation.               *)
HoldSteps == ConnectSteps \cup Outcomes \cup {"succeeded", "clearDrop"}

Holding(a) == pc[a] \in HoldSteps

(* A connect under way, or a reconnect decided on, has a request to serve. *)
WithRequest == {"publish", "asleep", "ready", "claim", "connected"} \cup ConnectSteps

RequestHeld == \A a \in Actors : pc[a] \in WithRequest => req[a] \in Requests

(* A claimed generation is newer than the drop the connect set out from.   *)
Claimed ==
  \A a \in Actors :
    /\ mine[a] # 0 <=> Holding(a)
    /\ mine[a] <= generation /\ before[a] <= generation
    /\ Holding(a) => before[a] < mine[a]

(* No two connects claim the same generation.                              *)
Distinct ==
  \A a, b \in Actors : mine[a] = mine[b] /\ mine[a] # 0 => a = b

(* Nothing is owned by a connect that has yet to claim its generation.     *)
Bounded == slot <= generation /\ automation <= generation /\ lastDrop <= generation

(* Only sessions that existed have a teardown task.                        *)
Born == \A g \in Gens : pc[g] # "unborn" => g <= generation

(* A session enters the slot only at its own connect's store.              *)
BeforeStore == {"takeOld", "clean", "prepare", "rdp", "store"}

NotStoredYet == \A a \in Actors : pc[a] \in BeforeStore => slot # mine[a]

IInv ==
  /\ TypeOK /\ RequestHeld
  /\ Claimed /\ Distinct /\ Bounded /\ Born /\ NotStoredYet
  /\ NoOrphanSession /\ CurrentDropIsHandled /\ DropEvidenceKept

-----------------------------------------------------------------------------
(* The operations of AutoReconnect are closed on its state.                *)

LEMMA DefaultType == Default \in AutoReconnectState
BY DEF Default, AutoReconnectState

LEMMA RememberType ==
  ASSUME NEW r \in Requests
  PROVE  Remember(r) \in AutoReconnectState
<1>1. r.auto \in BOOLEAN
  OBVIOUS
<1>2. [Default EXCEPT !.enabled = r.auto, !.request = r] \in AutoReconnectState
  BY <1>1, DefaultType DEF AutoReconnectState
<1> QED
  BY <1>2 DEF Remember

LEMMA AutoTypes ==
  ASSUME NEW s \in AutoReconnectState
  PROVE  /\ Stop(s) \in AutoReconnectState
         /\ StandDown(s) \in AutoReconnectState
         /\ NoteSuccess(s) \in AutoReconnectState
         /\ Disarm(s) \in AutoReconnectState
         /\ [s EXCEPT !.scheduled = TRUE] \in AutoReconnectState
         /\ \A b \in BOOLEAN : [s EXCEPT !.inFlight = b] \in AutoReconnectState
BY DEF Stop, StandDown, NoteSuccess, Disarm, AutoReconnectState

LEMMA NoteOutageType ==
  ASSUME NEW s \in AutoReconnectState, NEW short \in BOOLEAN
  PROVE  NoteOutage(s, short) \in AutoReconnectState
<1>1. CASE ~short
  BY <1>1 DEF NoteOutage, AutoReconnectState
<1>2. CASE short /\ s.short + 1 >= MaxShort
  <2>1. Stop(s) \in AutoReconnectState
    BY AutoTypes
  <2>2. [Stop(s) EXCEPT !.short = MaxShort] \in AutoReconnectState
    BY <2>1 DEF AutoReconnectState
  <2> QED
    BY <1>2, <2>2 DEF NoteOutage
<1>3. CASE short /\ ~(s.short + 1 >= MaxShort)
  <2>1. s.short + 1 \in 0 .. MaxShort
    BY <1>3 DEF AutoReconnectState
  <2>2. [s EXCEPT !.short = @ + 1] \in AutoReconnectState
    BY <2>1 DEF AutoReconnectState
  <2> QED
    BY <1>3, <2>2 DEF NoteOutage
<1> QED
  BY <1>1, <1>2, <1>3

-----------------------------------------------------------------------------
LEMMA KillType ==
  ASSUME TypeOK, NEW S, Kill(S)
  PROVE  /\ life' \in [Gens -> {"none", "live", "dropped", "closed"}]
         /\ unsent' \subseteq Gens
BY DEF TypeOK, Kill

LEMMA EndConnectType ==
  ASSUME TypeOK, NEW a \in Actors, EndConnect(a)
  PROVE  /\ mine' \in [Actors -> 0 .. MaxGen]
         /\ req' \in [Actors -> Requests \cup {NoRequest}]
         /\ before' \in [Actors -> 0 .. MaxGen]
BY DEF TypeOK, EndConnect

LEMMA InitType == Init => TypeOK
<1> SUFFICES ASSUME Init PROVE TypeOK
  OBVIOUS
<1>1. auto \in AutoReconnectState
  BY DefaultType DEF Init
<1>2. /\ pc \in [Actors -> ClientSteps \cup TaskSteps]
      /\ \A c \in Clients : pc[c] \in ClientSteps
      /\ \A g \in Gens : pc[g] \in TaskSteps
  BY DEF Init, Actors, ClientSteps, TaskSteps
<1>3. events \in Seq(Gens) /\ Len(events) <= EventCap
  BY DEF Init
<1> QED
  BY <1>1, <1>2, <1>3 DEF Init, TypeOK

-----------------------------------------------------------------------------
(* Every step preserves the types.                                         *)

LEMMA UserType ==
  ASSUME TypeOK, NEW c \in Clients, UserStep(c)
  PROVE  TypeOK'
<1>1. CASE \E r \in Requests : UserConnect(c, r)
  BY <1>1 DEF UserConnect, Goto, TypeOK, Actors, ClientSteps, TaskSteps, ConnectSteps,
     Outcomes,
     countVars, sessionVars, noticeVars, autoVars, resourceVars, handlerVars, taskVars
<1>2. CASE UserConnectInvalid(c)
  BY <1>2 DEF UserConnectInvalid, Goto, TypeOK, Actors, ClientSteps, TaskSteps,
     ConnectSteps, Outcomes,
     countVars, sessionVars, noticeVars, autoVars, resourceVars, handlerVars, taskVars
<1>3. CASE UserDisconnect(c)
  BY SMTT(30), <1>3 DEF UserDisconnect, Goto, TypeOK, Actors, ClientSteps, TaskSteps,
     ConnectSteps, Outcomes,
     countVars, sessionVars, noticeVars, autoVars, resourceVars, handlerVars, taskVars
<1> QED
  BY <1>1, <1>2, <1>3 DEF UserStep

LEMMA ClientType ==
  ASSUME TypeOK, RequestHeld, NEW c \in Clients, ClientStep(c)
  PROVE  TypeOK'
<1>1. CASE DisarmStep(c)
  BY <1>1, AutoTypes DEF DisarmStep, Goto, TypeOK, Actors, ClientSteps, TaskSteps,
     ConnectSteps, Outcomes,
     countVars, sessionVars, noticeVars, autoVars, resourceVars, handlerVars, taskVars
<1>2. CASE DisconnectStream(c)
  BY <1>2 DEF DisconnectStream, Goto, TypeOK, Actors, ClientSteps, TaskSteps,
     ConnectSteps, Outcomes,
     countVars, sessionVars, noticeVars, autoVars, resourceVars, handlerVars, taskVars
<1>3. CASE DisconnectAutomation(c)
  BY <1>3 DEF DisconnectAutomation, Goto, TypeOK, Actors, ClientSteps, TaskSteps,
     ConnectSteps, Outcomes,
     countVars, sessionVars, noticeVars, autoVars, resourceVars, handlerVars, taskVars
<1>4. CASE DisconnectSlot(c)
  <2>1. /\ life' \in [Gens -> {"none", "live", "dropped", "closed"}]
        /\ unsent' \subseteq Gens
    BY <1>4, KillType DEF DisconnectSlot
  <2> QED
    BY <1>4, <2>1 DEF DisconnectSlot, Goto, TypeOK, Actors, ClientSteps,
       countVars, noticeVars, autoVars, resourceVars, handlerVars, taskVars
<1>5. CASE RememberRequest(c)
  <2>1. req[c] \in Requests
    BY <1>5 DEF RememberRequest, Goto, RequestHeld, WithRequest, Actors
  <2>2. auto' \in AutoReconnectState
    BY <1>5, <2>1, RememberType DEF RememberRequest
  <2>3. Goto(c, "connected", "clearDrop")
    BY <1>5 DEF RememberRequest
  <2>4. UNCHANGED <<countVars, sessionVars, noticeVars, lateClear, resourceVars,
                    handlerVars, taskVars>>
    BY <1>5 DEF RememberRequest
  <2> QED
    BY <2>2, <2>3, <2>4 DEF Goto, TypeOK, Actors, ClientSteps,
       countVars, sessionVars, noticeVars, resourceVars, handlerVars, taskVars
<1>6. CASE ReportFailure(c)
  BY <1>6, EndConnectType DEF ReportFailure, Goto, TypeOK, Actors, ClientSteps,
     TaskSteps, ConnectSteps, Outcomes,
     countVars, sessionVars, noticeVars, autoVars, resourceVars, handlerVars, taskVars
<1> QED
  BY <1>1, <1>2, <1>3, <1>4, <1>5, <1>6 DEF ClientStep

LEMMA ConnectType ==
  ASSUME TypeOK, NEW a \in Actors, ConnectStep(a)
  PROVE  TypeOK'
<1>1. CASE ClaimGeneration(a)
  BY <1>1 DEF ClaimGeneration, Goto, TypeOK, Actors, ClientSteps, TaskSteps,
     ConnectSteps, Outcomes,
     countVars, sessionVars, noticeVars, autoVars, resourceVars, handlerVars, taskVars
<1>2. CASE TakeOld(a)
  <2>1. /\ life' \in [Gens -> {"none", "live", "dropped", "closed"}]
        /\ unsent' \subseteq Gens
    BY <1>2, KillType DEF TakeOld
  <2> QED
    BY <1>2, <2>1 DEF TakeOld, Goto, TypeOK, Actors, ClientSteps, TaskSteps,
       ConnectSteps,
       countVars, noticeVars, autoVars, resourceVars, handlerVars, taskVars
<1>3. CASE CleanAutomation(a)
  BY <1>3 DEF CleanAutomation, Goto, TypeOK, Actors, ClientSteps, TaskSteps,
     ConnectSteps, Outcomes,
     countVars, sessionVars, noticeVars, autoVars, resourceVars, handlerVars, taskVars
<1>4. CASE PrepareAutomation(a)
  BY <1>4 DEF PrepareAutomation, Goto, TypeOK, Actors, ClientSteps, TaskSteps,
     ConnectSteps, Outcomes,
     countVars, sessionVars, noticeVars, autoVars, resourceVars, handlerVars, taskVars
<1>5. CASE RdpConnect(a)
  BY <1>5 DEF RdpConnect, Goto, TypeOK, Actors, ClientSteps, TaskSteps, ConnectSteps,
     Outcomes,
     countVars, sessionVars, noticeVars, autoVars, resourceVars, handlerVars, taskVars
<1>6. CASE RdpConnectFails(a)
  BY <1>6 DEF RdpConnectFails, Goto, TypeOK, Actors, ClientSteps, TaskSteps,
     ConnectSteps, Outcomes,
     countVars, sessionVars, noticeVars, autoVars, resourceVars, handlerVars, taskVars
<1>7. CASE StoreSession(a)
  BY <1>7, KillType DEF StoreSession, Goto, TypeOK, Actors, ClientSteps, TaskSteps,
     ConnectSteps, Outcomes,
     countVars, sessionVars, noticeVars, autoVars, resourceVars, handlerVars, taskVars
<1>8. CASE RefuseDeadSession(a)
  BY <1>8, KillType DEF RefuseDeadSession, Goto, TypeOK, Actors, ClientSteps,
     TaskSteps, ConnectSteps, Outcomes,
     countVars, sessionVars, noticeVars, autoVars, resourceVars, handlerVars, taskVars
<1>9. CASE StartStream(a)
  <2>1. ws' \in 0 .. MaxGen /\ clip' \in 0 .. MaxGen
    BY <1>9 DEF StartStream, TypeOK
  <2> QED
    BY <1>9, <2>1 DEF StartStream, Goto, TypeOK, Actors, ClientSteps, TaskSteps,
       ConnectSteps, countVars, sessionVars, noticeVars, autoVars, handlerVars, taskVars
<1>10. CASE ProbeDrop(a)
  BY <1>10 DEF ProbeDrop, Goto, TypeOK, Actors, ClientSteps, TaskSteps, ConnectSteps,
     Outcomes,
     countVars, sessionVars, noticeVars, autoVars, resourceVars, handlerVars, taskVars
<1>11. CASE ConfirmSlot(a)
  BY <1>11 DEF ConfirmSlot, Goto, TypeOK, Actors, ClientSteps, TaskSteps,
     ConnectSteps, Outcomes,
     countVars, sessionVars, noticeVars, autoVars, resourceVars, handlerVars, taskVars
<1>12. CASE ForgetDrop(a)
  <2>1. /\ mine' \in [Actors -> 0 .. MaxGen]
        /\ req' \in [Actors -> Requests \cup {NoRequest}]
        /\ before' \in [Actors -> 0 .. MaxGen]
    BY <1>12, EndConnectType DEF ForgetDrop
  <2>2. lastDrop' \in 0 .. MaxGen
    BY <1>12 DEF ForgetDrop, TypeOK
  <2> QED
    BY <1>12, <2>1, <2>2 DEF ForgetDrop, Goto, TypeOK, Actors, ClientSteps, TaskSteps,
       countVars, sessionVars, autoVars, resourceVars, taskVars
<1> QED
  BY <1>1, <1>2, <1>3, <1>4, <1>5, <1>6, <1>7, <1>8, <1>9, <1>10, <1>11, <1>12 DEF
     ConnectStep

LEMMA TaskType ==
  ASSUME TypeOK, NEW g \in Gens, TaskStep(g)
  PROVE  TypeOK'
<1>1. CASE TearSlot(g)
  <2>1. /\ life' \in [Gens -> {"none", "live", "dropped", "closed"}]
        /\ unsent' \subseteq Gens
        /\ slot' \in 0 .. MaxGen
    BY <1>1, KillType DEF TearSlot, sessionVars, TypeOK
  <2>2. \E to \in TaskSteps : Goto(g, "tearSlot", to)
    BY <1>1 DEF TearSlot, TaskSteps
  <2>3. UNCHANGED <<countVars, noticeVars, autoVars, resourceVars, handlerVars, taskVars>>
    BY <1>1 DEF TearSlot
  <2> QED
    BY SMTT(30), <2>1, <2>2, <2>3 DEF Goto, TypeOK, Actors,
       countVars, noticeVars, autoVars, resourceVars, handlerVars, taskVars
<1>2. CASE CheckStream(g)
  BY <1>2 DEF CheckStream, Goto, TypeOK, Actors, ClientSteps, TaskSteps, ConnectSteps,
     Outcomes,
     countVars, sessionVars, noticeVars, autoVars, resourceVars, handlerVars, taskVars
<1>3. CASE TearStream(g)
  BY <1>3 DEF TearStream, Goto, TypeOK, Actors, ClientSteps, TaskSteps, ConnectSteps,
     Outcomes,
     countVars, sessionVars, noticeVars, autoVars, resourceVars, handlerVars, taskVars
<1>4. CASE TearClip(g)
  BY <1>4 DEF TearClip, Goto, TypeOK, Actors, ClientSteps, TaskSteps, ConnectSteps,
     Outcomes,
     countVars, sessionVars, noticeVars, autoVars, resourceVars, handlerVars, taskVars
<1>5. CASE TearAutomation(g)
  BY <1>5 DEF TearAutomation, Goto, TypeOK, Actors, ClientSteps, TaskSteps,
     ConnectSteps, Outcomes,
     countVars, sessionVars, noticeVars, autoVars, resourceVars, handlerVars, taskVars
<1>6. CASE BeginOutageStep(g)
  <2>1. auto' \in AutoReconnectState
    <3>1. CASE UNCHANGED auto
      BY <3>1 DEF TypeOK
    <3>2. CASE ~ UNCHANGED auto
      <4>1. PICK short \in {FALSE, auto.reconnected} : auto' = NoteOutage(auto, short)
        BY <1>6, <3>2 DEF BeginOutageStep, BeginOutage
      <4>2. auto \in AutoReconnectState /\ short \in BOOLEAN
        BY <4>1 DEF TypeOK, AutoReconnectState
      <4> QED
        BY <4>1, <4>2, NoteOutageType
    <3> QED
      BY <3>1, <3>2
  <2>2. \E to \in TaskSteps : Goto(g, "beginOutage", to)
    BY <1>6 DEF BeginOutageStep, BeginOutage, TaskSteps
  <2>3. UNCHANGED <<countVars, sessionVars, noticeVars, lateClear, resourceVars,
                    handlerVars, taskVars>>
    BY <1>6 DEF BeginOutageStep
  <2> QED
    BY <2>1, <2>2, <2>3 DEF Goto, TypeOK, Actors,
       countVars, sessionVars, noticeVars, resourceVars, handlerVars, taskVars
<1>7. CASE Decide(g)
  <2>1. \E to \in TaskSteps : Goto(g, "decide", to)
    BY <1>7 DEF Decide, Verdict, TaskSteps
  <2>2. req' \in [Actors -> Requests \cup {NoRequest}]
    BY <1>7 DEF Decide, TypeOK, AutoReconnectState
  <2> QED
    BY <1>7, <2>1, <2>2 DEF Decide, Goto, TypeOK, Actors,
       countVars, sessionVars, noticeVars, autoVars, resourceVars, taskVars
<1>8. CASE Publish(g)
  BY <1>8, AutoTypes DEF Publish, Goto, TypeOK, Actors, ClientSteps, TaskSteps,
     ConnectSteps, Outcomes,
     countVars, sessionVars, noticeVars, autoVars, resourceVars, handlerVars, taskVars
<1>9. CASE Wake(g)
  BY <1>9 DEF Wake, Verdict, Goto, TypeOK, Actors, ClientSteps, TaskSteps,
     ConnectSteps, Outcomes,
     countVars, sessionVars, noticeVars, autoVars, resourceVars, handlerVars, taskVars
<1>10. CASE StandDownStep(g)
  BY <1>10, AutoTypes DEF StandDownStep, Goto, TypeOK, Actors, ClientSteps, TaskSteps,
     ConnectSteps, Outcomes,
     countVars, sessionVars, noticeVars, autoVars, resourceVars, handlerVars, taskVars
<1>11. CASE ClaimInFlight(g)
  BY <1>11, AutoTypes DEF ClaimInFlight, Goto, TypeOK, Actors, ClientSteps, TaskSteps,
     ConnectSteps, Outcomes,
     countVars, sessionVars, noticeVars, autoVars, resourceVars, handlerVars, taskVars
<1>12. CASE EndAttempt(g)
  <2>1. /\ mine' \in [Actors -> 0 .. MaxGen]
        /\ req' \in [Actors -> Requests \cup {NoRequest}]
        /\ before' \in [Actors -> 0 .. MaxGen]
    BY <1>12, EndConnectType DEF EndAttempt, TypeOK, handlerVars, Actors
  <2>2. \E from, to \in TaskSteps : Goto(g, from, to)
    BY <1>12 DEF EndAttempt, AfterAttempt, Outcomes, TaskSteps
  <2>3. auto' \in AutoReconnectState /\ lateClear' \subseteq Gens
    BY <1>12, AutoTypes DEF EndAttempt, ReleaseInFlight, TypeOK
  <2>4. base' \in [Gens -> 0 .. MaxGen]
    BY <1>12 DEF EndAttempt, TypeOK
  <2>5. /\ pc' \in [Actors -> ClientSteps \cup TaskSteps]
        /\ \A c \in Clients : pc'[c] \in ClientSteps
        /\ \A h \in Gens : pc'[h] \in TaskSteps
    BY <2>2, BoundsAssumption DEF Goto, TypeOK, Actors
  <2>6. UNCHANGED <<countVars, sessionVars, noticeVars, resourceVars, armSerial>>
    BY <1>12 DEF EndAttempt
  <2> QED
    BY <2>1, <2>3, <2>4, <2>5, <2>6 DEF TypeOK, countVars, sessionVars, noticeVars,
       resourceVars
<1>13. CASE NoteReconnected(g)
  BY <1>13, AutoTypes DEF NoteReconnected, Goto, TypeOK, Actors, ClientSteps,
     TaskSteps, ConnectSteps, Outcomes,
     countVars, sessionVars, noticeVars, autoVars, resourceVars, handlerVars, taskVars
<1>14. CASE GiveUp(g)
  BY <1>14, AutoTypes DEF GiveUp, Goto, TypeOK, Actors, ClientSteps, TaskSteps,
     ConnectSteps, Outcomes,
     countVars, sessionVars, noticeVars, autoVars, resourceVars, handlerVars, taskVars
<1> QED
  BY <1>1, <1>2, <1>3, <1>4, <1>5, <1>6, <1>7, <1>8, <1>9, <1>10, <1>11, <1>12, <1>13,
     <1>14 DEF TaskStep

LEMMA DropType ==
  ASSUME TypeOK, NEW g \in Gens, SessionDrops(g) \/ SendNotification(g) \/
     HandleDrop(g) \/ LateClear(g) \/ IgnoreStaleDrop
  PROVE  TypeOK'
<1>1. CASE SessionDrops(g)
  BY <1>1 DEF SessionDrops, Goto, TypeOK, Actors, ClientSteps, TaskSteps,
     ConnectSteps, Outcomes,
     countVars, sessionVars, noticeVars, autoVars, resourceVars, handlerVars, taskVars
<1>2. CASE SendNotification(g)
  BY SMTT(30), <1>2 DEF SendNotification, Goto, TypeOK, Actors, ClientSteps, TaskSteps,
     ConnectSteps, Outcomes,
     countVars, sessionVars, noticeVars, autoVars, resourceVars, handlerVars, taskVars
<1>3. CASE HandleDrop(g)
  <2>1. events' \in Seq(Gens) /\ Len(events') <= EventCap
    BY <1>3 DEF HandleDrop, TypeOK
  <2>2. /\ armSerial' \in [Gens -> 0 .. MaxSerial]
        /\ base' \in [Gens -> 0 .. MaxGen]
        /\ lastDrop' \in 0 .. MaxGen
    BY <1>3 DEF HandleDrop, TypeOK, Gens
  <2> QED
    BY <1>3, <2>1, <2>2 DEF HandleDrop, Goto, TypeOK, Actors, TaskSteps,
       countVars, sessionVars, autoVars, resourceVars, handlerVars
<1>4. CASE LateClear(g)
  BY <1>4, AutoTypes DEF LateClear, Goto, TypeOK, Actors, ClientSteps, TaskSteps,
     ConnectSteps, Outcomes,
     countVars, sessionVars, noticeVars, autoVars, resourceVars, handlerVars, taskVars
<1>5. CASE IgnoreStaleDrop
  <2>1. events' \in Seq(Gens) /\ Len(events') <= EventCap
    BY <1>5 DEF IgnoreStaleDrop, TypeOK
  <2> QED
    BY <1>5, <2>1 DEF IgnoreStaleDrop, TypeOK,
       countVars, sessionVars, autoVars, resourceVars, handlerVars, taskVars
<1> QED
  BY <1>1, <1>2, <1>3, <1>4, <1>5

LEMMA PanicType ==
  ASSUME TypeOK, NEW a \in Actors, ConnectPanics(a)
  PROVE  TypeOK'
<1>1. PICK step \in ConnectSteps :
        pc[a] = step /\ pc' = [pc EXCEPT ![a] = IF a \in Clients THEN "idle" ELSE "done"]
  BY DEF ConnectPanics, Goto
<1>2. /\ mine' \in [Actors -> 0 .. MaxGen]
      /\ req' \in [Actors -> Requests \cup {NoRequest}]
      /\ before' \in [Actors -> 0 .. MaxGen]
  BY EndConnectType DEF ConnectPanics
<1>3. /\ life' \in [Gens -> {"none", "live", "dropped", "closed"}]
      /\ unsent' \subseteq Gens
  <2>1. CASE pc[a] = "store"
    BY <2>1, KillType DEF ConnectPanics
  <2>2. CASE pc[a] # "store"
    BY <2>2 DEF ConnectPanics, TypeOK
  <2> QED
    BY <2>1, <2>2
<1>4. auto' \in AutoReconnectState /\ lateClear' \subseteq Gens
  <2>1. CASE a \in Clients
    BY <2>1 DEF ConnectPanics, TypeOK, autoVars
  <2>2. CASE a \notin Clients
    BY <2>2, AutoTypes DEF ConnectPanics, ReleaseInFlight, TypeOK, Actors
  <2> QED
    BY <2>1, <2>2
<1>5. UNCHANGED <<countVars, slot, noticeVars, resourceVars, taskVars>>
  BY DEF ConnectPanics
<1>6. /\ pc' \in [Actors -> ClientSteps \cup TaskSteps]
      /\ \A c \in Clients : pc'[c] \in ClientSteps
      /\ \A g \in Gens : pc'[g] \in TaskSteps
  BY <1>1 DEF TypeOK, Actors, ClientSteps, TaskSteps
<1> QED
  BY <1>2, <1>3, <1>4, <1>5, <1>6 DEF TypeOK, countVars, noticeVars, resourceVars,
     taskVars

-----------------------------------------------------------------------------
(* What steps have in common.                                              *)

(* A step that only moves its actor, between places the invariant does not *)
(* tell apart.                                                             *)
LEMMA Move ==
  ASSUME IInv, TypeOK', NEW a \in Actors, NEW from, NEW to, Goto(a, from, to),
         UNCHANGED <<generation, sessionVars, noticeVars, mine, req, before>>,
         automation' <= generation,
         from \notin {"unborn", "store"}, to # "unborn", to # "tearSlot",
         from = "tearSlot" => a # generation,
         to \in HoldSteps <=> from \in HoldSteps,
         to \in WithRequest => from \in WithRequest,
         to \in BeforeStore => from \in BeforeStore
  PROVE  IInv'
<1> USE DEF Goto, sessionVars, noticeVars
<1>1. RequestHeld'
  BY DEF IInv, TypeOK, RequestHeld
<1>2. Claimed' /\ Distinct'
  BY DEF IInv, TypeOK, Claimed, Distinct, Holding
<1>3. Bounded'
  BY DEF IInv, Bounded
<1>4. Born'
  BY DEF IInv, TypeOK, Born, Actors
<1>5. NotStoredYet'
  BY DEF IInv, TypeOK, NotStoredYet
<1>6. NoOrphanSession'
  BY DEF IInv, TypeOK, NoOrphanSession
<1>7. CurrentDropIsHandled'
  BY DEF IInv, TypeOK, CurrentDropIsHandled, OnItsWay, Actors
<1>8. DropEvidenceKept'
  BY DEF IInv, TypeOK, DropEvidenceKept, Actors
<1> QED
  BY <1>1, <1>2, <1>3, <1>4, <1>5, <1>6, <1>7, <1>8 DEF IInv

(* A step that changes nothing the invariant reads.                        *)
LEMMA Still ==
  ASSUME IInv, TypeOK',
         UNCHANGED <<generation, sessionVars, noticeVars, mine, req, before, automation, pc>>
  PROVE  IInv'
BY DEF IInv, RequestHeld, Claimed, Holding, Distinct, Bounded, Born, NotStoredYet,
   NoOrphanSession, CurrentDropIsHandled, OnItsWay, DropEvidenceKept,
   sessionVars, noticeVars

(* A step that empties the slot and stops the session found there.         *)
LEMMA Emptied ==
  ASSUME IInv, TypeOK', NEW a \in Actors, NEW from, NEW to, Goto(a, from, to),
         slot' = 0, Kill({slot}),
         UNCHANGED <<generation, noticeVars, mine, req, before, automation>>,
         from \notin {"unborn", "store"}, to # "unborn",
         to \in HoldSteps <=> from \in HoldSteps,
         to \in WithRequest => from \in WithRequest,
         to \in BeforeStore => from \in HoldSteps
  PROVE  IInv'
<1> USE DEF Goto, noticeVars
<1>1. RequestHeld'
  BY DEF IInv, TypeOK, RequestHeld
<1>2. Claimed' /\ Distinct'
  BY DEF IInv, TypeOK, Claimed, Distinct, Holding
<1>3. Bounded'
  BY DEF IInv, TypeOK, Bounded
<1>4. Born'
  BY DEF IInv, TypeOK, Born, Actors
<1>5. NotStoredYet'
  <2> SUFFICES ASSUME NEW b \in Actors, pc'[b] \in BeforeStore PROVE mine[b] # 0
    BY DEF NotStoredYet
  <2>1. pc[b] \in HoldSteps
    BY DEF IInv, TypeOK, BeforeStore, HoldSteps, ConnectSteps
  <2> QED
    BY <2>1 DEF IInv, Claimed, Holding
<1>6. NoOrphanSession'
  BY DEF IInv, TypeOK, NoOrphanSession, Kill
<1>7. CurrentDropIsHandled'
  BY DEF CurrentDropIsHandled, Gens
<1>8. DropEvidenceKept'
  BY DEF IInv, TypeOK, DropEvidenceKept, Actors
<1> QED
  BY <1>1, <1>2, <1>3, <1>4, <1>5, <1>6, <1>7, <1>8 DEF IInv

(* A step that ends a connect.  The drop it may forget is older than the   *)
(* generation it claimed; the session it may close was never stored.       *)
LEMMA Ended ==
  ASSUME IInv, TypeOK', NEW a \in Actors, NEW from, NEW to, Goto(a, from, to),
         EndConnect(a), from \in HoldSteps,
         to \notin HoldSteps \cup WithRequest \cup BeforeStore \cup {"unborn", "tearSlot"},
         UNCHANGED <<generation, slot, events, automation>>,
         lastDrop' = lastDrop \/ (lastDrop = before[a] /\ lastDrop' = 0),
         IF from = "store" THEN Kill({mine[a]}) ELSE UNCHANGED <<life, unsent>>
  PROVE  IInv'
<1> USE DEF Goto, EndConnect
<1>1. RequestHeld'
  BY DEF IInv, TypeOK, RequestHeld
<1>2. Claimed' /\ Distinct'
  BY SMTT(30) DEF IInv, TypeOK, Claimed, Distinct, Holding
<1>3. Bounded'
  BY DEF IInv, TypeOK, Bounded
<1>4. Born'
  BY DEF IInv, TypeOK, Born, Actors, HoldSteps, ConnectSteps, Outcomes
<1>5. NotStoredYet'
  BY DEF IInv, TypeOK, NotStoredYet
<1>6. NoOrphanSession'
  <2>1. CASE from = "store"
    <3> SUFFICES ASSUME NEW g \in Gens, life'[g] = "live", slot # g
                 PROVE  \E b \in Actors : mine'[b] = g /\ pc'[b] = "store"
      BY DEF NoOrphanSession
    <3>1. life[g] = "live" /\ g # mine[a]
      BY <2>1 DEF Kill
    <3>2. PICK b \in Actors : mine[b] = g /\ pc[b] = "store"
      BY <3>1 DEF IInv, NoOrphanSession
    <3> QED
      BY <3>1, <3>2 DEF IInv, TypeOK
  <2>2. CASE from # "store"
    BY <2>2 DEF IInv, TypeOK, NoOrphanSession
  <2> QED
    BY <2>1, <2>2
<1>7. CurrentDropIsHandled'
  <2> SUFFICES ASSUME NEW g \in Gens, slot = g, g = generation, life'[g] = "dropped"
               PROVE  OnItsWay(g)'
    BY DEF CurrentDropIsHandled
  <2>1. life[g] = "dropped" /\ (g \in unsent => g \in unsent')
    <3>1. CASE from = "store"
      <4>1. g # mine[a]
        BY <3>1 DEF IInv, NotStoredYet, BeforeStore
      <4> QED
        BY <3>1, <4>1 DEF Kill
    <3>2. CASE from # "store"
      BY <3>2
    <3> QED
      BY <3>1, <3>2
  <2>2. OnItsWay(g)
    BY <2>1 DEF IInv, CurrentDropIsHandled
  <2>3. pc[g] = "tearSlot" => pc'[g] = "tearSlot"
    BY DEF HoldSteps, ConnectSteps, Outcomes, IInv, TypeOK, Actors
  <2> QED
    BY <2>1, <2>2, <2>3 DEF OnItsWay
<1>8. DropEvidenceKept'
  <2>1. before[a] < generation
    BY SMTT(30) DEF IInv, TypeOK, Claimed, Holding
  <2> QED
    BY SMTT(30), <2>1 DEF IInv, TypeOK, DropEvidenceKept, Actors, HoldSteps, ConnectSteps,
       Outcomes
<1> QED
  BY <1>1, <1>2, <1>3, <1>4, <1>5, <1>6, <1>7, <1>8 DEF IInv

-----------------------------------------------------------------------------
(* The steps that change what the invariant is about.                      *)

LEMMA UserKeeps ==
  ASSUME IInv, TypeOK', NEW c \in Clients, UserStep(c)
  PROVE  IInv'
<1>1. CASE \E r \in Requests : UserConnect(c, r)
  <2> PICK r \in Requests : UserConnect(c, r)
    BY <1>1
  <2> USE DEF UserConnect, Goto, sessionVars, noticeVars, resourceVars
  <2>1. RequestHeld'
    BY DEF IInv, TypeOK, RequestHeld
  <2>2. Claimed' /\ Distinct'
    BY DEF IInv, TypeOK, Claimed, Distinct, Holding, HoldSteps, ConnectSteps, Outcomes,
       Bounded, Actors
  <2>3. Bounded' /\ Born' /\ NotStoredYet'
    BY DEF IInv, TypeOK, Bounded, Born, NotStoredYet, BeforeStore, Actors
  <2>4. NoOrphanSession'
    BY DEF IInv, TypeOK, NoOrphanSession, Actors
  <2>5. CurrentDropIsHandled'
    BY DEF IInv, TypeOK, CurrentDropIsHandled, OnItsWay, Actors
  <2>6. DropEvidenceKept'
    BY DEF IInv, TypeOK, DropEvidenceKept, Actors
  <2> QED
    BY <2>1, <2>2, <2>3, <2>4, <2>5, <2>6 DEF IInv
<1>2. CASE UserConnectInvalid(c)
  BY <1>2, Still DEF UserConnectInvalid, resourceVars, handlerVars
<1>3. CASE UserDisconnect(c)
  BY <1>3, Move DEF UserDisconnect, Actors, IInv, Bounded, resourceVars, handlerVars,
     HoldSteps, ConnectSteps, Outcomes, WithRequest, BeforeStore
<1> QED
  BY <1>1, <1>2, <1>3 DEF UserStep

LEMMA ClientKeeps ==
  ASSUME IInv, TypeOK', NEW c \in Clients, ClientStep(c)
  PROVE  IInv'
<1> c \in Actors
  BY DEF Actors
<1> automation <= generation /\ 0 <= generation
  BY DEF IInv, Bounded, TypeOK
<1> USE DEF HoldSteps, ConnectSteps, Outcomes, WithRequest, BeforeStore,
            countVars, resourceVars, handlerVars
<1>1. CASE DisarmStep(c)
  BY <1>1, Move DEF DisarmStep
<1>2. CASE DisconnectStream(c)
  BY <1>2, Move DEF DisconnectStream
<1>3. CASE DisconnectAutomation(c)
  BY <1>3, Move DEF DisconnectAutomation
<1>4. CASE DisconnectSlot(c)
  BY <1>4, Emptied DEF DisconnectSlot
<1>5. CASE RememberRequest(c)
  BY <1>5, Move DEF RememberRequest
<1>6. CASE ReportFailure(c)
  <2> PICK outcome \in {"failed", "rejected"} : Goto(c, outcome, "idle")
    BY <1>6 DEF ReportFailure
  <2> QED
    BY <1>6, Ended DEF ReportFailure, sessionVars, noticeVars
<1> QED
  BY <1>1, <1>2, <1>3, <1>4, <1>5, <1>6 DEF ClientStep

LEMMA ClaimKeeps ==
  ASSUME IInv, TypeOK', NEW a \in Actors, ClaimGeneration(a)
  PROVE  IInv'
<1> USE DEF ClaimGeneration, Goto, sessionVars, noticeVars, resourceVars
<1>0. generation \in Nat
  BY DEF IInv, TypeOK
<1>1. RequestHeld'
  BY DEF IInv, TypeOK, RequestHeld, WithRequest
<1>2. Claimed'
  BY DEF IInv, TypeOK, Claimed, Holding, HoldSteps, ConnectSteps, Outcomes
<1>3. Distinct'
  <2>1. \A b \in Actors : mine[b] \in Nat /\ mine[b] # generation + 1
    BY DEF IInv, TypeOK, Claimed
  <2> QED
    BY <2>1 DEF IInv, TypeOK, Distinct
<1>4. Bounded'
  BY DEF IInv, TypeOK, Bounded
<1>5. Born'
  BY SMTT(30) DEF IInv, TypeOK, Born, Gens, Actors
<1>6. NotStoredYet'
  <2>1. slot # generation + 1
    BY <1>0 DEF IInv, TypeOK, Bounded
  <2> QED
    BY <2>1 DEF IInv, TypeOK, NotStoredYet
<1>7. NoOrphanSession'
  BY DEF IInv, TypeOK, NoOrphanSession
<1>8. CurrentDropIsHandled'
  <2>1. slot' # generation'
    BY <1>0 DEF IInv, TypeOK, Bounded
  <2> QED
    BY <2>1 DEF CurrentDropIsHandled
<1>9. DropEvidenceKept'
  <2>1. \A g \in Gens : pc'[g] # "unborn" => g # generation'
    BY <1>0 DEF IInv, TypeOK, Born, Gens, Actors
  <2> QED
    BY <2>1 DEF DropEvidenceKept
<1> QED
  BY <1>1, <1>2, <1>3, <1>4, <1>5, <1>6, <1>7, <1>8, <1>9 DEF IInv

(* The session stored is the connect's own: no other actor holds it, and   *)
(* it was alive, so no drop of it is pending that might be missed.         *)
LEMMA StoreKeeps ==
  ASSUME IInv, TypeOK', NEW a \in Actors, StoreSession(a)
  PROVE  IInv'
<1> USE DEF StoreSession, Goto, noticeVars, resourceVars, handlerVars, countVars
<1>1. RequestHeld'
  BY DEF IInv, TypeOK, RequestHeld, WithRequest, ConnectSteps
<1>2. Claimed' /\ Distinct'
  BY DEF IInv, TypeOK, Claimed, Distinct, Holding, HoldSteps, ConnectSteps
<1>3. Bounded'
  BY DEF IInv, TypeOK, Bounded, Claimed
<1>4. Born'
  BY DEF IInv, TypeOK, Born, Actors
<1>5. NotStoredYet'
  <2> SUFFICES ASSUME NEW b \in Actors, pc'[b] \in BeforeStore PROVE mine[a] # mine[b]
    BY DEF NotStoredYet
  <2>1. b # a
    BY DEF IInv, TypeOK, BeforeStore
  <2>2. mine[a] # 0
    BY DEF IInv, Claimed, Holding, HoldSteps, ConnectSteps
  <2> QED
    BY <2>1, <2>2 DEF IInv, Distinct
<1>6. NoOrphanSession'
  BY DEF IInv, TypeOK, NoOrphanSession, Kill
<1>7. CurrentDropIsHandled'
  BY DEF IInv, TypeOK, CurrentDropIsHandled, Kill
<1>8. DropEvidenceKept'
  BY DEF IInv, TypeOK, DropEvidenceKept, Actors
<1> QED
  BY <1>1, <1>2, <1>3, <1>4, <1>5, <1>6, <1>7, <1>8 DEF IInv

(* A session refused by the store was never in the slot, so closing it     *)
(* loses no notice of the slot's session.                                  *)
LEMMA RefuseKeeps ==
  ASSUME IInv, TypeOK', NEW a \in Actors, RefuseDeadSession(a)
  PROVE  IInv'
<1> USE DEF RefuseDeadSession, Goto, noticeVars, resourceVars, handlerVars, countVars
<1>1. RequestHeld'
  BY DEF IInv, TypeOK, RequestHeld, WithRequest, ConnectSteps
<1>2. Claimed' /\ Distinct'
  BY DEF IInv, TypeOK, Claimed, Distinct, Holding, HoldSteps, ConnectSteps, Outcomes
<1>3. Bounded' /\ Born' /\ NotStoredYet'
  BY DEF IInv, TypeOK, Bounded, Born, NotStoredYet, BeforeStore, Actors
<1>4. NoOrphanSession'
  BY DEF IInv, TypeOK, NoOrphanSession, Kill
<1>5. CurrentDropIsHandled'
  <2>1. slot # mine[a]
    BY DEF IInv, NotStoredYet, BeforeStore
  <2> SUFFICES ASSUME NEW g \in Gens, slot = g, g = generation, life'[g] = "dropped"
               PROVE  OnItsWay(g)'
    BY DEF CurrentDropIsHandled
  <2>2. life[g] = "dropped" /\ (g \in unsent => g \in unsent')
    BY <2>1 DEF Kill
  <2>3. pc[g] = "tearSlot" => pc'[g] = "tearSlot"
    BY DEF IInv, TypeOK, Actors
  <2> QED
    BY <2>2, <2>3 DEF IInv, CurrentDropIsHandled, OnItsWay
<1>6. DropEvidenceKept'
  BY DEF IInv, TypeOK, DropEvidenceKept, Actors
<1> QED
  BY <1>1, <1>2, <1>3, <1>4, <1>5, <1>6 DEF IInv

LEMMA RdpKeeps ==
  ASSUME IInv, TypeOK', NEW a \in Actors, RdpConnect(a)
  PROVE  IInv'
<1> USE DEF RdpConnect, Goto, noticeVars, resourceVars, handlerVars, countVars
<1>1. RequestHeld'
  BY DEF IInv, TypeOK, RequestHeld, WithRequest, ConnectSteps
<1>2. Claimed' /\ Distinct'
  BY DEF IInv, TypeOK, Claimed, Distinct, Holding, HoldSteps, ConnectSteps
<1>3. Bounded' /\ Born' /\ NotStoredYet'
  BY DEF IInv, TypeOK, Bounded, Born, NotStoredYet, BeforeStore, Actors
<1>4. NoOrphanSession'
  BY DEF IInv, TypeOK, NoOrphanSession
<1>5. CurrentDropIsHandled'
  BY DEF IInv, TypeOK, CurrentDropIsHandled, OnItsWay, Actors
<1>6. DropEvidenceKept'
  BY DEF IInv, TypeOK, DropEvidenceKept, Actors
<1> QED
  BY <1>1, <1>2, <1>3, <1>4, <1>5, <1>6 DEF IInv

LEMMA ConnectKeeps ==
  ASSUME IInv, TypeOK', NEW a \in Actors, ConnectStep(a)
  PROVE  IInv'
<1> automation <= generation /\ 0 <= generation /\ mine[a] <= generation
  BY DEF IInv, Bounded, TypeOK, Claimed
<1> USE DEF HoldSteps, ConnectSteps, Outcomes, WithRequest, BeforeStore,
            countVars, resourceVars, handlerVars
<1>1. CASE ClaimGeneration(a)
  BY <1>1, ClaimKeeps
<1>2. CASE TakeOld(a)
  BY <1>2, Emptied DEF TakeOld
<1>3. CASE CleanAutomation(a)
  <2> PICK to \in {"prepare", "rdp"} : Goto(a, "clean", to)
    BY <1>3 DEF CleanAutomation
  <2> QED
    BY <1>3, Move DEF CleanAutomation
<1>4. CASE PrepareAutomation(a)
  <2>1. automation' <= generation
    BY <1>4 DEF PrepareAutomation
  <2> QED
    BY <1>4, <2>1, Move DEF PrepareAutomation
<1>5. CASE RdpConnect(a)
  BY <1>5, RdpKeeps
<1>6. CASE RdpConnectFails(a)
  <2> PICK outcome \in {"failed", "rejected"} : Goto(a, "rdp", outcome)
    BY <1>6 DEF RdpConnectFails
  <2> QED
    BY <1>6, Move DEF RdpConnectFails
<1>7. CASE StoreSession(a)
  BY <1>7, StoreKeeps
<1>8. CASE RefuseDeadSession(a)
  BY <1>8, RefuseKeeps
<1>9. CASE StartStream(a)
  BY <1>9, Move DEF StartStream
<1>10. CASE ProbeDrop(a)
  <2> PICK to \in {"failed", "confirm"} : Goto(a, "bootstrap", to)
    BY <1>10 DEF ProbeDrop
  <2> QED
    BY <1>10, Move DEF ProbeDrop
<1>11. CASE ConfirmSlot(a)
  <2> PICK to \in {"failed", "connected"} : Goto(a, "confirm", to)
    BY <1>11 DEF ConfirmSlot
  <2> QED
    BY <1>11, Move DEF ConfirmSlot
<1>12. CASE ForgetDrop(a)
  <2> PICK to \in {"idle", "done"} : Goto(a, "clearDrop", to)
    BY <1>12 DEF ForgetDrop
  <2> QED
    BY <1>12, Ended DEF ForgetDrop, sessionVars
<1> QED
  BY <1>1, <1>2, <1>3, <1>4, <1>5, <1>6, <1>7, <1>8, <1>9, <1>10, <1>11, <1>12
     DEF ConnectStep

LEMMA DropKeeps ==
  ASSUME IInv, TypeOK', NEW g \in Gens,
         SessionDrops(g) \/ SendNotification(g) \/ HandleDrop(g) \/ LateClear(g)
           \/ IgnoreStaleDrop
  PROVE  IInv'
<1> USE DEF Goto, noticeVars, sessionVars, resourceVars, handlerVars, countVars
<1>1. CASE SessionDrops(g)
  <2> USE <1>1 DEF SessionDrops
  <2>1. RequestHeld' /\ Claimed' /\ Distinct' /\ Bounded' /\ Born' /\ NotStoredYet'
    BY DEF IInv, RequestHeld, Claimed, Holding, Distinct, Bounded, Born, NotStoredYet
  <2>2. NoOrphanSession' /\ DropEvidenceKept'
    BY DEF IInv, TypeOK, NoOrphanSession, DropEvidenceKept
  <2>3. CurrentDropIsHandled'
    BY DEF IInv, TypeOK, CurrentDropIsHandled, OnItsWay
  <2> QED
    BY <2>1, <2>2, <2>3 DEF IInv
<1>2. CASE SendNotification(g)
  <2> USE <1>2 DEF SendNotification
  <2>1. RequestHeld' /\ Claimed' /\ Distinct' /\ Bounded' /\ Born' /\ NotStoredYet'
    BY DEF IInv, RequestHeld, Claimed, Holding, Distinct, Bounded, Born, NotStoredYet
  <2>2. NoOrphanSession' /\ DropEvidenceKept'
    BY DEF IInv, TypeOK, NoOrphanSession, DropEvidenceKept
  <2>3. CurrentDropIsHandled'
    <3>1. /\ events \in Seq(Gens) /\ Len(events) \in Nat
          /\ Len(events') = Len(events) + 1
          /\ events'[Len(events) + 1] = g
          /\ \A i \in 1 .. Len(events) : events'[i] = events[i]
      BY DEF IInv, TypeOK
    <3>2. \A h \in Gens : OnItsWay(h) => OnItsWay(h)'
      BY <3>1 DEF OnItsWay
    <3> QED
      BY <3>2 DEF IInv, CurrentDropIsHandled
  <2> QED
    BY <2>1, <2>2, <2>3 DEF IInv
<1>3. CASE HandleDrop(g)
  <2> USE <1>3 DEF HandleDrop
  <2>1. /\ RequestHeld'
        /\ Claimed'
        /\ Distinct' /\ Bounded'
        /\ Born' /\ NotStoredYet'
    <3>1. RequestHeld'
      BY DEF IInv, TypeOK, RequestHeld, WithRequest, ConnectSteps, Actors
    <3>2. Claimed'
      BY DEF IInv, TypeOK, Claimed, Holding, HoldSteps, ConnectSteps, Outcomes, Actors
    <3>3. Distinct' /\ Bounded'
      BY DEF IInv, TypeOK, Distinct, Bounded
    <3>4. Born'
      <4>1. g = generation /\ generation' = generation
        OBVIOUS
      <4>2. \A h \in Gens : h = g \/ pc'[h] = pc[h]
        BY DEF IInv, TypeOK, Actors
      <4>3. \A h \in Gens : h <= h
        BY DEF Gens
      <4> QED
        BY <4>1, <4>2, <4>3 DEF IInv, Born
    <3>5. NotStoredYet'
      BY DEF IInv, TypeOK, NotStoredYet, BeforeStore, Actors
    <3> QED
      BY <3>1, <3>2, <3>3, <3>4, <3>5
  <2>2. NoOrphanSession'
    BY DEF IInv, TypeOK, NoOrphanSession, Actors
  <2>3. CurrentDropIsHandled'
    BY DEF IInv, TypeOK, CurrentDropIsHandled, OnItsWay, Actors
  <2>4. DropEvidenceKept'
    BY DEF IInv, TypeOK, DropEvidenceKept
  <2> QED
    BY <2>1, <2>2, <2>3, <2>4 DEF IInv
<1>4. CASE LateClear(g)
  BY <1>4, Still DEF LateClear
<1>5. CASE IgnoreStaleDrop
  <2> USE <1>5 DEF IgnoreStaleDrop
  <2>1. RequestHeld' /\ Claimed' /\ Distinct' /\ Bounded' /\ Born' /\ NotStoredYet'
    BY DEF IInv, RequestHeld, Claimed, Holding, Distinct, Bounded, Born, NotStoredYet
  <2>2. NoOrphanSession' /\ DropEvidenceKept'
    BY DEF IInv, NoOrphanSession, DropEvidenceKept
  <2>3. CurrentDropIsHandled'
    <3>1. /\ events \in Seq(Gens) /\ Len(events) \in Nat /\ Len(events') = Len(events) - 1
          /\ events[1] # generation
          /\ \A i \in 2 .. Len(events) : events'[i - 1] = events[i]
      BY DEF IInv, TypeOK
    <3>2. ASSUME NEW i \in 1 .. Len(events), events[i] = generation
          PROVE  \E j \in 1 .. Len(events') : events'[j] = generation
      <4>1. i \in 2 .. Len(events)
        BY <3>1, <3>2
      <4>2. i - 1 \in 1 .. Len(events') /\ events'[i - 1] = generation
        BY <3>1, <3>2, <4>1
      <4> QED
        BY <4>2
    <3>3. ASSUME NEW h \in Gens, h = generation, OnItsWay(h)
          PROVE  OnItsWay(h)'
      BY <3>2, <3>3 DEF OnItsWay
    <3> QED
      BY <3>3 DEF IInv, CurrentDropIsHandled
  <2> QED
    BY <2>1, <2>2, <2>3 DEF IInv
<1> QED
  BY <1>1, <1>2, <1>3, <1>4, <1>5

LEMMA DecideKeeps ==
  ASSUME IInv, TypeOK', NEW g \in Gens, Decide(g)
  PROVE  IInv'
<1> PICK to \in {"publish", "done", "standDown"} :
      /\ Goto(g, "decide", to)
      /\ to = "publish" => auto.request # NoRequest
  BY DEF Decide, Verdict, ShouldAttempt
<1>0. /\ req' = [req EXCEPT ![g] = auto.request]
      /\ auto.request \in Requests \cup {NoRequest}
      /\ UNCHANGED <<generation, sessionVars, noticeVars, mine, before, automation>>
  BY DEF Decide, IInv, TypeOK, AutoReconnectState, countVars, resourceVars
<1> USE <1>0 DEF Goto, sessionVars, noticeVars
<1>1. RequestHeld'
  BY DEF IInv, TypeOK, RequestHeld, WithRequest, ConnectSteps, Actors
<1>2. Claimed' /\ Distinct'
  BY DEF IInv, TypeOK, Claimed, Distinct, Holding, HoldSteps, ConnectSteps, Outcomes,
     Actors
<1>3. Bounded' /\ Born' /\ NotStoredYet'
  BY DEF IInv, TypeOK, Bounded, Born, NotStoredYet, BeforeStore, Actors
<1>4. NoOrphanSession' /\ DropEvidenceKept'
  BY DEF IInv, TypeOK, NoOrphanSession, DropEvidenceKept, Actors
<1>5. CurrentDropIsHandled'
  BY DEF IInv, TypeOK, CurrentDropIsHandled, OnItsWay, Actors
<1> QED
  BY <1>1, <1>2, <1>3, <1>4, <1>5 DEF IInv

LEMMA ClaimInFlightKeeps ==
  ASSUME IInv, TypeOK', NEW g \in Gens, ClaimInFlight(g)
  PROVE  IInv'
<1> USE DEF ClaimInFlight, Goto, sessionVars, noticeVars, countVars, resourceVars
<1>1. RequestHeld'
  BY DEF IInv, TypeOK, RequestHeld, WithRequest, ConnectSteps, Actors
<1>2. Claimed' /\ Distinct'
  <2>1. lastDrop <= generation
    BY DEF IInv, Bounded
  <2>2. ~Holding(g) /\ ~Holding(g)'
    BY DEF Holding, HoldSteps, ConnectSteps, Outcomes, IInv, TypeOK, Actors
  <2>3. \A b \in Actors \ {g} : (Holding(b)' <=> Holding(b)) /\ before'[b] = before[b]
    BY DEF Holding, IInv, TypeOK
  <2> QED
    BY <2>1, <2>2, <2>3 DEF IInv, TypeOK, Claimed, Distinct, Actors
<1>3. Bounded' /\ Born' /\ NotStoredYet'
  BY DEF IInv, TypeOK, Bounded, Born, NotStoredYet, BeforeStore, Actors
<1>4. NoOrphanSession' /\ DropEvidenceKept'
  BY DEF IInv, TypeOK, NoOrphanSession, DropEvidenceKept, Actors
<1>5. CurrentDropIsHandled'
  BY DEF IInv, TypeOK, CurrentDropIsHandled, OnItsWay, Actors
<1> QED
  BY <1>1, <1>2, <1>3, <1>4, <1>5 DEF IInv

LEMMA TaskKeeps ==
  ASSUME IInv, TypeOK', NEW g \in Gens, TaskStep(g)
  PROVE  IInv'
<1> g \in Actors
  BY DEF Actors
<1> automation <= generation /\ 0 <= generation
  BY DEF IInv, Bounded, TypeOK
<1> USE DEF HoldSteps, ConnectSteps, Outcomes, WithRequest, BeforeStore,
            countVars, resourceVars, handlerVars
<1>1. CASE TearSlot(g)
  <2>1. CASE Superseded(g)
    BY <1>1, <2>1, Move DEF TearSlot, Superseded
  <2>2. CASE ~Superseded(g)
    BY <1>1, <2>2, Emptied DEF TearSlot
  <2> QED
    BY <2>1, <2>2
<1>2. CASE CheckStream(g)
  <2> PICK to \in {"done", "tearStream"} : Goto(g, "checkStream", to)
    BY <1>2 DEF CheckStream
  <2> QED
    BY <1>2, Move DEF CheckStream
<1>3. CASE TearStream(g)
  BY <1>3, Move DEF TearStream
<1>4. CASE TearClip(g)
  BY <1>4, Move DEF TearClip
<1>5. CASE TearAutomation(g)
  <2>1. automation' <= generation
    BY <1>5 DEF TearAutomation
  <2> PICK to \in {"done", "beginOutage"} : Goto(g, "tearAutomation", to)
    BY <1>5 DEF TearAutomation
  <2> QED
    BY <1>5, <2>1, Move DEF TearAutomation
<1>6. CASE BeginOutageStep(g)
  <2> PICK to \in {"done", "decide"} : Goto(g, "beginOutage", to)
    BY <1>6 DEF BeginOutageStep, BeginOutage
  <2> QED
    BY <1>6, Move DEF BeginOutageStep
<1>7. CASE Decide(g)
  BY <1>7, DecideKeeps
<1>8. CASE Publish(g)
  BY <1>8, Move DEF Publish
<1>9. CASE Wake(g)
  <2> PICK to \in {"ready", "done", "standDown"} : Goto(g, "asleep", to)
    BY <1>9 DEF Wake, Verdict
  <2> QED
    BY <1>9, Move DEF Wake
<1>10. CASE StandDownStep(g)
  BY <1>10, Move DEF StandDownStep
<1>11. CASE ClaimInFlight(g)
  BY <1>11, ClaimInFlightKeeps
<1>12. CASE EndAttempt(g)
  <2> PICK outcome \in Outcomes :
        /\ Goto(g, outcome, AfterAttempt[outcome])
        /\ IF outcome = "connected" THEN UNCHANGED handlerVars ELSE EndConnect(g)
    BY <1>12 DEF EndAttempt
  <2>1. UNCHANGED <<countVars, sessionVars, noticeVars, resourceVars>>
    BY <1>12 DEF EndAttempt
  <2>2. CASE outcome = "connected"
    <3>1. Goto(g, "connected", "succeeded")
      BY <2>2 DEF AfterAttempt
    <3> QED
      BY <2>1, <2>2, <3>1, Move
  <2>3. CASE outcome # "connected"
    <3>1. PICK to \in {"decide", "giveUp"} : Goto(g, outcome, to)
      BY <2>3 DEF AfterAttempt
    <3> QED
      BY <2>1, <2>3, <3>1, Ended DEF sessionVars, noticeVars
  <2> QED
    BY <2>2, <2>3
<1>13. CASE NoteReconnected(g)
  BY <1>13, Move DEF NoteReconnected
<1>14. CASE GiveUp(g)
  BY <1>14, Move DEF GiveUp
<1> QED
  BY <1>1, <1>2, <1>3, <1>4, <1>5, <1>6, <1>7, <1>8, <1>9, <1>10, <1>11, <1>12, <1>13,
     <1>14 DEF TaskStep

LEMMA PanicKeeps ==
  ASSUME IInv, TypeOK', NEW a \in Actors, ConnectPanics(a)
  PROVE  IInv'
<1> PICK step \in ConnectSteps \ {"takeOld"}, to \in {"idle", "done"} : Goto(a, step, to)
  BY DEF ConnectPanics
<1>1. IF step = "store" THEN Kill({mine[a]}) ELSE UNCHANGED <<life, unsent>>
  BY DEF ConnectPanics, Goto
<1> QED
  BY <1>1, Ended DEF ConnectPanics, HoldSteps, ConnectSteps, Outcomes, WithRequest,
     BeforeStore, countVars, noticeVars, resourceVars

-----------------------------------------------------------------------------
LEMMA InitInv == Init => IInv
<1> SUFFICES ASSUME Init PROVE IInv
  OBVIOUS
<1>1. TypeOK
  BY InitType
<1>2. \A a \in Actors : pc[a] \in {"idle", "unborn"} /\ mine[a] = 0 /\ before[a] = 0
  BY DEF Init
<1>3. \A g \in Gens : pc[g] = "unborn" /\ life[g] = "none"
  BY DEF Init, Actors
<1>4. RequestHeld /\ Claimed /\ Distinct /\ NotStoredYet
  BY <1>2 DEF Init, RequestHeld, WithRequest, Claimed, Holding, HoldSteps, Distinct,
     NotStoredYet, BeforeStore, ConnectSteps, Outcomes
<1>5. Bounded /\ Born
  BY <1>3 DEF Init, Bounded, Born
<1>6. NoOrphanSession /\ CurrentDropIsHandled /\ DropEvidenceKept
  BY <1>3 DEF NoOrphanSession, CurrentDropIsHandled, DropEvidenceKept
<1> QED
  BY <1>1, <1>4, <1>5, <1>6 DEF IInv

(* Every step of the daemon keeps the invariant: one case per actor.       *)
LEMMA NextInv == IInv /\ [Next]_vars => IInv'
<1> SUFFICES ASSUME IInv, [Next]_vars PROVE IInv'
  OBVIOUS
<1> TypeOK /\ RequestHeld
  BY DEF IInv
<1>1. ASSUME NEW c \in Clients, UserStep(c) PROVE IInv'
  BY <1>1, UserType, UserKeeps
<1>2. ASSUME NEW c \in Clients, ClientStep(c) PROVE IInv'
  BY <1>2, ClientType, ClientKeeps
<1>3. ASSUME NEW a \in Actors, ConnectStep(a) PROVE IInv'
  BY <1>3, ConnectType, ConnectKeeps
<1>4. ASSUME NEW g \in Gens, TaskStep(g) PROVE IInv'
  BY <1>4, TaskType, TaskKeeps
<1>5. ASSUME NEW g \in Gens,
             SessionDrops(g) \/ SendNotification(g) \/ HandleDrop(g) \/ LateClear(g)
               \/ IgnoreStaleDrop
      PROVE  IInv'
  BY <1>5, DropType, DropKeeps
<1>6. ASSUME NEW a \in Actors, ConnectPanics(a) PROVE IInv'
  BY <1>6, PanicType, PanicKeeps
<1>7. ASSUME IgnoreStaleDrop PROVE IInv'
  <2>1. events[1] \in Gens
    BY <1>7 DEF IgnoreStaleDrop, TypeOK
  <2> QED
    BY <1>5, <1>7, <2>1
<1>8. ASSUME UNCHANGED vars PROVE IInv'
  <2>1. TypeOK'
    BY <1>8 DEF TypeOK, vars, countVars, sessionVars, noticeVars, autoVars,
       resourceVars,
       handlerVars, taskVars
  <2> QED
    BY <1>8, <2>1, Still DEF vars, countVars, resourceVars, handlerVars
<1> QED
  BY <1>1, <1>2, <1>3, <1>4, <1>5, <1>6, <1>7, <1>8 DEF Next, Steps

LEMMA Invariance == Spec => []IInv
BY InitInv, NextInv, PTL DEF Spec

(* The daemon's state stays well-typed: in particular the disconnect       *)
(* channel never holds more than its capacity.                             *)
THEOREM TypeCorrect == Spec => []TypeOK
<1>1. IInv => TypeOK
  BY DEF IInv
<1> QED
  BY Invariance, <1>1, PTL

(* No RDP connection is leaked, whatever overlaps: see NoOrphanSession.    *)
THEOREM SessionsAreOwned == Spec => []NoOrphanSession
<1>1. IInv => NoOrphanSession
  BY DEF IInv
<1> QED
  BY Invariance, <1>1, PTL

(* The drop of the newest session is never missed: checking drop_reason    *)
(* under the slot lock is enough, for a session of the current generation. *)
THEOREM CurrentDropsAreHandled == Spec => []CurrentDropIsHandled
<1>1. IInv => CurrentDropIsHandled
  BY DEF IInv
<1> QED
  BY Invariance, <1>1, PTL

(* A connect that was running when the session died never erases the       *)
(* evidence of its drop.                                                   *)
THEOREM EvidenceIsKept == Spec => []DropEvidenceKept
<1>1. IInv => DropEvidenceKept
  BY DEF IInv
<1> QED
  BY Invariance, <1>1, PTL

(* Only its own teardown moves a task that is tearing something down.      *)
LEMMA ConnectMoves ==
  ASSUME NEW a \in Actors, ConnectStep(a)
  PROVE  \E from \in ConnectSteps \cup {"claim", "clearDrop"} : \E to : Goto(a, from, to)
BY Zenon DEF ConnectStep, ClaimGeneration, TakeOld, CleanAutomation, PrepareAutomation,
   RdpConnect, RdpConnectFails, StoreSession, RefuseDeadSession, StartStream, ProbeDrop,
   ConfirmSlot, ForgetDrop, ConnectSteps

LEMMA ClientMoves ==
  ASSUME NEW c \in Clients, UserStep(c) \/ ClientStep(c)
  PROVE  pc' = pc \/ \E from, to : Goto(c, from, to)
BY Zenon DEF UserStep, ClientStep, UserConnect, UserConnectInvalid, UserDisconnect,
   DisarmStep, DisconnectStream, DisconnectAutomation, DisconnectSlot, RememberRequest,
   ReportFailure

LEMMA TaskMoves ==
  ASSUME NEW g \in Gens, TaskStep(g)
  PROVE  \/ TearSlot(g) \/ TearAutomation(g)
         \/ \E from \in TaskSteps \ {"tearSlot", "tearAutomation"} :
              \E to : Goto(g, from, to)
BY DEF TaskStep, CheckStream, TearStream, TearClip, BeginOutageStep, BeginOutage,
   Decide,
   Publish, Wake, StandDownStep, ClaimInFlight, EndAttempt, NoteReconnected, GiveUp,
   TaskSteps, Outcomes

LEMMA OnlyTeardownTears ==
  ASSUME IInv, Next, NEW g \in Gens, pc[g] \in {"tearSlot", "tearAutomation"},
         ~TearSlot(g), ~TearAutomation(g)
  PROVE  pc'[g] = pc[g]
<1> pc \in [Actors -> ClientSteps \cup TaskSteps] /\ g \in Actors
  BY DEF IInv, TypeOK, Actors
<1>1. ASSUME NEW c \in Clients, UserStep(c) \/ ClientStep(c) PROVE pc'[g] = pc[g]
  BY <1>1, ClientMoves DEF Goto
<1>2. ASSUME NEW a \in Actors, ConnectStep(a) PROVE pc'[g] = pc[g]
  <2> PICK from \in ConnectSteps \cup {"claim", "clearDrop"} : \E to : Goto(a, from, to)
    BY <1>2, ConnectMoves
  <2> QED
    BY DEF Goto, ConnectSteps
<1>3. ASSUME NEW h \in Gens, TaskStep(h) PROVE pc'[g] = pc[g]
  <2>1. CASE h = g
    <3> PICK from \in TaskSteps \ {"tearSlot", "tearAutomation"} : \E to : Goto(g, from, to)
      BY <1>3, <2>1, TaskMoves
    <3> QED
      BY DEF Goto
  <2>2. CASE h # g
    <3>1. CASE TearSlot(h)
      BY <2>2, <3>1 DEF TearSlot, Goto
    <3>2. CASE TearAutomation(h)
      BY <2>2, <3>2 DEF TearAutomation, Goto
    <3>3. CASE \E from, to : Goto(h, from, to)
      BY <2>2, <3>3 DEF Goto
    <3> QED
      BY <1>3, <3>1, <3>2, <3>3, TaskMoves
  <2> QED
    BY <2>1, <2>2
<1>4. ASSUME NEW h \in Gens, SessionDrops(h) \/ SendNotification(h) \/ LateClear(h)
      PROVE  pc'[g] = pc[g]
  BY <1>4 DEF SessionDrops, SendNotification, LateClear
<1>5. ASSUME NEW h \in Gens, HandleDrop(h) PROVE pc'[g] = pc[g]
  BY <1>5 DEF HandleDrop, Goto
<1>6. ASSUME IgnoreStaleDrop PROVE pc'[g] = pc[g]
  BY <1>6 DEF IgnoreStaleDrop
<1>7. ASSUME NEW a \in Actors, ConnectPanics(a) PROVE pc'[g] = pc[g]
  <2> PICK step \in ConnectSteps : \E to : Goto(a, step, to)
    BY <1>7 DEF ConnectPanics
  <2> QED
    BY DEF Goto, ConnectSteps
<1> QED
  BY <1>1, <1>2, <1>3, <1>4, <1>5, <1>6, <1>7 DEF Next, Steps

(* A deferred teardown empties neither the slot nor the automation state   *)
(* of a connect newer than the session that dropped.                       *)
THEOREM TeardownsSpareNewer == Spec => TeardownSparesNewerAlways
<1>1. IInv /\ [Next]_vars => [TeardownSparesNewer]_vars
  <2> SUFFICES ASSUME IInv, Next, NEW g \in Gens
               PROVE  /\ pc[g] = "tearSlot" /\ pc'[g] = "checkStream" => slot <= g
                      /\ pc[g] = "tearAutomation" /\ pc'[g] = "beginOutage"
                            => automation <= g
    BY DEF TeardownSparesNewer
  <2> pc \in [Actors -> ClientSteps \cup TaskSteps] /\ g \in Actors
    BY DEF IInv, TypeOK, Actors
  <2>1. pc[g] = "tearSlot" /\ pc'[g] = "checkStream" => generation = g
    <3>1. CASE TearSlot(g)
      BY <3>1 DEF TearSlot, Superseded, Goto
    <3>2. CASE ~TearSlot(g)
      BY <3>2, OnlyTeardownTears DEF TearAutomation, Goto
    <3> QED
      BY <3>1, <3>2
  <2>2. pc[g] = "tearAutomation" /\ pc'[g] = "beginOutage" => generation = g
    <3>1. CASE TearAutomation(g)
      BY <3>1 DEF TearAutomation, Superseded, Goto
    <3>2. CASE ~TearAutomation(g)
      BY <3>2, OnlyTeardownTears DEF TearSlot, Goto
    <3> QED
      BY <3>1, <3>2
  <2> QED
    BY <2>1, <2>2 DEF IInv, Bounded
<1> QED
  BY Invariance, <1>1, PTL DEF Spec, TeardownSparesNewerAlways

-----------------------------------------------------------------------------
(* The refinement of SessionLife, one session at a time.                   *)

(* Where the life of a session stands against the connect that makes it.   *)
BeforeRdp == {"takeOld", "clean", "prepare", "rdp"}

LifeFollows ==
  /\ \A a \in Actors : /\ pc[a] \in BeforeRdp => life[mine[a]] = "none"
                       /\ pc[a] = "store" => life[mine[a]] # "none"
  /\ \A g \in Gens : /\ g > generation => life[g] = "none"
                     /\ life[g] = "none" => g \notin unsent /\ slot # g

(* A step that no session notices: nobody comes to make one, or to or from *)
(* the point where one is stored.                                          *)
Unnoticed ==
  /\ UNCHANGED <<generation, sessionVars>>
  /\ \A a \in Actors :
       /\ pc'[a] \in BeforeRdp => pc[a] \in BeforeRdp
       /\ pc'[a] = "store" <=> pc[a] = "store"
       /\ pc'[a] \in BeforeRdp \cup {"store"} => mine'[a] = mine[a]

LifeStep(g) == [Session(g)!Next]_(Session(g)!vars)

(* The session's part of the state stays, or its owner gives it up.        *)
LEMMA SameLife ==
  ASSUME NEW g \in Gens, life'[g] = life[g], (g \in unsent)' <=> (g \in unsent),
         Given(g)' <=> Given(g)
  PROVE  LifeStep(g)
<1>1. (g \in unsent)' = (g \in unsent)
  OBVIOUS
<1>2. Given(g)' = Given(g)
  BY DEF Given
<1> QED
  BY <1>1, <1>2 DEF LifeStep, Session!vars

LEMMA LetGoLife ==
  ASSUME NEW g \in Gens, Kill({g}), Given(g)', life[g] # "none"
  PROVE  LifeStep(g)
<1>1. life'[g] \in {life[g], IF life[g] = "live" THEN "closed" ELSE life[g]}
  BY DEF Kill
<1>2. ((g \in unsent)' = (g \in unsent)) \/ ((g \in unsent)' = FALSE)
  BY DEF Kill
<1>3. Given(g)' = TRUE
  BY DEF Given
<1>4. Session(g)!LetGo
  BY Zenon, <1>1, <1>2, <1>3 DEF Session!LetGo
<1> QED
  BY <1>4 DEF LifeStep, Session!Next

LEMMA UnnoticedLives ==
  ASSUME LifeFollows, Unnoticed
  PROVE  LifeFollows' /\ \A g \in Gens : LifeStep(g)
<1>1. LifeFollows'
  BY DEF LifeFollows, Unnoticed, sessionVars
<1>2. \A g \in Gens : Given(g)' <=> Given(g)
  BY DEF Given, Unnoticed, sessionVars
<1> QED
  BY <1>1, <1>2, SameLife DEF Unnoticed, sessionVars

(* A step of one actor that neither starts from nor leads to a place where *)
(* a session is waited for.                                                *)
LEMMA ElsewhereUnnoticed ==
  ASSUME TypeOK, NEW a \in Actors, NEW from, NEW to, Goto(a, from, to),
         UNCHANGED <<generation, sessionVars>>,
         UNCHANGED mine \/ EndConnect(a),
         from # "store", to # "store",
         to \in BeforeRdp => from \in BeforeRdp /\ UNCHANGED mine
  PROVE  Unnoticed
BY DEF TypeOK, Goto, EndConnect, Unnoticed, BeforeRdp

(* The owner of the session in the slot lets go of it.                     *)
LEMMA SlotLetGo ==
  ASSUME IInv, LifeFollows, NEW a \in Actors, NEW from, NEW to, Goto(a, from, to),
         Kill({slot}), UNCHANGED <<generation, mine>>,
         \/ slot' = 0 /\ from # "store"
         \/ from = "store" /\ slot' = mine[a],
         to # "store", to \in BeforeRdp => from \in BeforeRdp
  PROVE  LifeFollows' /\ \A g \in Gens : LifeStep(g)
<1> TypeOK /\ NotStoredYet /\ Distinct
  BY DEF IInv
<1> mine[a] \in 0 .. MaxGen
  BY DEF TypeOK
<1>1. \A g \in Gens : (life'[g] = "none" <=> life[g] = "none") /\ (g \in unsent' => g \in unsent)
  BY DEF Kill, TypeOK
<1>2. \A b \in Actors : pc'[b] \in BeforeRdp \cup {"store"} =>
         mine[b] \in Gens /\ pc[b] \in BeforeRdp \cup {"store"}
  BY DEF IInv, TypeOK, Goto, Claimed, Holding, HoldSteps, ConnectSteps, BeforeRdp, Gens
<1>3. LifeFollows'
  <2>1. ASSUME NEW b \in Actors
        PROVE  /\ pc'[b] \in BeforeRdp => life'[mine[b]] = "none"
               /\ pc'[b] = "store" => life'[mine[b]] # "none"
    BY <1>1, <1>2 DEF LifeFollows, TypeOK, Goto, BeforeRdp
  <2>2. ASSUME NEW g \in Gens
        PROVE  /\ g > generation => life'[g] = "none"
               /\ life'[g] = "none" => g \notin unsent' /\ slot' # g
    BY <1>1 DEF LifeFollows, Gens, Goto
  <2> QED
    BY <2>1, <2>2 DEF LifeFollows
<1>4. ASSUME NEW g \in Gens, g = slot PROVE LifeStep(g)
  <2>1. \A b \in Actors : mine[b] = g => pc[b] # "store"
    BY <1>4 DEF NotStoredYet, BeforeStore
  <2>2. life[g] # "none" /\ life'[g] # "none"
    BY <1>1, <1>4 DEF LifeFollows
  <2>3. slot' # g
    BY <1>4, <2>1 DEF Gens, Goto
  <2>4. Given(g)'
    BY <2>1, <2>2, <2>3 DEF Given, Goto, TypeOK
  <2> QED
    BY <1>4, <2>2, <2>4, LetGoLife
<1>5. ASSUME NEW g \in Gens, g # slot PROVE LifeStep(g)
  <2>1. life'[g] = life[g] /\ (g \in unsent' <=> g \in unsent)
    BY <1>5 DEF Kill
  <2>2. (\E b \in Actors : mine[b] = g /\ pc[b] = "store")
          <=> \/ slot' = g
              \/ \E b \in Actors : mine[b] = g /\ pc'[b] = "store"
    <3>1. CASE from # "store"
      BY <3>1 DEF Goto, TypeOK, Gens
    <3>2. CASE from = "store"
      BY <3>2 DEF Goto, TypeOK, Gens, Distinct
    <3> QED
      BY <3>1, <3>2
  <2>3. Given(g)' <=> Given(g)
    BY <1>5, <2>1, <2>2 DEF Given
  <2> QED
    BY <2>1, <2>3, SameLife
<1> QED
  BY <1>3, <1>4, <1>5

(* A session that never got into the slot is dropped with its connect.     *)
LEMMA UnstoredLetGo ==
  ASSUME IInv, LifeFollows, NEW a \in Actors, NEW to, Goto(a, "store", to),
         Kill({mine[a]}), UNCHANGED <<generation, slot>>,
         UNCHANGED mine \/ EndConnect(a),
         to \notin BeforeRdp \cup {"store"}
  PROVE  LifeFollows' /\ \A g \in Gens : LifeStep(g)
<1> TypeOK /\ NotStoredYet /\ Distinct
  BY DEF IInv
<1>0. mine[a] \in Gens
  BY DEF IInv, TypeOK, Goto, Claimed, Holding, HoldSteps, ConnectSteps, Gens
<1>1. \A g \in Gens : (life'[g] = "none" <=> life[g] = "none") /\ (g \in unsent' => g \in unsent)
  BY DEF Kill, TypeOK
<1>2. \A b \in Actors : pc'[b] \in BeforeRdp \cup {"store"} =>
         b # a /\ mine'[b] = mine[b] /\ mine[b] \in Gens /\ pc'[b] = pc[b]
  <2> SUFFICES ASSUME NEW b \in Actors, pc'[b] \in BeforeRdp \cup {"store"}
               PROVE  b # a /\ mine'[b] = mine[b] /\ mine[b] \in Gens /\ pc'[b] = pc[b]
    OBVIOUS
  <2>1. b # a /\ pc'[b] = pc[b]
    BY DEF TypeOK, Goto
  <2>2. mine'[b] = mine[b]
    BY <2>1 DEF TypeOK, EndConnect
  <2>3. mine[b] \in Gens
    BY <2>1 DEF IInv, TypeOK, Claimed, Holding, HoldSteps, ConnectSteps, BeforeRdp, Gens
  <2> QED
    BY <2>1, <2>2, <2>3
<1>3. LifeFollows'
  <2>1. ASSUME NEW b \in Actors
        PROVE  /\ pc'[b] \in BeforeRdp => life'[mine'[b]] = "none"
               /\ pc'[b] = "store" => life'[mine'[b]] # "none"
    BY <1>1, <1>2 DEF LifeFollows
  <2>2. ASSUME NEW g \in Gens
        PROVE  /\ g > generation => life'[g] = "none"
               /\ life'[g] = "none" => g \notin unsent' /\ slot # g
    BY <1>1 DEF LifeFollows
  <2> QED
    BY <2>1, <2>2 DEF LifeFollows
<1>4. ASSUME NEW g \in Gens, g = mine[a] PROVE LifeStep(g)
  <2>1. life[g] # "none" /\ life'[g] # "none" /\ slot # g
    BY <1>1, <1>4 DEF LifeFollows, Goto, NotStoredYet, BeforeStore
  <2>2. \A b \in Actors : ~(mine'[b] = g /\ pc'[b] = "store")
    BY <1>2, <1>4 DEF Distinct, Gens
  <2>3. Given(g)'
    BY <2>1, <2>2 DEF Given
  <2> QED
    BY <1>4, <2>1, <2>3, LetGoLife
<1>5. ASSUME NEW g \in Gens, g # mine[a] PROVE LifeStep(g)
  <2>1. life'[g] = life[g] /\ (g \in unsent' <=> g \in unsent)
    BY <1>5 DEF Kill
  <2>2. \A b \in Actors : mine'[b] = g /\ pc'[b] = "store" <=> mine[b] = g /\ pc[b] = "store"
    BY <1>2, <1>5 DEF Goto, TypeOK, EndConnect
  <2>3. Given(g)' <=> Given(g)
    BY <2>1, <2>2 DEF Given
  <2> QED
    BY <2>1, <2>3, SameLife
<1> QED
  BY <1>3, <1>4, <1>5

LEMMA UserLives ==
  ASSUME TypeOK, NEW c \in Clients, UserStep(c)
  PROVE  Unnoticed
<1> c \in Actors
  BY DEF Actors
<1>1. CASE UserConnectInvalid(c)
  BY <1>1 DEF UserConnectInvalid, Unnoticed, handlerVars
<1>2. CASE UserDisconnect(c) \/ \E r \in Requests : UserConnect(c, r)
  <2>1. \E to \in {"disarm", "claim"} : Goto(c, "idle", to)
    BY <1>2 DEF UserDisconnect, UserConnect
  <2>2. UNCHANGED <<generation, sessionVars, mine>>
    BY <1>2 DEF UserDisconnect, UserConnect, handlerVars
  <2> QED
    BY <2>1, <2>2, ElsewhereUnnoticed DEF BeforeRdp
<1> QED
  BY <1>1, <1>2 DEF UserStep

LEMMA ClientLives ==
  ASSUME IInv, LifeFollows, NEW c \in Clients, ClientStep(c)
  PROVE  LifeFollows' /\ \A g \in Gens : LifeStep(g)
<1> TypeOK /\ c \in Actors
  BY DEF IInv, Actors
<1>1. CASE DisconnectSlot(c)
  BY <1>1, SlotLetGo DEF DisconnectSlot, BeforeRdp, countVars, handlerVars
<1>2. CASE ~DisconnectSlot(c)
  <2>1. \E from, to : /\ Goto(c, from, to) /\ from # "store"
                      /\ to \notin BeforeRdp \cup {"store"}
    BY <1>2 DEF ClientStep, DisarmStep, DisconnectStream, DisconnectAutomation,
       RememberRequest, ReportFailure, BeforeRdp
  <2>2. UNCHANGED <<generation, sessionVars>> /\ (UNCHANGED mine \/ EndConnect(c))
    BY <1>2 DEF ClientStep, DisarmStep, DisconnectStream, DisconnectAutomation,
       RememberRequest, ReportFailure, countVars, handlerVars
  <2> QED
    BY <2>1, <2>2, ElsewhereUnnoticed, UnnoticedLives
<1> QED
  BY <1>1, <1>2

(* A generation that is claimed has no session yet.                        *)
LEMMA ClaimLives ==
  ASSUME IInv, LifeFollows, NEW a \in Actors, ClaimGeneration(a)
  PROVE  LifeFollows' /\ \A g \in Gens : LifeStep(g)
<1> USE DEF ClaimGeneration, sessionVars
<1> TypeOK
  BY DEF IInv
<1>1. generation + 1 \in Gens /\ life[generation + 1] = "none"
  BY DEF TypeOK, Gens, LifeFollows
<1>2. LifeFollows'
  <2>1. ASSUME NEW b \in Actors
        PROVE  /\ pc'[b] \in BeforeRdp => life[mine'[b]] = "none"
               /\ pc'[b] = "store" => life[mine'[b]] # "none"
    BY <1>1 DEF LifeFollows, TypeOK, Goto, BeforeRdp
  <2>2. ASSUME NEW g \in Gens, g > generation + 1 PROVE life[g] = "none"
    BY <2>2 DEF LifeFollows, TypeOK, Gens
  <2> QED
    BY <2>1, <2>2 DEF LifeFollows
<1>3. ASSUME NEW g \in Gens PROVE Given(g)' <=> Given(g)
  <2>1. CASE g = generation + 1
    BY <1>1, <2>1 DEF Given
  <2>2. CASE g # generation + 1
    <3>1. \A b \in Actors : mine'[b] = g /\ pc'[b] = "store"
                              <=> mine[b] = g /\ pc[b] = "store"
      BY <2>2 DEF Goto, TypeOK
    <3> QED
      BY <3>1 DEF Given
  <2> QED
    BY <2>1, <2>2
<1> QED
  BY <1>2, <1>3, SameLife

(* The session starts; its connect is its owner.                           *)
LEMMA RdpLives ==
  ASSUME IInv, LifeFollows, NEW a \in Actors, RdpConnect(a)
  PROVE  LifeFollows' /\ \A g \in Gens : LifeStep(g)
<1> USE DEF RdpConnect
<1> UNCHANGED <<generation, slot, unsent, mine>>
  BY DEF countVars, handlerVars
<1> TypeOK /\ Distinct
  BY DEF IInv
<1>1. mine[a] \in Gens /\ life[mine[a]] = "none" /\ mine[a] <= generation /\ slot # mine[a]
  BY DEF IInv, TypeOK, Goto, Claimed, Holding, HoldSteps, ConnectSteps, BeforeRdp, LifeFollows,
     Gens
<1>2. \A b \in Actors : b # a /\ pc[b] \in BeforeRdp \cup {"store"} =>
         mine[b] # mine[a] /\ mine[b] \in Gens
  BY SMTT(20), <1>1 DEF IInv, TypeOK, Distinct, Claimed, Holding, HoldSteps, ConnectSteps, BeforeRdp,
     Gens
<1>3. LifeFollows'
  <2>1. ASSUME NEW b \in Actors
        PROVE  /\ pc'[b] \in BeforeRdp => life'[mine[b]] = "none"
               /\ pc'[b] = "store" => life'[mine[b]] # "none"
    BY <1>1, <1>2 DEF LifeFollows, TypeOK, Goto, BeforeRdp
  <2>2. ASSUME NEW g \in Gens
        PROVE  /\ g > generation => life'[g] = "none"
               /\ life'[g] = "none" => g \notin unsent' /\ slot' # g
    BY <1>1 DEF LifeFollows, TypeOK, Gens
  <2> QED
    BY <2>1, <2>2 DEF LifeFollows
<1>4. ASSUME NEW g \in Gens, g = mine[a] PROVE LifeStep(g)
  <2>1. ~Given(g) /\ ~Given(g)' /\ life'[g] = "live"
    BY <1>1, <1>4 DEF Given, Goto, TypeOK
  <2>2. Given(g)' = Given(g) /\ (g \in unsent)' = (g \in unsent)
    BY <2>1 DEF Given
  <2>3. Session(g)!Start
    BY <1>1, <1>4, <2>1, <2>2 DEF Session!Start
  <2> QED
    BY <2>3 DEF LifeStep, Session!Next
<1>5. ASSUME NEW g \in Gens, g # mine[a] PROVE LifeStep(g)
  <2>1. life'[g] = life[g]
    BY <1>5 DEF TypeOK
  <2>2. \A b \in Actors : mine[b] = g => pc'[b] = pc[b]
    BY <1>5 DEF Goto, TypeOK
  <2>3. Given(g)' <=> Given(g)
    BY <2>1, <2>2 DEF Given
  <2> QED
    BY <2>1, <2>3, SameLife
<1> QED
  BY <1>3, <1>4, <1>5

LEMMA ConnectLives ==
  ASSUME IInv, LifeFollows, NEW a \in Actors, ConnectStep(a)
  PROVE  LifeFollows' /\ \A g \in Gens : LifeStep(g)
<1> TypeOK
  BY DEF IInv
<1>1. CASE TakeOld(a) \/ StoreSession(a)
  BY <1>1, SlotLetGo DEF TakeOld, StoreSession, BeforeRdp, countVars, handlerVars
<1>2. CASE RefuseDeadSession(a)
  BY <1>2, UnstoredLetGo DEF RefuseDeadSession, BeforeRdp, countVars, handlerVars
<1>3. CASE \/ CleanAutomation(a) \/ PrepareAutomation(a) \/ RdpConnectFails(a)
           \/ StartStream(a) \/ ProbeDrop(a) \/ ConfirmSlot(a) \/ ForgetDrop(a)
  <2> DEFINE Bland == {"clean", "prepare", "rdp", "stream", "bootstrap", "confirm", "clearDrop"}
  <2>1. \E from \in Bland : \E to :
           /\ Goto(a, from, to) /\ to # "store"
           /\ to \in BeforeRdp => from \in BeforeRdp /\ UNCHANGED mine
    BY <1>3 DEF CleanAutomation, PrepareAutomation, RdpConnectFails, StartStream, ProbeDrop,
       ConfirmSlot, ForgetDrop, BeforeRdp, handlerVars
  <2>2. UNCHANGED <<generation, sessionVars>> /\ (UNCHANGED mine \/ EndConnect(a))
    BY <1>3 DEF CleanAutomation, PrepareAutomation, RdpConnectFails, StartStream, ProbeDrop,
       ConfirmSlot, ForgetDrop, countVars, handlerVars
  <2> QED
    BY <2>1, <2>2, ElsewhereUnnoticed, UnnoticedLives
<1> QED
  BY <1>1, <1>2, <1>3, ClaimLives, RdpLives DEF ConnectStep

LEMMA TaskLives ==
  ASSUME IInv, LifeFollows, NEW g \in Gens, TaskStep(g)
  PROVE  LifeFollows' /\ \A h \in Gens : LifeStep(h)
<1> TypeOK /\ g \in Actors
  BY DEF IInv, Actors
<1>1. CASE TearSlot(g) /\ ~Superseded(g)
  BY <1>1, SlotLetGo DEF TearSlot, BeforeRdp, countVars, handlerVars
<1>2. CASE ~(TearSlot(g) /\ ~Superseded(g))
  <2> DEFINE Clear(from, to) == /\ Goto(g, from, to) /\ from # "store"
                                /\ to \notin BeforeRdp \cup {"store"}
  <2>1. \E from, to : Clear(from, to)
    <3> USE DEF BeforeRdp
    <3>1. CASE TearSlot(g)
      BY <1>2, <3>1 DEF TearSlot
    <3>2. CASE CheckStream(g)
      BY <3>2 DEF CheckStream
    <3>3. CASE TearStream(g) \/ TearClip(g)
      BY <3>3 DEF TearStream, TearClip
    <3>4. CASE TearAutomation(g)
      BY <3>4 DEF TearAutomation
    <3>5. CASE BeginOutageStep(g)
      <4> \E to \in {"decide", "done"} : Goto(g, "beginOutage", to)
        BY <3>5 DEF BeginOutageStep, BeginOutage
      <4> QED
        OBVIOUS
    <3>6. CASE Decide(g) \/ Wake(g)
      BY <3>6 DEF Decide, Wake, Verdict
    <3>7. CASE Publish(g) \/ StandDownStep(g) \/ ClaimInFlight(g) \/ NoteReconnected(g)
               \/ GiveUp(g)
      BY <3>7 DEF Publish, StandDownStep, ClaimInFlight, NoteReconnected, GiveUp
    <3>8. CASE EndAttempt(g)
      <4> PICK outcome \in Outcomes : Goto(g, outcome, AfterAttempt[outcome])
        BY <3>8 DEF EndAttempt
      <4> QED
        BY DEF Outcomes, AfterAttempt
    <3> QED
      BY <3>1, <3>2, <3>3, <3>4, <3>5, <3>6, <3>7, <3>8 DEF TaskStep
  <2>2. UNCHANGED <<generation, sessionVars>> /\ (UNCHANGED mine \/ EndConnect(g))
    BY <1>2 DEF TaskStep, TearSlot, CheckStream, TearStream, TearClip, TearAutomation,
       BeginOutageStep, Decide, Publish, Wake, StandDownStep, ClaimInFlight, EndAttempt,
       NoteReconnected, GiveUp, countVars, handlerVars
  <2> QED
    BY <2>1, <2>2, ElsewhereUnnoticed, UnnoticedLives
<1> QED
  BY <1>1, <1>2

LEMMA DropLives ==
  ASSUME IInv, LifeFollows, NEW g \in Gens, SessionDrops(g)
  PROVE  LifeFollows' /\ \A h \in Gens : LifeStep(h)
<1> USE DEF SessionDrops
<1> UNCHANGED <<generation, slot, mine, pc>>
  BY DEF countVars, handlerVars
<1> TypeOK
  BY DEF IInv
<1>1. \A h \in Gens : (life'[h] = "none" <=> life[h] = "none")
  BY DEF TypeOK
<1>2. \A b \in Actors : pc[b] \in BeforeRdp \cup {"store"} => mine[b] \in Gens
  BY DEF IInv, TypeOK, Claimed, Holding, HoldSteps, ConnectSteps, BeforeRdp, Gens
<1>3. LifeFollows'
  BY <1>1, <1>2 DEF LifeFollows
<1>4. \A h \in Gens : Given(h)' <=> Given(h)
  BY <1>1 DEF Given
<1>5. LifeStep(g)
  <2>1. (g \in unsent)' = TRUE /\ Given(g)' = Given(g) /\ life'[g] = "dropped"
    BY <1>4 DEF Given, TypeOK
  <2>2. Session(g)!Drop
    BY <2>1 DEF Session!Drop
  <2> QED
    BY <2>2 DEF LifeStep, Session!Next
<1>6. ASSUME NEW h \in Gens, h # g PROVE LifeStep(h)
  BY <1>4, <1>6, SameLife DEF TypeOK
<1> QED
  BY <1>3, <1>5, <1>6

LEMMA NoticeLives ==
  ASSUME IInv, LifeFollows, NEW g \in Gens, SendNotification(g)
  PROVE  LifeFollows' /\ \A h \in Gens : LifeStep(h)
<1> USE DEF SendNotification
<1> UNCHANGED <<generation, slot, life, mine, pc>>
  BY DEF countVars, handlerVars
<1>1. LifeFollows'
  BY DEF LifeFollows
<1>2. \A h \in Gens : Given(h)' <=> Given(h)
  BY DEF Given
<1>3. LifeStep(g)
  <2>1. (g \in unsent)' = FALSE /\ Given(g)' = Given(g)
    BY <1>2 DEF Given
  <2>2. Session(g)!Notify
    BY <2>1 DEF Session!Notify
  <2> QED
    BY <2>2 DEF LifeStep, Session!Next
<1>4. ASSUME NEW h \in Gens, h # g PROVE LifeStep(h)
  BY <1>2, <1>4, SameLife
<1> QED
  BY <1>1, <1>3, <1>4

LEMMA PanicLives ==
  ASSUME IInv, LifeFollows, NEW a \in Actors, ConnectPanics(a)
  PROVE  LifeFollows' /\ \A g \in Gens : LifeStep(g)
<1> TypeOK
  BY DEF IInv
<1>1. EndConnect(a) /\ UNCHANGED <<generation, slot>>
  BY DEF ConnectPanics, countVars
<1>2. PICK step \in ConnectSteps \ {"takeOld"} : Goto(a, step, IF a \in Clients THEN "idle" ELSE "done")
  BY DEF ConnectPanics
<1>3. CASE step = "store"
  <2>1. Kill({mine[a]})
    BY <1>2, <1>3 DEF ConnectPanics, Goto
  <2> QED
    BY <1>1, <1>2, <1>3, <2>1, UnstoredLetGo DEF BeforeRdp
<1>4. CASE step # "store"
  <2>1. UNCHANGED <<life, unsent>>
    BY <1>2, <1>4 DEF ConnectPanics, Goto
  <2> QED
    BY <1>1, <1>2, <1>4, <2>1, ElsewhereUnnoticed, UnnoticedLives DEF BeforeRdp, sessionVars
<1> QED
  BY <1>3, <1>4

LEMMA LifeInv == IInv /\ LifeFollows /\ [Next]_vars => LifeFollows' /\ \A g \in Gens : LifeStep(g)
<1> SUFFICES ASSUME IInv, LifeFollows, [Next]_vars
             PROVE  LifeFollows' /\ \A g \in Gens : LifeStep(g)
  OBVIOUS
<1> TypeOK
  BY DEF IInv
<1>1. ASSUME NEW g \in Gens, HandleDrop(g) PROVE Unnoticed
  <2>1. Goto(g, "unborn", "tearSlot") /\ g \in Actors
    BY <1>1 DEF HandleDrop, Actors
  <2> QED
    BY <1>1, <2>1, ElsewhereUnnoticed DEF HandleDrop, BeforeRdp, countVars, handlerVars
<1>2. CASE (\E g \in Gens : LateClear(g)) \/ IgnoreStaleDrop \/ UNCHANGED vars
  <2>1. UNCHANGED <<generation, sessionVars, pc, mine>>
    BY <1>2 DEF LateClear, IgnoreStaleDrop, vars, countVars, handlerVars
  <2>2. Unnoticed
    BY <2>1 DEF Unnoticed
  <2> QED
    BY <2>2, UnnoticedLives
<1> QED
  BY <1>1, <1>2, UserLives, UnnoticedLives, ClientLives, ConnectLives, TaskLives, DropLives,
     NoticeLives, PanicLives DEF Next, Steps

LEMMA LifeStarts == Init => LifeFollows /\ \A g \in Gens : Session(g)!Init
<1> SUFFICES ASSUME Init PROVE LifeFollows /\ \A g \in Gens : Session(g)!Init
  OBVIOUS
<1>1. \A a \in Actors : pc[a] \notin BeforeRdp \cup {"store"}
  BY DEF Init, BeforeRdp
<1>2. \A g \in Gens : life[g] = "none" /\ g \notin unsent /\ slot # g
  BY DEF Init, Gens
<1>3. LifeFollows
  BY <1>1, <1>2 DEF LifeFollows
<1> QED
  BY <1>2, <1>3 DEF Session!Init, Given

(* Every session the daemon makes lives the life FrameProcessor promises:  *)
(* it starts once, its drop is noticed once, and it is closed, or robbed   *)
(* of a notice it still owes, only after the daemon has let go of it.      *)
THEOREM SessionsAreKept == Spec => SessionsKeepPromise
<1>1. Init => IInv /\ LifeFollows /\ \A g \in Gens : Session(g)!Init
  BY InitInv, LifeStarts
<1>2. IInv /\ LifeFollows /\ [Next]_vars
        => IInv' /\ LifeFollows' /\ \A g \in Gens : [Session(g)!Next]_(Session(g)!vars)
  BY NextInv, LifeInv DEF LifeStep
<1>3. IInv /\ LifeFollows /\ [Next]_vars
        => [\A g \in Gens : [Session(g)!Next]_(Session(g)!vars)]_vars
  BY <1>2
<1> QED
  BY <1>1, <1>2, <1>3, PTL DEF Spec, SessionsKeepPromise

(* What the promise is worth to the daemon.                                *)
EndsForGood(g) ==
  /\ life[g] # "none" => life[g]' # "none"
  /\ life[g] \in {"dropped", "closed"} => life[g]' = life[g]
  /\ ~(g \in unsent) /\ (g \in unsent)' => life[g] = "live" /\ life[g]' = "dropped"
  /\ Given(g) => Given(g)'

LEMMA LifeHolds ==
  ASSUME NEW g \in Gens, Session(g)!HeldOrTold, LifeStep(g)
  PROVE  Session(g)!HeldOrTold' /\ EndsForGood(g)
<1> USE DEF Session!HeldOrTold, EndsForGood
<1>1. CASE Session(g)!Start
  BY <1>1 DEF Session!Start
<1>2. CASE Session(g)!Drop
  BY <1>2 DEF Session!Drop
<1>3. CASE Session(g)!Notify
  BY <1>3 DEF Session!Notify
<1>4. CASE Session(g)!LetGo
  BY <1>4 DEF Session!LetGo
<1>5. CASE UNCHANGED Session(g)!vars
  BY <1>5 DEF Session!vars
<1> QED
  BY <1>1, <1>2, <1>3, <1>4, <1>5 DEF LifeStep, Session!Next

(* A session the daemon closes is one it has let go of; one that dropped   *)
(* stays dropped, owes one notice for it, and neither a slot nor a connect *)
(* ever takes back a session that was given up (handlers/connect.rs, the   *)
(* drop arm of daemon.rs).                                                 *)
THEOREM SessionsEndOnce ==
  ASSUME NEW h \in Gens
  PROVE  Spec => []Session(h)!HeldOrTold /\ Session(h)!EndsOnce
<1>1. (\A g \in Gens : Session(g)!Init) => Session(h)!HeldOrTold
  BY DEF Session!Init, Session!HeldOrTold
<1>2. Session(h)!HeldOrTold /\ [\A g \in Gens : [Session(g)!Next]_(Session(g)!vars)]_vars
        => Session(h)!HeldOrTold' /\ [EndsForGood(h)]_(Session(h)!vars)
  <2>1. UNCHANGED vars => UNCHANGED Session(h)!vars
    BY DEF vars, sessionVars, handlerVars, Session!vars, Given
  <2>2. [\A g \in Gens : [Session(g)!Next]_(Session(g)!vars)]_vars => LifeStep(h)
    BY <2>1 DEF LifeStep
  <2> QED
    BY <2>2, LifeHolds
<1> QED
  BY <1>1, <1>2, SessionsAreKept, PTL
     DEF SessionsKeepPromise, Session!EndsOnce, EndsForGood

-----------------------------------------------------------------------------
(* Closed on purpose.                                                      *)

LEMMA StaysDisconnected ==
  ASSUME Disconnected, slot' = 0, ~auto'.enabled,
         NEW a \in Actors, NEW to, pc' = [pc EXCEPT ![a] = to], pc \in [Actors -> ClientSteps \cup TaskSteps],
         to \notin PastChecks, a \in Clients => to # "connected"
  PROVE  Disconnected'
BY DEF Disconnected, Actors

LEMMA NextDisconnected ==
  ASSUME IInv, [Next]_vars, Disconnected, ~UserConnects
  PROVE  Disconnected'
<1>1. /\ auto \in AutoReconnectState /\ pc \in [Actors -> ClientSteps \cup TaskSteps]
      /\ slot = 0 /\ ~auto.enabled
      /\ \A a \in Actors : pc[a] \notin PastChecks
      /\ \A c \in Clients : pc[c] # "connected"
      /\ Clients \subseteq Actors /\ Gens \subseteq Actors /\ Clients \cap Gens = {}
  BY DEF IInv, TypeOK, Disconnected, Actors
<1>2. UNCHANGED <<slot, auto, pc>> => Disconnected'
  BY DEF Disconnected
<1>3. \A s \in BOOLEAN : ~[auto EXCEPT !.scheduled = s].enabled
  BY <1>1 DEF AutoReconnectState
<1>4. ~[auto EXCEPT !.inFlight = FALSE].enabled
  BY <1>1 DEF AutoReconnectState
<1>5. ASSUME NEW c \in Clients, UserStep(c) PROVE Disconnected'
  <2>1. ASSUME NEW r \in Requests, UserConnect(c, r) PROVE FALSE
    BY <1>1, <2>1 DEF UserConnect, Goto, UserConnects
  <2>2. CASE UserConnectInvalid(c)
    BY <1>2, <2>2 DEF UserConnectInvalid, sessionVars, autoVars
  <2>3. CASE UserDisconnect(c)
    BY <1>1, <2>3, StaysDisconnected DEF UserDisconnect, sessionVars, autoVars, Goto, PastChecks
  <2> QED BY <1>5, <2>1, <2>2, <2>3 DEF UserStep
<1>6. ASSUME NEW c \in Clients, ClientStep(c) PROVE Disconnected'
  <2>1. CASE DisarmStep(c)
    <3>1. ~Disarm(auto).enabled
      BY <1>1 DEF Disarm, AutoReconnectState
    <3> QED BY <1>1, <2>1, <3>1, StaysDisconnected DEF DisarmStep, sessionVars, Goto, PastChecks
  <2>2. CASE DisconnectStream(c) \/ DisconnectAutomation(c)
    BY <1>1, <2>2, StaysDisconnected
       DEF DisconnectStream, DisconnectAutomation, sessionVars, autoVars, Goto, PastChecks
  <2>3. CASE DisconnectSlot(c) \/ ReportFailure(c)
    BY <1>1, <2>3, StaysDisconnected
       DEF DisconnectSlot, ReportFailure, sessionVars, autoVars, Goto, PastChecks
  <2>4. CASE RememberRequest(c)
    BY <1>1, <2>4 DEF RememberRequest, Goto
  <2> QED BY <1>6, <2>1, <2>2, <2>3, <2>4 DEF ClientStep
<1>7. ASSUME NEW a \in Actors, ConnectStep(a) PROVE Disconnected'
  <2>1. CASE \/ ClaimGeneration(a) \/ TakeOld(a) \/ CleanAutomation(a) \/ PrepareAutomation(a)
             \/ RdpConnect(a) \/ RdpConnectFails(a) \/ StoreSession(a) \/ RefuseDeadSession(a)
    BY <1>1, <2>1 DEF ClaimGeneration, TakeOld, CleanAutomation, PrepareAutomation, RdpConnect,
       RdpConnectFails, StoreSession, RefuseDeadSession, Goto, PastChecks
  <2>2. CASE StartStream(a) \/ ProbeDrop(a) \/ ForgetDrop(a)
    BY <1>1, <2>2, StaysDisconnected
       DEF StartStream, ProbeDrop, ForgetDrop, sessionVars, autoVars, Goto, PastChecks
  <2>3. CASE ConfirmSlot(a)
    <3>1. pc[a] = "confirm" /\ mine[a] # 0
      BY <2>3 DEF ConfirmSlot, Goto, IInv, Claimed, Holding, HoldSteps, ConnectSteps
    <3>2. pc' = [pc EXCEPT ![a] = "failed"]
      BY <1>1, <2>3, <3>1 DEF ConfirmSlot, Goto
    <3> QED BY <1>1, <2>3, <3>2, StaysDisconnected DEF ConfirmSlot, sessionVars, autoVars, PastChecks
  <2> QED BY <1>7, <2>1, <2>2, <2>3 DEF ConnectStep
<1>8. ASSUME NEW g \in Gens, TaskStep(g) PROVE Disconnected'
  <2>1. \A to : Verdict(g, to) \in {"done", "standDown"}
    BY <1>1 DEF Verdict, ShouldAttempt
  <2>2. CASE \/ TearSlot(g) \/ CheckStream(g) \/ TearStream(g) \/ TearClip(g) \/ TearAutomation(g)
    BY <1>1, <2>2, StaysDisconnected DEF TearSlot, CheckStream, TearStream, TearClip,
       TearAutomation, sessionVars, autoVars, Goto, PastChecks
  <2>3. CASE BeginOutageStep(g)
    BY <1>1, <2>3, StaysDisconnected DEF BeginOutageStep, BeginOutage, sessionVars, Goto, PastChecks
  <2>4. CASE Decide(g) \/ Wake(g)
    BY <1>1, <2>1, <2>4, StaysDisconnected DEF Decide, Wake, sessionVars, autoVars, Goto, PastChecks
  <2>5. CASE Publish(g)
    BY <1>1, <1>3, <2>5, StaysDisconnected DEF Publish, sessionVars, Goto, PastChecks
  <2>6. CASE StandDownStep(g)
    BY <1>1, <1>3, <2>6, StaysDisconnected DEF StandDownStep, StandDown, sessionVars, Goto, PastChecks
  <2>7. CASE ClaimInFlight(g)
    BY <1>1, <2>7 DEF ClaimInFlight, Goto, PastChecks
  <2>8. CASE EndAttempt(g)
    <3>1. PICK outcome \in Outcomes : pc' = [pc EXCEPT ![g] = AfterAttempt[outcome]]
      BY <2>8 DEF EndAttempt, Goto
    <3>2. AfterAttempt[outcome] \notin PastChecks
      BY DEF AfterAttempt, Outcomes, PastChecks
    <3>3. UNCHANGED slot /\ ~auto'.enabled
      BY <1>1, <1>4, <2>8 DEF EndAttempt, ReleaseInFlight, sessionVars
    <3> QED BY <1>1, <3>1, <3>2, <3>3, StaysDisconnected
  <2>9. CASE NoteReconnected(g) \/ GiveUp(g)
    <3>1. ~NoteSuccess(auto).enabled /\ ~Stop(auto).enabled
      BY <1>1 DEF NoteSuccess, Stop, AutoReconnectState
    <3> QED BY <1>1, <2>9, <3>1, StaysDisconnected
          DEF NoteReconnected, GiveUp, sessionVars, Goto, PastChecks
  <2> QED BY <1>8, <2>2, <2>3, <2>4, <2>5, <2>6, <2>7, <2>8, <2>9 DEF TaskStep
<1>9. ASSUME NEW g \in Gens, SessionDrops(g) \/ SendNotification(g) \/ LateClear(g)
      PROVE  Disconnected'
  BY <1>1, <1>2, <1>4, <1>9 DEF SessionDrops, SendNotification, LateClear, sessionVars, autoVars,
     Disconnected
<1>10. ASSUME NEW g \in Gens, HandleDrop(g) PROVE Disconnected'
  BY <1>1, <1>10, StaysDisconnected DEF HandleDrop, sessionVars, autoVars, Goto, PastChecks
<1>11. CASE IgnoreStaleDrop \/ UNCHANGED vars
  BY <1>2, <1>11 DEF IgnoreStaleDrop, vars, sessionVars, autoVars
<1>12. ASSUME NEW a \in Actors, ConnectPanics(a) PROVE Disconnected'
  <2>1. /\ UNCHANGED slot
        /\ auto' = auto \/ auto' = [auto EXCEPT !.inFlight = FALSE]
        /\ pc' = [pc EXCEPT ![a] = IF a \in Clients THEN "idle" ELSE "done"]
    BY <1>12 DEF ConnectPanics, ReleaseInFlight, Goto, autoVars
  <2> QED BY <1>1, <1>4, <2>1, StaysDisconnected DEF PastChecks
<1> QED
  BY <1>5, <1>6, <1>7, <1>8, <1>9, <1>10, <1>11, <1>12 DEF Next, Steps

(* A session closed on purpose stays closed, where no connect had got past *)
(* its last check when the disconnect came (see ClosedStaysClosed, which   *)
(* one that had violates): no RDP connection is up, and no task of an      *)
(* earlier drop brings one back before a user connects again.              *)
THEOREM DisconnectsLast ==
  Spec => [](Disconnected => \A g \in Gens : life[g] # "live") /\ DisconnectedStays
<1>1. IInv => (Disconnected => \A g \in Gens : life[g] # "live")
  <2> SUFFICES ASSUME IInv, Disconnected, NEW g \in Gens, life[g] = "live" PROVE FALSE
    OBVIOUS
  <2>1. g # 0
    BY DEF Gens
  <2> QED BY <2>1 DEF IInv, NoOrphanSession, Disconnected, PastChecks
<1>2. IInv /\ [Next]_vars => [Disconnected /\ ~UserConnects => Disconnected']_vars
  BY NextDisconnected
<1> QED
  BY <1>1, <1>2, Invariance, PTL DEF Spec, DisconnectedStays

=============================================================================
