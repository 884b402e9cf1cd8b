----------------------- MODULE FrameProcessor_proofs ------------------------
(***************************************************************************)
(* Proofs about FrameProcessor, for every strike limit, queue and buffer:  *)
(* that it keeps the promise of SessionLife, that every end of the task is *)
(* told, and that a healthy server is spared.                              *)
(***************************************************************************)
EXTENDS FrameProcessor, SequenceTheorems, TLAPS

USE LimitsAssumption
    DEF LimitsAssumption, vars, endVars, ownerVars, tickVars, answerVars, readVars,
        serverVars, Working

-----------------------------------------------------------------------------
(* The inductive invariant.                                                *)

(* The reason is stamped when the loop is left, and only then; the notice  *)
(* is the last thing the task does.                                        *)
StampedOnLeaving ==
  /\ phase \in {"none"} \cup Working => dropReason = "none"
  /\ phase = "stamped" => dropReason # "none"
  /\ phase # "ended" => notices = 0

(* Only an owner that has given the session up asks for a Shutdown.        *)
ShutdownIsAsked ==
  owner = "holds" => queue \in Seq(Commands \ {"shutdown"})

Told == StampedOnLeaving /\ ShutdownIsAsked /\ ToldUnlessLetGo

(* An answering server whose answer has yet to be read still owes it or    *)
(* has it under way, and every strike against it stands for a stall.       *)
StrikesAreStalls ==
  /\ phase = "none" => ~sentBefore
  /\ phase \in Working /\ server = "answers" /\ sentBefore /\ ~heard =>
       /\ owed \/ inbox # <<>>
       /\ watch.unanswered + (IF due THEN 1 ELSE 0) <= stalls

IInv == TypeOK /\ Told /\ StrikesAreStalls /\ HealthyServerSpared

-----------------------------------------------------------------------------
(* Types.                                                                  *)

LEMMA UpToType ==
  ASSUME NEW n \in Nat
  PROVE  UpTo(MissedLimit, n) \in 0 .. MissedLimit /\ UpTo(MissedLimit, n) <= n
BY DEF UpTo

LEMMA RecordSendType ==
  ASSUME NEW w \in [unanswered : 0 .. MissedLimit, armed : BOOLEAN,
                    failures : 0 .. MissedLimit],
         NEW answered \in BOOLEAN, NEW promptly \in BOOLEAN
  PROVE  RecordSend(w, answered, promptly) \in
           [unanswered : 0 .. MissedLimit, armed : BOOLEAN, failures : 0 .. MissedLimit]
<1>1. UpTo(MissedLimit, w.unanswered + 1) \in 0 .. MissedLimit
  BY UpToType
<1> QED
  BY <1>1 DEF RecordSend

LEMMA EndsType ==
  ASSUME TypeOK, Ends, notices' \in 0 .. 1
  PROVE  TypeOK'
<1>1. /\ queue' \in Seq(Commands) /\ Len(queue') <= QueueCap
      /\ inbox' \in Seq(Pdus) /\ Len(inbox') <= InboxCap
  BY EmptySeq DEF Ends
<1>2. watch' \in [unanswered : 0 .. MissedLimit, armed : BOOLEAN,
                  failures : 0 .. MissedLimit]
  BY DEF Ends, NoStrikes
<1> QED
  BY <1>1, <1>2 DEF TypeOK, Ends

LEMMA ArrivesType ==
  ASSUME TypeOK, NEW pdu \in Pdus, Arrives(pdu)
  PROVE  inbox' \in Seq(Pdus) /\ Len(inbox') <= InboxCap /\ inbox' # <<>>
BY AppendProperties DEF TypeOK, Arrives

LEMMA AppendType ==
  ASSUME TypeOK, NEW c \in Commands, Len(queue) < QueueCap
  PROVE  Append(queue, c) \in Seq(Commands) /\ Len(Append(queue, c)) <= QueueCap
BY AppendProperties DEF TypeOK

LEMMA TailType ==
  ASSUME TypeOK
  PROVE  /\ queue # <<>> => Tail(queue) \in Seq(Commands) /\ Len(Tail(queue)) <= QueueCap
         /\ inbox # <<>> => Tail(inbox) \in Seq(Pdus) /\ Len(Tail(inbox)) <= InboxCap
BY HeadTailProperties, LenProperties DEF TypeOK

LEMMA InitType == Init => TypeOK
<1> SUFFICES ASSUME Init PROVE TypeOK
  OBVIOUS
<1>1. /\ queue \in Seq(Commands) /\ Len(queue) <= QueueCap
      /\ inbox \in Seq(Pdus) /\ Len(inbox) <= InboxCap
  BY EmptySeq DEF Init
<1>2. watch \in [unanswered : 0 .. MissedLimit, armed : BOOLEAN, failures : 0 .. MissedLimit]
  BY DEF Init, NoStrikes
<1>3. /\ owed \in BOOLEAN /\ stirred \in BOOLEAN /\ writable \in BOOLEAN
      /\ sentBefore \in BOOLEAN /\ heard \in BOOLEAN /\ clientSent \in BOOLEAN
      /\ prompt \in BOOLEAN /\ due \in BOOLEAN
  BY DEF Init
<1>4. /\ config \in [keepAlive : BOOLEAN, silenceDrop : BOOLEAN]
      /\ phase = "none" /\ dropReason = "none" /\ notices = 0
      /\ owner = "holds" /\ awaiting = "no" /\ stalls = 0
      /\ server \in {"answers", "mute"}
  BY DEF Init
<1> QED
  BY <1>1, <1>2, <1>3, <1>4 DEF TypeOK, Reasons

LEMMA EnvironmentType ==
  ASSUME TypeOK,
         \/ Start \/ ServerAnswers \/ ServerReacts \/ ServerActs \/ ServerGoes
         \/ WritesChange \/ WindowCloses \/ PeriodElapses \/ Stall
  PROVE  TypeOK'
<1>1. CASE Start
  BY <1>1 DEF Start, TypeOK
<1>2. CASE ServerAnswers \/ ServerReacts \/ ServerActs
  <2>1. PICK pdu \in Pdus : Arrives(pdu)
    BY <1>2 DEF ServerAnswers, ServerReacts, ServerActs, Pdus
  <2>2. inbox' \in Seq(Pdus) /\ Len(inbox') <= InboxCap
    BY <2>1, ArrivesType
  <2>3. owed' \in BOOLEAN /\ stirred' \in BOOLEAN /\ UNCHANGED <<server, writable>>
    BY <1>2 DEF ServerAnswers, ServerReacts, ServerActs, TypeOK
  <2> QED
    BY <2>1, <2>2, <2>3 DEF Arrives, TypeOK
<1>3. CASE ServerGoes
  <2>1. /\ server' = "gone" /\ owed' \in BOOLEAN /\ stirred' \in BOOLEAN
        /\ UNCHANGED <<endVars, ownerVars, tickVars, clientSent, answerVars, readVars,
                       writable>>
    BY <1>3 DEF ServerGoes
  <2> QED
    BY <2>1 DEF TypeOK
<1>4. CASE WritesChange
  BY <1>4 DEF WritesChange, TypeOK
<1>5. CASE WindowCloses
  BY <1>5 DEF WindowCloses, TypeOK
<1>6. CASE PeriodElapses
  BY <1>6 DEF PeriodElapses, TypeOK
<1>7. CASE Stall
  BY <1>7 DEF Stall, TypeOK
<1> QED
  BY <1>1, <1>2, <1>3, <1>4, <1>5, <1>6, <1>7

LEMMA KeepAliveType ==
  ASSUME TypeOK, KeepAlive
  PROVE  TypeOK'
<1>1. CASE KeepAliveSent
  <2>1. watch' \in [unanswered : 0 .. MissedLimit, armed : BOOLEAN,
                    failures : 0 .. MissedLimit]
    <3>1. /\ (sentBefore => heard) \in BOOLEAN
          /\ (sentBefore /\ ~clientSent /\ prompt) \in BOOLEAN
      OBVIOUS
    <3> QED
      BY <1>1, <3>1, RecordSendType DEF KeepAliveSent, TypeOK
  <2>2. phase' \in {"run", "stamped"} /\ dropReason' \in Reasons
    BY <1>1 DEF KeepAliveSent, Drop, Stay, TypeOK, Reasons
  <2>3. /\ UNCHANGED <<notices, config, owner, queue, inbox, stalls, server, stirred,
                       writable>>
        /\ due' = FALSE /\ sentBefore' = TRUE /\ heard' = FALSE /\ clientSent' = FALSE
        /\ awaiting' = "open" /\ prompt' = FALSE /\ owed' \in BOOLEAN
    BY <1>1 DEF KeepAliveSent
  <2> QED
    BY <2>1, <2>2, <2>3 DEF TypeOK
<1>2. CASE KeepAliveFails
  <2>1. UpTo(MissedLimit, watch.failures + 1) \in 0 .. MissedLimit
    <3>1. watch.failures + 1 \in Nat
      BY DEF TypeOK
    <3> QED
      BY <3>1, UpToType
  <2>2. watch' \in [unanswered : 0 .. MissedLimit, armed : BOOLEAN,
                    failures : 0 .. MissedLimit]
    BY <1>2, <2>1 DEF KeepAliveFails, TypeOK
  <2>3. phase' \in {"run", "stamped"} /\ dropReason' \in Reasons
    BY <1>2 DEF KeepAliveFails, Drop, Stay, TypeOK, Reasons
  <2>4. /\ due' \in BOOLEAN
        /\ UNCHANGED <<notices, ownerVars, sentBefore, clientSent, answerVars, readVars,
                       serverVars>>
    BY <1>2 DEF KeepAliveFails
  <2> QED
    BY <2>2, <2>3, <2>4 DEF TypeOK
<1> QED
  BY <1>1, <1>2 DEF KeepAlive

LEMMA OwnerType ==
  ASSUME TypeOK, StampedOnLeaving,
         \/ \E c \in Commands \ {"shutdown"} : Command(c)
         \/ Disconnect \/ LetGo \/ Abort \/ Notify \/ Panics
  PROVE  TypeOK'
<1>1. ASSUME NEW c \in Commands, Command(c)
      PROVE  TypeOK'
  BY <1>1, AppendType DEF Command, TypeOK
<1>2. CASE Disconnect
  <2>1. queue' \in Seq(Commands) /\ Len(queue') <= QueueCap
    BY <1>2, AppendType DEF Disconnect, TypeOK, Commands
  <2> QED
    BY <1>2, <2>1 DEF Disconnect, TypeOK
<1>3. CASE LetGo
  BY <1>3 DEF LetGo, TypeOK
<1>4. CASE Abort
  BY <1>4, EndsType DEF Abort, TypeOK
<1>5. CASE Notify
  <2>1. notices' = 1
    BY <1>5 DEF Notify, StampedOnLeaving
  <2> QED
    BY <1>5, <2>1, EndsType DEF Notify
<1>6. CASE Panics
  BY <1>6 DEF Panics, Drop, TypeOK, Reasons
<1> QED
  BY <1>1, <1>2, <1>3, <1>4, <1>5, <1>6

LEMMA ServeType ==
  ASSUME TypeOK, Serve \/ BackgroundSends
  PROVE  TypeOK'
<1>1. CASE SendInput \/ ClipboardCommand
  <2>1. PICK c \in Commands : Takes(c)
    BY <1>1 DEF SendInput, ClipboardCommand, Commands
  <2>2. queue' \in Seq(Commands) /\ Len(queue') <= QueueCap
    BY <2>1, TailType DEF Takes
  <2>3. phase' \in {"run", "stamped"} /\ dropReason' \in Reasons /\ stirred' \in BOOLEAN
    BY <1>1, <2>1 DEF SendInput, ClipboardCommand, Takes, Stirs, Stay, Drop, TypeOK, Reasons
  <2> QED
    BY <2>1, <2>2, <2>3 DEF Takes, TypeOK
<1>2. CASE Shutdown \/ ChannelClosed
  BY <1>2, EndsType DEF Shutdown, ChannelClosed, TypeOK
<1>3. CASE BackgroundSends
  <2>1. stirred' \in BOOLEAN
    BY <1>3 DEF BackgroundSends, Stirs, TypeOK
  <2>2. /\ clientSent' = TRUE
        /\ UNCHANGED <<endVars, ownerVars, tickVars, answerVars, readVars, server, owed,
                       writable>>
    BY <1>3 DEF BackgroundSends
  <2> QED
    BY <2>1, <2>2 DEF TypeOK
<1> QED
  BY <1>1, <1>2, <1>3 DEF Serve

LEMMA ReadType ==
  ASSUME TypeOK, Read \/ Reactivate
  PROVE  TypeOK'
<1>1. CASE Read
  <2>1. PICK pdu \in Pdus : Reads(pdu)
    BY <1>1 DEF Read, ReadUpdate, ReadDeactivate, ReadTerminate, ReadFails, Pdus
  <2>2. inbox' \in Seq(Pdus) /\ Len(inbox') <= InboxCap
    BY <2>1, TailType DEF Reads
  <2>3. /\ phase' \in {"run", "reactivate", "stamped"} /\ dropReason' \in Reasons
        /\ heard' \in BOOLEAN /\ stalls' \in 0 .. MissedLimit
    <3>1. /\ phase = "run" /\ dropReason \in Reasons /\ heard \in BOOLEAN
          /\ stalls \in 0 .. MissedLimit
      BY <2>1 DEF Reads, TypeOK
    <3>2. CASE ReadUpdate
      BY <3>1, <3>2 DEF ReadUpdate, Stamps, Stay
    <3>3. CASE ReadDeactivate
      BY <3>1, <3>3 DEF ReadDeactivate, Stamps
    <3>4. CASE ReadTerminate
      BY <3>1, <3>4 DEF ReadTerminate, Stamps, Drop, Reasons
    <3>5. CASE ReadFails
      BY <3>1, <3>5 DEF ReadFails, Drop, Reasons
    <3> QED
      BY <1>1, <3>2, <3>3, <3>4, <3>5 DEF Read
  <2>4. /\ awaiting' = "no" /\ prompt' \in BOOLEAN
        /\ UNCHANGED <<notices, ownerVars, tickVars, clientSent, serverVars>>
    BY <2>1 DEF Reads, TypeOK
  <2> QED
    BY <2>2, <2>3, <2>4 DEF TypeOK
<1>2. CASE ReactivateStep
  BY <1>2, TailType DEF ReactivateStep, Stamps, TypeOK
<1>3. CASE ReactivateFails
  BY <1>3 DEF ReactivateFails, Drop, TypeOK, Reasons
<1> QED
  BY <1>1, <1>2, <1>3 DEF Reactivate

LEMMA StepType == TypeOK /\ StampedOnLeaving /\ [Next]_vars => TypeOK'
<1> SUFFICES ASSUME TypeOK, StampedOnLeaving, [Next]_vars PROVE TypeOK'
  OBVIOUS
<1>1. CASE Next
  BY <1>1, EnvironmentType, KeepAliveType, OwnerType, ServeType, ReadType
     DEF Next, Solicited
<1>2. CASE UNCHANGED vars
  BY <1>2 DEF TypeOK
<1> QED
  BY <1>1, <1>2

-----------------------------------------------------------------------------
(* What a step can do to the session as its owner sees it: to phase,       *)
(* dropReason, notices, owner and queue.                                   *)

(* The queue is as it was, or without its head.                            *)
QueueShrinks == queue' = queue \/ (queue # <<>> /\ queue' = Tail(queue))

Carrying == UNCHANGED <<endVars, owner>> /\ QueueShrinks

Starting == phase = "none" /\ phase' = "run" /\ UNCHANGED <<dropReason, notices, owner, queue>>

Reactivating ==
  /\ phase \in Working /\ phase' \in Working
  /\ UNCHANGED <<dropReason, notices, owner>> /\ QueueShrinks

Dropping ==
  /\ phase \in Working
  /\ \E reason \in Reasons \ {"none"} : Drop(reason)
  /\ UNCHANGED <<notices, owner>> /\ QueueShrinks

Asked == queue # <<>> /\ Head(queue) = "shutdown"

Closing ==
  /\ Asked \/ owner = "gone"
  /\ phase \notin {"none", "ended"} /\ (phase = "stamped" => owner = "gone")
  /\ Ends /\ UNCHANGED notices

Commanding ==
  /\ owner = "holds" /\ phase # "none" /\ UNCHANGED <<endVars, owner>>
  /\ \E c \in Commands \ {"shutdown"} : queue' = Append(queue, c)

Leaving ==
  /\ owner # "gone" /\ phase # "none" /\ owner' \in {"joining", "gone"}
  /\ UNCHANGED endVars

Effect ==
  \/ Carrying \/ Starting \/ Reactivating \/ Dropping \/ Closing \/ Commanding \/ Leaving
  \/ Notify

LEMMA KeepAliveEffect ==
  ASSUME KeepAlive
  PROVE  Carrying \/ Dropping
<1>1. CASE KeepAliveSent
  BY <1>1 DEF KeepAliveSent, Carrying, Dropping, Drop, Stay, QueueShrinks, Reasons
<1>2. CASE KeepAliveFails
  BY <1>2 DEF KeepAliveFails, Carrying, Dropping, Drop, Stay, QueueShrinks, Reasons
<1> QED
  BY <1>1, <1>2 DEF KeepAlive

LEMMA ServeEffect ==
  ASSUME Serve
  PROVE  Carrying \/ Dropping \/ Closing
<1>1. CASE SendInput
  BY <1>1 DEF SendInput, Takes, Carrying, Dropping, Drop, Stay, QueueShrinks, Reasons
<1>2. CASE ClipboardCommand
  BY <1>2 DEF ClipboardCommand, Takes, Carrying, Stay, QueueShrinks
<1>3. CASE Shutdown
  BY <1>3 DEF Shutdown, Closing, Asked
<1>4. CASE ChannelClosed
  BY <1>4 DEF ChannelClosed, Closing
<1> QED
  BY <1>1, <1>2, <1>3, <1>4 DEF Serve

LEMMA ReadEffect ==
  ASSUME Read \/ Reactivate
  PROVE  Carrying \/ Reactivating \/ Dropping
<1>1. CASE ReadUpdate
  BY <1>1 DEF ReadUpdate, Reads, Stay, Carrying, QueueShrinks
<1>2. CASE ReadDeactivate
  BY <1>2 DEF ReadDeactivate, Reads, Reactivating, QueueShrinks
<1>3. CASE ReadTerminate
  BY <1>3 DEF ReadTerminate, Reads, Dropping, Drop, QueueShrinks, Reasons
<1>4. CASE ReadFails
  BY <1>4 DEF ReadFails, Reads, Dropping, Drop, QueueShrinks, Reasons
<1>5. CASE ReactivateStep
  BY <1>5 DEF ReactivateStep, Reactivating, QueueShrinks
<1>6. CASE ReactivateFails
  BY <1>6 DEF ReactivateFails, Dropping, Drop, QueueShrinks, Reasons
<1> QED
  BY <1>1, <1>2, <1>3, <1>4, <1>5, <1>6 DEF Read, Reactivate

LEMMA EnvironmentEffect ==
  ASSUME \/ ServerAnswers \/ ServerReacts \/ ServerActs \/ ServerGoes
         \/ WritesChange \/ WindowCloses \/ PeriodElapses \/ Stall \/ BackgroundSends
  PROVE  Carrying
BY DEF ServerAnswers, ServerReacts, ServerActs, Arrives, ServerGoes, WritesChange,
   WindowCloses, PeriodElapses, Stall, BackgroundSends, Carrying, QueueShrinks

LEMMA StepEffect == [Next]_vars => Effect
<1> SUFFICES ASSUME [Next]_vars PROVE Effect
  OBVIOUS
<1>1. CASE UNCHANGED vars
  BY <1>1 DEF Carrying, QueueShrinks, Effect
<1>2. CASE Start
  BY <1>2 DEF Start, Starting, Effect
<1>3. CASE Panics
  BY <1>3 DEF Panics, Dropping, QueueShrinks, Reasons, Effect
<1>4. CASE \E c \in Commands \ {"shutdown"} : Command(c)
  BY <1>4 DEF Command, Commanding, Effect
<1>5. CASE Disconnect \/ LetGo
  BY <1>5 DEF Disconnect, LetGo, Leaving, Effect
<1>6. CASE Abort
  BY <1>6 DEF Abort, Closing, Effect
<1>7. CASE Notify
  BY <1>7 DEF Effect
<1>8. CASE \/ ServerAnswers \/ ServerReacts \/ ServerActs \/ ServerGoes
           \/ WritesChange \/ WindowCloses \/ PeriodElapses \/ Stall \/ BackgroundSends
  BY <1>8, EnvironmentEffect DEF Effect
<1>9. CASE KeepAlive \/ Serve \/ Read \/ Reactivate
  BY <1>9, KeepAliveEffect, ServeEffect, ReadEffect DEF Effect
<1> QED
  BY <1>1, <1>2, <1>3, <1>4, <1>5, <1>6, <1>7, <1>8, <1>9 DEF Next, Solicited

-----------------------------------------------------------------------------
(* Every end is told.                                                      *)

LEMMA ShutdownStaysAsked ==
  ASSUME TypeOK, Told, Effect
  PROVE  ShutdownIsAsked'
<1> SUFFICES ASSUME owner' = "holds"
             PROVE  queue' \in Seq(Commands \ {"shutdown"})
  BY DEF ShutdownIsAsked
<1>1. owner = "holds"
  BY DEF Effect, Carrying, Starting, Reactivating, Dropping, Closing, Commanding, Leaving,
     Notify, Ends
<1>2. queue \in Seq(Commands \ {"shutdown"})
  BY <1>1 DEF Told, ShutdownIsAsked
<1>3. CASE QueueShrinks
  BY <1>2, <1>3, HeadTailProperties DEF QueueShrinks
<1>4. CASE Ends
  BY <1>4, EmptySeq DEF Ends
<1>5. CASE \E c \in Commands \ {"shutdown"} : queue' = Append(queue, c)
  BY <1>2, <1>5, AppendProperties
<1> QED
  BY <1>1, <1>2, <1>3, <1>4, <1>5 DEF Effect, Carrying, Starting, Reactivating, Dropping,
     Closing, Commanding, Leaving, Notify

(* An end nobody asked for is not a closing: while the owner holds on, the *)
(* queue has no Shutdown to take.                                          *)
LEMMA ClosingIsAsked ==
  ASSUME TypeOK, Told, Closing
  PROVE  owner # "holds"
<1> SUFFICES ASSUME owner = "holds", Asked PROVE FALSE
  BY DEF Closing
<1>1. Head(queue) \in Commands \ {"shutdown"}
  BY HeadTailProperties DEF Asked, Told, ShutdownIsAsked
<1> QED
  BY <1>1 DEF Asked

LEMMA StepTold == TypeOK /\ Told /\ [Next]_vars => Told'
<1> SUFFICES ASSUME TypeOK, Told, Effect PROVE Told'
  BY StepEffect
<1>1. ShutdownIsAsked'
  BY ShutdownStaysAsked
<1>2. StampedOnLeaving'
  BY DEF Told, StampedOnLeaving, Effect, Carrying, Starting, Reactivating, Dropping, Drop,
     Closing, Commanding, Leaving, Notify, Ends
<1>3. ToldUnlessLetGo'
  <2>1. CASE Closing
    BY <2>1, ClosingIsAsked DEF Closing, Ends, ToldUnlessLetGo
  <2>2. CASE Notify
    BY <2>2 DEF Told, StampedOnLeaving, ToldUnlessLetGo, Notify, Ends
  <2>3. CASE ~Closing /\ ~Notify
    BY <2>3 DEF Told, ToldUnlessLetGo, Effect, Carrying, Starting, Reactivating, Dropping,
       Drop, Commanding, Leaving
  <2> QED
    BY <2>1, <2>2, <2>3
<1> QED
  BY <1>1, <1>2, <1>3 DEF Told

LEMMA InitTold == Init => Told
<1> SUFFICES ASSUME Init PROVE Told
  OBVIOUS
<1>1. queue \in Seq(Commands \ {"shutdown"})
  BY EmptySeq DEF Init
<1> QED
  BY <1>1 DEF Init, Told, StampedOnLeaving, ShutdownIsAsked, ToldUnlessLetGo

(* Every variable keeps its range: neither the queue nor the buffer is     *)
(* ever over its capacity, and no notice is sent twice.                    *)
THEOREM TypeCorrect == Spec => []TypeOK
<1>1. Init => TypeOK /\ Told
  BY InitType, InitTold
<1>2. TypeOK /\ Told /\ [Next]_vars => (TypeOK /\ Told)'
  BY StepType, StepTold DEF Told
<1> QED
  BY <1>1, <1>2, PTL DEF Spec

(* A task that ends while its owner holds the session has stamped a reason *)
(* and sent exactly one notice, whichever of the loop's exits it took.     *)
THEOREM EndsAreTold == Spec => []ToldUnlessLetGo
<1>1. Init => TypeOK /\ Told
  BY InitType, InitTold
<1>2. TypeOK /\ Told /\ [Next]_vars => (TypeOK /\ Told)'
  BY StepType, StepTold DEF Told
<1>3. TypeOK /\ Told => ToldUnlessLetGo
  BY DEF Told
<1> QED
  BY <1>1, <1>2, <1>3, PTL DEF Spec

-----------------------------------------------------------------------------
(* The promise: every step of the frame processor is a step of SessionLife *)
(* or leaves its three variables alone.                                    *)

LEMMA PromisedStart == Init => Promise!Init
BY DEF Init, Promise!Init, Life

LEMMA PromisedStep ==
  ASSUME TypeOK, Told, [Next]_vars
  PROVE  [Promise!Next]_(Promise!vars)
<1> SUFFICES ASSUME Effect PROVE [Promise!Next]_(Promise!vars)
  BY StepEffect
<1>1. CASE Carrying \/ Reactivating \/ Commanding
  BY <1>1 DEF Told, StampedOnLeaving, Carrying, Reactivating, Commanding, Life, Promise!vars
<1>2. CASE Starting
  BY <1>2 DEF Told, StampedOnLeaving, Starting, Life, Promise!Start, Promise!Next
<1>3. CASE Dropping
  <2>1. Life = "live" /\ Life' = "dropped"
    BY <1>3 DEF Told, StampedOnLeaving, Dropping, Drop, Life
  <2>2. (phase = "stamped")' = TRUE /\ (owner # "holds")' = (owner # "holds")
    BY <1>3 DEF Dropping, Drop
  <2> QED
    BY <2>1, <2>2 DEF Promise!Drop, Promise!Next
<1>4. CASE Notify
  <2>1. Life = "dropped" /\ Life' = "dropped"
    BY <1>4 DEF Told, StampedOnLeaving, Notify, Ends, Life
  <2>2. phase = "stamped" /\ phase' = "ended" /\ UNCHANGED owner
    BY <1>4 DEF Notify, Ends
  <2> QED
    BY <2>1, <2>2 DEF Promise!Notify, Promise!Next
<1>5. CASE Closing
  <2>1. owner # "holds" /\ UNCHANGED owner
    BY <1>5, ClosingIsAsked DEF Closing, Ends
  <2>2. phase \notin {"none", "ended"} /\ phase' = "ended" /\ UNCHANGED dropReason
    BY <1>5 DEF Closing, Ends
  <2>3. Life # "none" /\ Life' = (IF Life = "live" THEN "closed" ELSE Life)
    BY <2>2 DEF Life
  <2> QED
    BY <2>1, <2>2, <2>3 DEF Promise!LetGo, Promise!Next
<1>6. CASE Leaving
  <2>1. (owner # "holds")' = TRUE
    BY <1>6 DEF Leaving
  <2>2. Life # "none" /\ Life' = Life /\ UNCHANGED phase
    BY <1>6 DEF Leaving, Life
  <2> QED
    BY <2>1, <2>2 DEF Promise!LetGo, Promise!Next
<1> QED
  BY <1>1, <1>2, <1>3, <1>4, <1>5, <1>6 DEF Effect

(* The frame processor keeps the promise DaemonSession relies on: it drops *)
(* at most once, stamped before it is notified, and closes without a word  *)
(* only for an owner that has let go of it.                                *)
THEOREM PromiseKept == Spec => KeepsPromise
<1>1. Init => TypeOK /\ Told
  BY InitType, InitTold
<1>2. TypeOK /\ Told /\ [Next]_vars => (TypeOK /\ Told)'
  BY StepType, StepTold DEF Told
<1>3. Init => Promise!Init
  BY PromisedStart
<1>4. TypeOK /\ Told /\ [Next]_vars => [Promise!Next]_(Promise!vars)
  BY PromisedStep
<1> QED
  BY <1>1, <1>2, <1>3, <1>4, PTL DEF Spec, KeepsPromise, Promise!Spec

(* What the promise is worth: from SessionLife alone, an owner that holds  *)
(* on to a session hears of its end, once.                                 *)
EndsForGood ==
  /\ Life # "none" => Life' # "none"
  /\ Life \in {"dropped", "closed"} => Life' = Life
  /\ ~(phase = "stamped") /\ (phase = "stamped")' => Life = "live" /\ Life' = "dropped"
  /\ owner # "holds" => (owner # "holds")'

LEMMA LifeHolds ==
  ASSUME Promise!HeldOrTold, [Promise!Next]_(Promise!vars)
  PROVE  Promise!HeldOrTold' /\ EndsForGood
<1> USE DEF Promise!HeldOrTold, EndsForGood
<1>1. CASE Promise!Start
  BY <1>1 DEF Promise!Start
<1>2. CASE Promise!Drop
  BY <1>2 DEF Promise!Drop
<1>3. CASE Promise!Notify
  BY <1>3 DEF Promise!Notify
<1>4. CASE Promise!LetGo
  BY <1>4 DEF Promise!LetGo
<1>5. CASE UNCHANGED Promise!vars
  BY <1>5 DEF Promise!vars
<1> QED
  BY <1>1, <1>2, <1>3, <1>4, <1>5 DEF Promise!Next

(* The task that serves a session ends once.  If it ends while its owner   *)
(* still holds it, drop_reason is set before the owner can hear of it, the *)
(* owner hears once, and a session once given up is not served again       *)
(* (rdp_session.rs, the end of the frame processor).                       *)
THEOREM OwnersHearOnce == Spec => []Promise!HeldOrTold /\ Promise!EndsOnce
<1>1. Promise!Init => Promise!HeldOrTold
  BY DEF Promise!Init, Promise!HeldOrTold
<1>2. Promise!HeldOrTold /\ [Promise!Next]_(Promise!vars)
        => Promise!HeldOrTold' /\ [EndsForGood]_(Promise!vars)
  BY LifeHolds
<1> QED
  BY <1>1, <1>2, PromiseKept, PTL DEF KeepsPromise, Promise!Spec, Promise!EndsOnce, EndsForGood

-----------------------------------------------------------------------------
(* A healthy server is spared.                                             *)

(* The state StrikesAreStalls and HealthyServerSpared speak of.            *)
verdictVars == <<phase, dropReason, watch, sentBefore, heard, due, inbox, server, owed, stalls>>

LEMMA KeepAliveStrikes ==
  ASSUME IInv, KeepAlive
  PROVE  (StrikesAreStalls /\ HealthyServerSpared)'
<1>1. CASE KeepAliveSent
  <2>1. /\ phase = "run" /\ due /\ due' = FALSE /\ sentBefore' = TRUE /\ heard' = FALSE
        /\ owed' = (server = "answers") /\ UNCHANGED <<server, stalls>>
        /\ watch' = RecordSend(watch, sentBefore => heard,
                               sentBefore /\ ~clientSent /\ prompt)
    BY <1>1 DEF KeepAliveSent
  <2>2. watch.unanswered \in 0 .. MissedLimit /\ stalls \in 0 .. MissedLimit
    BY DEF IInv, TypeOK
  <2>3. server = "answers" => watch'.unanswered <= stalls /\ watch'.unanswered \in Nat
    <3> SUFFICES ASSUME server = "answers"
                 PROVE  watch'.unanswered <= stalls /\ watch'.unanswered \in Nat
      OBVIOUS
    <3>1. CASE sentBefore => heard
      <4>1. watch'.unanswered = 0
        BY <2>1, <3>1 DEF RecordSend
      <4> QED
        BY <2>2, <4>1
    <3>2. CASE sentBefore /\ ~heard
      <4>1. watch'.unanswered = UpTo(MissedLimit, watch.unanswered + 1)
        BY <2>1, <3>2 DEF RecordSend
      <4>2. watch.unanswered + 1 <= stalls
        BY <2>1, <3>2 DEF IInv, StrikesAreStalls
      <4>3. watch.unanswered + 1 \in Nat
        BY <2>2
      <4>4. /\ UpTo(MissedLimit, watch.unanswered + 1) \in Nat
            /\ UpTo(MissedLimit, watch.unanswered + 1) <= watch.unanswered + 1
        BY <4>3, UpToType
      <4> QED
        BY <2>2, <4>1, <4>2, <4>4
    <3> QED
      BY <3>1, <3>2
  <2>4. StrikesAreStalls'
    <3> SUFFICES ASSUME phase' \in Working, server = "answers"
                 PROVE  owed' /\ watch'.unanswered + (IF due' THEN 1 ELSE 0) <= stalls
      <4>1. phase' # "none"
        BY <1>1 DEF KeepAliveSent, Drop, Stay
      <4> QED
        BY <2>1, <4>1 DEF StrikesAreStalls
    <3>1. watch'.unanswered + (IF due' THEN 1 ELSE 0) = watch'.unanswered
      BY <2>1, <2>3
    <3> QED
      BY <2>1, <2>3, <3>1
  <2>5. CASE Dead(watch') /\ config.silenceDrop
    <3>1. watch'.unanswered >= MissedLimit
      BY <2>5 DEF Dead
    <3>2. server = "answers" => stalls >= MissedLimit
      BY <2>2, <2>3, <3>1
    <3> QED
      BY <2>1, <2>4, <3>2 DEF HealthyServerSpared
  <2>6. CASE ~(Dead(watch') /\ config.silenceDrop)
    <3>1. UNCHANGED dropReason
      BY <1>1, <2>6 DEF KeepAliveSent, Stay
    <3> QED
      BY <2>1, <2>4, <3>1 DEF IInv, HealthyServerSpared
  <2> QED
    BY <2>5, <2>6
<1>2. CASE KeepAliveFails
  <2>1. /\ phase = "run" /\ phase' # "none"
        /\ due' = FALSE /\ dropReason' \in {dropReason, "unwritable"}
        /\ UNCHANGED <<sentBefore, heard, inbox, stalls, server, owed>>
    BY <1>2 DEF KeepAliveFails, Drop, Stay
  <2>2. watch'.unanswered = watch.unanswered
    BY <1>2 DEF KeepAliveFails, IInv, TypeOK
  <2>3. watch.unanswered \in Nat /\ stalls \in Nat
    BY DEF IInv, TypeOK
  <2>4. StrikesAreStalls'
    BY <2>1, <2>2, <2>3 DEF IInv, StrikesAreStalls
  <2> QED
    BY <2>1, <2>4 DEF IInv, HealthyServerSpared
<1> QED
  BY <1>1, <1>2 DEF KeepAlive

LEMMA ReadStrikes ==
  ASSUME IInv, Read \/ Reactivate
  PROVE  (StrikesAreStalls /\ HealthyServerSpared)'
<1>1. dropReason = "none"
  BY DEF IInv, Told, StampedOnLeaving, Read, ReadUpdate, ReadDeactivate, ReadTerminate,
     ReadFails, Reads, Reactivate, ReactivateStep, ReactivateFails
<1>2. dropReason' # "silent"
  BY <1>1 DEF Read, ReadUpdate, ReadDeactivate, ReadTerminate, ReadFails, Stay, Drop,
     Reactivate, ReactivateStep, ReactivateFails
<1>3. phase' # "none" /\ (heard' \/ phase' = "stamped")
  BY DEF Read, ReadUpdate, ReadDeactivate, ReadTerminate, ReadFails, Reads, Stamps, Stay,
     Drop, Reactivate, ReactivateStep, ReactivateFails
<1> QED
  BY <1>2, <1>3 DEF StrikesAreStalls, HealthyServerSpared

LEMMA EnvironmentStrikes ==
  ASSUME IInv,
         \/ ServerAnswers \/ ServerReacts \/ ServerActs \/ ServerGoes
         \/ PeriodElapses \/ Stall
  PROVE  (StrikesAreStalls /\ HealthyServerSpared)'
<1>1. watch.unanswered \in Nat /\ stalls \in Nat
  BY DEF IInv, TypeOK
<1>2. dropReason = "none"
  BY DEF IInv, Told, StampedOnLeaving, ServerAnswers, ServerReacts, ServerActs, Arrives,
     ServerGoes, PeriodElapses, Stall
<1>3. HealthyServerSpared'
  BY <1>2 DEF ServerAnswers, ServerReacts, ServerActs, Arrives, ServerGoes, PeriodElapses,
     Stall, HealthyServerSpared
<1>4. CASE ServerAnswers \/ ServerReacts \/ ServerActs
  <2>1. PICK pdu \in Pdus : Arrives(pdu)
    BY <1>4 DEF ServerAnswers, ServerReacts, ServerActs, Pdus
  <2>2. inbox' # <<>>
    BY <2>1, ArrivesType DEF IInv
  <2>3. UNCHANGED server
    BY <1>4 DEF ServerAnswers, ServerReacts, ServerActs
  <2> QED
    BY <1>3, <2>1, <2>2, <2>3 DEF Arrives, IInv, StrikesAreStalls
<1>5. CASE ServerGoes
  BY <1>3, <1>5 DEF ServerGoes, StrikesAreStalls
<1>6. CASE PeriodElapses
  BY <1>3, <1>6 DEF PeriodElapses, IInv, StrikesAreStalls
<1>7. CASE Stall
  BY <1>1, <1>3, <1>7 DEF Stall, IInv, StrikesAreStalls
<1> QED
  BY <1>4, <1>5, <1>6, <1>7

(* Steps that leave the verdict's state alone, or leave the loop without   *)
(* a silent verdict.                                                       *)
LEMMA OtherStrikes ==
  ASSUME IInv,
         \/ UNCHANGED verdictVars
         \/ /\ phase' \in {"stamped", "ended"}
            /\ UNCHANGED <<server, stalls>>
            /\ dropReason' # dropReason => dropReason' # "silent"
  PROVE  (StrikesAreStalls /\ HealthyServerSpared)'
BY DEF IInv, StrikesAreStalls, HealthyServerSpared, verdictVars

LEMMA StepIInv == IInv /\ [Next]_vars => IInv'
<1> SUFFICES ASSUME IInv, [Next]_vars PROVE IInv'
  OBVIOUS
<1>1. TypeOK' /\ Told'
  BY StepType, StepTold DEF IInv, Told
<1>2. (StrikesAreStalls /\ HealthyServerSpared)'
  <2>1. CASE KeepAlive
    BY <2>1, KeepAliveStrikes
  <2>2. CASE Read \/ Reactivate
    BY <2>2, ReadStrikes
  <2>3. CASE \/ ServerAnswers \/ ServerReacts \/ ServerActs \/ ServerGoes
             \/ PeriodElapses \/ Stall
    BY <2>3, EnvironmentStrikes
  <2>4. CASE Start
    BY <2>4 DEF Start, IInv, Told, StampedOnLeaving, StrikesAreStalls, HealthyServerSpared
  <2>5. CASE \/ WritesChange \/ WindowCloses \/ BackgroundSends \/ Disconnect \/ LetGo
             \/ (\E c \in Commands \ {"shutdown"} : Command(c))
    BY <2>5, OtherStrikes DEF WritesChange, WindowCloses, BackgroundSends, Disconnect, LetGo,
       Command, verdictVars
  <2>6. CASE Notify \/ Abort \/ Panics
    BY <2>6, OtherStrikes DEF Notify, Abort, Panics, Ends, Drop
  <2>7. CASE Serve
    BY <2>7, OtherStrikes DEF Serve, SendInput, ClipboardCommand, Takes, Stay, Drop, Shutdown,
       ChannelClosed, Ends, verdictVars
  <2>8. CASE UNCHANGED vars
    BY <2>8, OtherStrikes DEF verdictVars
  <2> QED
    BY <2>1, <2>2, <2>3, <2>4, <2>5, <2>6, <2>7, <2>8 DEF Next, Solicited
<1> QED
  BY <1>1, <1>2 DEF IInv

LEMMA InitIInv == Init => IInv
<1> SUFFICES ASSUME Init PROVE IInv
  OBVIOUS
<1>1. StrikesAreStalls /\ HealthyServerSpared
  BY DEF Init, StrikesAreStalls, HealthyServerSpared
<1> QED
  BY <1>1, InitType, InitTold DEF IInv

(* Whatever the limit, a server that answers its refreshes is declared     *)
(* silent only after as many stalls in a row as there are strikes.         *)
THEOREM HealthyServersAreSpared == Spec => []HealthyServerSpared
<1>1. IInv => HealthyServerSpared
  BY DEF IInv
<1> QED
  BY <1>1, InitIInv, StepIInv, PTL DEF Spec

=============================================================================
