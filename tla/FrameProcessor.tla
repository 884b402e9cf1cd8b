-------------------------- MODULE FrameProcessor ---------------------------
(***************************************************************************)
(* The background task of one RDP session (rdp_session.rs,                 *)
(* run_frame_processor): a select loop over its keep-alive timer, its      *)
(* command queue, the server's PDUs and the clipboard and DVC channels,    *)
(* with the watch that declares a silent server dead, the reactivation     *)
(* sequence, and the ways the task can end.  The server, the socket and    *)
(* the clock are its environment.                                          *)
(*                                                                         *)
(* Time is what the loop can tell of it: whether a keep-alive is due, and  *)
(* whether the window for a prompt answer is still open.  A handler that   *)
(* takes longer than a keep-alive period (drive I/O is serviced inside it) *)
(* is a Stall.  What commands answer to their callers is left out.         *)
(***************************************************************************)
EXTENDS Naturals, Sequences

CONSTANTS
  MissedLimit, \* KEEP_ALIVE_MISSED_LIMIT
  QueueCap,    \* capacity of the command channel (32 in the code)
  InboxCap     \* bound: PDUs the socket buffers

ASSUME LimitsAssumption ==
  /\ MissedLimit \in Nat \ {0} /\ QueueCap \in Nat \ {0} /\ InboxCap \in Nat \ {0}

VARIABLES
  config,      \* [keepAlive, silenceDrop]: a period is set; no kill switch
  phase,       \* where the task is
  dropReason,  \* drop_reason of the shared state, "none" while unset
  notices,     \* drop notices sent to the daemon
  owner,       \* the RdpSession: "holds", "joining" its end, or "gone"
  queue,       \* the command channel
  watch,       \* keep_alive_watch
  sentBefore,  \* last_keep_alive_sent_at is set
  heard,       \* last_frame_at is later than that
  clientSent,  \* client_sent_since_keep_alive
  awaiting,    \* awaiting_refresh_answer: "no", "open" in its window, "late"
  prompt,      \* refresh_answered_promptly
  due,         \* the keep-alive timer has fired
  inbox,       \* PDUs the server has sent and the loop has yet to read
  server,      \* "answers" refreshes, is "mute" to them, or "gone" silent
  owed,        \* an answering server has yet to answer a refresh
  stirred,     \* the server has yet to react to what the client sent
  writable,    \* a write to the socket succeeds
  stalls       \* history: stalls since a PDU was last read

endVars    == <<phase, dropReason, notices>>
ownerVars  == <<config, owner, queue>>
tickVars   == <<watch, sentBefore, due>>
answerVars == <<awaiting, prompt>>
readVars   == <<heard, inbox, stalls>>
serverVars == <<server, owed, stirred, writable>>
vars == <<endVars, ownerVars, tickVars, clientSent, answerVars, readVars, serverVars>>

Commands == {"input", "clipboard", "shutdown"}
Pdus     == {"update", "deactivate", "terminate", "broken"}
Reasons  == {"none", "silent", "unwritable", "input", "read", "reactivation",
             "terminated", "panic"}
Working  == {"run", "reactivate"}

NoStrikes == [unanswered |-> 0, armed |-> FALSE, failures |-> 0]

Init ==
  /\ config \in [keepAlive : BOOLEAN, silenceDrop : BOOLEAN]
  /\ phase = "none" /\ dropReason = "none" /\ notices = 0
  /\ owner = "holds" /\ queue = <<>>
  /\ watch = NoStrikes
  /\ sentBefore = FALSE /\ due = FALSE /\ clientSent = FALSE
  /\ awaiting = "no" /\ prompt = FALSE
  /\ heard = FALSE /\ inbox = <<>> /\ stalls = 0
  /\ server \in {"answers", "mute"}
  /\ owed = FALSE /\ stirred = FALSE /\ writable = TRUE

(* RdpSession::connect ends by spawning the task.                          *)
Start ==
  /\ phase = "none" /\ phase' = "run"
  /\ UNCHANGED <<dropReason, notices, ownerVars, tickVars, clientSent, answerVars,
                 readVars, serverVars>>

-----------------------------------------------------------------------------
(* The environment.                                                        *)

Arrives(pdu) ==
  /\ phase \in Working /\ Len(inbox) < InboxCap
  /\ inbox' = Append(inbox, pdu)
  /\ UNCHANGED <<endVars, ownerVars, tickVars, clientSent, answerVars, heard, stalls>>

ServerAnswers ==
  /\ owed /\ Arrives("update")
  /\ owed' = FALSE
  /\ UNCHANGED <<server, stirred, writable>>

ServerReacts ==
  /\ stirred /\ Arrives("update")
  /\ stirred' = FALSE
  /\ UNCHANGED <<server, owed, writable>>

(* Unasked: a repaint, a resized desktop, the end of the session.          *)
ServerActs ==
  /\ server # "gone"
  /\ \E pdu \in Pdus : Arrives(pdu)
  /\ UNCHANGED serverVars

(* Its RDP service stops; its TCP stack goes on acknowledging.             *)
ServerGoes ==
  /\ phase \in Working /\ server # "gone"
  /\ server' = "gone" /\ owed' = FALSE /\ stirred' = FALSE
  /\ UNCHANGED <<endVars, ownerVars, tickVars, clientSent, answerVars, readVars, writable>>

WritesChange ==
  /\ phase \in Working
  /\ writable' = ~writable
  /\ UNCHANGED <<endVars, ownerVars, tickVars, clientSent, answerVars, readVars, server,
                 owed, stirred>>

WindowCloses ==
  /\ phase \in Working
  /\ awaiting = "open" /\ awaiting' = "late"
  /\ UNCHANGED <<endVars, ownerVars, tickVars, clientSent, prompt, readVars, serverVars>>

(* A whole period passes with the loop keeping up: all that has arrived is *)
(* read, and a server that answers has answered.                           *)
PeriodElapses ==
  /\ config.keepAlive /\ phase = "run" /\ ~due
  /\ inbox = <<>> /\ ~owed /\ awaiting # "open"
  /\ due' = TRUE
  /\ UNCHANGED <<endVars, ownerVars, watch, sentBefore, clientSent, answerVars, readVars,
                 serverVars>>

(* One handler takes longer than a period; a timer that has already fired  *)
(* does not fire again (MissedTickBehavior::Delay).                        *)
Stall ==
  /\ config.keepAlive /\ phase \in Working /\ ~due
  /\ stalls < MissedLimit
  /\ due' = TRUE
  /\ stalls' = stalls + 1
  /\ awaiting' = IF awaiting = "open" THEN "late" ELSE awaiting
  /\ UNCHANGED <<endVars, ownerVars, watch, sentBefore, clientSent, prompt, heard, inbox,
                 serverVars>>

-----------------------------------------------------------------------------
(* The end of the task: whoever sees drop_reason set sees it before the    *)
(* notice is sent.                                                         *)

Stay == UNCHANGED <<phase, dropReason>>

Drop(reason) == phase' = "stamped" /\ dropReason' = reason

(* The task's locals, its end of the channels and its socket go with it.   *)
Ends ==
  /\ phase' = "ended"
  /\ queue' = <<>> /\ inbox' = <<>>
  /\ watch' = NoStrikes /\ sentBefore' = FALSE /\ due' = FALSE /\ clientSent' = FALSE
  /\ awaiting' = "no" /\ prompt' = FALSE /\ heard' = FALSE
  /\ owed' = FALSE /\ stirred' = FALSE
  /\ UNCHANGED <<dropReason, config, owner, stalls, server, writable>>

Notify ==
  /\ phase = "stamped"
  /\ notices' = notices + 1
  /\ Ends

(* Mutant: a panic ends the task and nobody hears of it.                   *)
PanicsUnheard ==
  /\ phase \in Working
  /\ Ends /\ UNCHANGED notices

Panics ==
  /\ phase \in Working
  /\ Drop("panic")
  /\ UNCHANGED <<notices, ownerVars, tickVars, clientSent, answerVars, readVars,
                 serverVars>>

-----------------------------------------------------------------------------
(* The keep-alive arm.                                                     *)

UpTo(limit, n) == IF n < limit THEN n ELSE limit

(* Mutant: an answer does not clear the strikes.                           *)
KeepStrikes(w, answered, promptly) ==
  [ unanswered |-> UpTo(MissedLimit, IF answered THEN w.unanswered ELSE w.unanswered + 1),
    armed      |-> w.armed \/ promptly,
    failures   |-> 0 ]

(* Mutant: the strikes are set where they should be counted.               *)
StrikeOnce(w, answered, promptly) ==
  [ unanswered |-> IF answered THEN 0 ELSE 1,
    armed      |-> w.armed \/ promptly,
    failures   |-> 0 ]

(* KeepAliveWatch::record_send; no one counts beyond MissedLimit.          *)
RecordSend(w, answered, promptly) ==
  [ unanswered |-> IF answered THEN 0 ELSE UpTo(MissedLimit, w.unanswered + 1),
    armed      |-> w.armed \/ promptly,
    failures   |-> 0 ]

Dead(w) == w.armed /\ w.unanswered >= MissedLimit

KeepAliveSent ==
  /\ phase = "run" /\ due /\ writable
  /\ watch' = RecordSend(watch, sentBefore => heard, sentBefore /\ ~clientSent /\ prompt)
  /\ due' = FALSE /\ sentBefore' = TRUE /\ heard' = FALSE /\ clientSent' = FALSE
  /\ awaiting' = "open" /\ prompt' = FALSE
  /\ owed' = (server = "answers")
  /\ IF Dead(watch') /\ config.silenceDrop THEN Drop("silent") ELSE Stay
  /\ UNCHANGED <<notices, ownerVars, inbox, stalls, server, stirred, writable>>

(* Mutant: a keep-alive that cannot be written leaves no strike.           *)
KeepAliveLost ==
  /\ phase = "run" /\ due /\ ~writable
  /\ due' = FALSE
  /\ UNCHANGED <<endVars, ownerVars, watch, sentBefore, clientSent, answerVars, readVars,
                 serverVars>>

KeepAliveFails ==
  /\ phase = "run" /\ due /\ ~writable
  /\ due' = FALSE
  /\ watch' = [watch EXCEPT !.failures = UpTo(MissedLimit, @ + 1)]
  /\ IF watch'.failures >= MissedLimit THEN Drop("unwritable") ELSE Stay
  /\ UNCHANGED <<notices, ownerVars, sentBefore, clientSent, answerVars, readVars,
                 serverVars>>

-----------------------------------------------------------------------------
(* The command arm, and the owner that feeds it.                           *)

Command(c) ==
  /\ owner = "holds" /\ phase \notin {"none", "ended"} /\ Len(queue) < QueueCap
  /\ queue' = Append(queue, c)
  /\ UNCHANGED <<config, owner, endVars, tickVars, clientSent, answerVars, readVars,
                 serverVars>>

(* Mutant: Shutdown is queued whether or not there is room for it.         *)
DisconnectRegardless ==
  /\ owner = "holds" /\ phase # "none"
  /\ owner' = "joining"
  /\ queue' = Append(queue, "shutdown")
  /\ UNCHANGED <<config, endVars, tickVars, clientSent, answerVars, readVars, serverVars>>

(* disconnect_with_join: try_send, so a full queue takes no Shutdown.      *)
Disconnect ==
  /\ owner = "holds" /\ phase # "none"
  /\ owner' = "joining"
  /\ queue' = IF Len(queue) < QueueCap /\ phase # "ended" THEN Append(queue, "shutdown")
              ELSE queue
  /\ UNCHANGED <<config, endVars, tickVars, clientSent, answerVars, readVars, serverVars>>

(* Mutant: the join has no timeout and nothing aborts the task.            *)
LetGoOnceEnded ==
  /\ owner = "joining" /\ phase = "ended"
  /\ owner' = "gone"
  /\ UNCHANGED <<config, queue, endVars, tickVars, clientSent, answerVars, readVars,
                 serverVars>>

(* The join ends or times out, or the session is dropped without one.      *)
LetGo ==
  /\ owner # "gone" /\ phase # "none"
  /\ owner' = "gone"
  /\ UNCHANGED <<config, queue, endVars, tickVars, clientSent, answerVars, readVars,
                 serverVars>>

(* Drop for RdpSession aborts the task, at its next await.                 *)
Abort ==
  /\ owner = "gone" /\ phase \notin {"none", "ended"}
  /\ Ends /\ UNCHANGED notices

Takes(c) ==
  /\ phase = "run" /\ queue # <<>> /\ Head(queue) = c
  /\ queue' = Tail(queue)
  /\ clientSent' = TRUE
  /\ UNCHANGED <<config, owner, notices, tickVars, answerVars, readVars, server, owed,
                 writable>>

Stirs == stirred' \in {stirred, writable /\ server # "gone"}

(* Input that cannot be encoded is refused; a failed write ends the task.  *)
SendInput ==
  /\ Takes("input")
  /\ \/ Stay /\ UNCHANGED stirred
     \/ writable /\ Stay /\ Stirs
     \/ ~writable /\ Drop("input") /\ UNCHANGED stirred

(* ClipboardSet and ClipboardGet: whether the write succeeds is ignored.   *)
ClipboardCommand == Takes("clipboard") /\ Stay /\ Stirs

Shutdown ==
  /\ phase = "run" /\ queue # <<>> /\ Head(queue) = "shutdown"
  /\ Ends /\ UNCHANGED notices

ChannelClosed ==
  /\ phase = "run" /\ owner = "gone" /\ queue = <<>>
  /\ Ends /\ UNCHANGED notices

(* The clipboard backend and the automation channel: what they ask for is  *)
(* sent, and whether the write succeeds is ignored.                        *)
BackgroundSends ==
  /\ phase = "run"
  /\ clientSent' = TRUE
  /\ Stirs
  /\ UNCHANGED <<endVars, ownerVars, tickVars, answerVars, readVars, server, owed, writable>>

-----------------------------------------------------------------------------
(* The read arm.                                                           *)

(* The first PDU after a refresh answers it if it came within the window.  *)
Reads(pdu) ==
  /\ phase = "run" /\ inbox # <<>> /\ Head(inbox) = pdu
  /\ inbox' = Tail(inbox)
  /\ awaiting' = "no"
  /\ prompt' = (prompt \/ awaiting = "open")
  /\ UNCHANGED <<notices, ownerVars, tickVars, clientSent, serverVars>>

Stamps == heard' = TRUE /\ stalls' = 0

ReadUpdate == Reads("update") /\ Stamps /\ Stay

ReadDeactivate ==
  /\ Reads("deactivate") /\ Stamps
  /\ phase' = "reactivate" /\ UNCHANGED dropReason

(* Mutant: the arm stamps its reason and returns without notifying.        *)
ReadTerminateQuietly ==
  /\ Reads("terminate") /\ Stamps
  /\ phase' = "ended" /\ dropReason' = "terminated"

ReadTerminate == Reads("terminate") /\ Stamps /\ Drop("terminated")

ReadFails == Reads("broken") /\ Drop("read") /\ UNCHANGED <<heard, stalls>>

(* reactivate: inside the read arm, with no timeout of its own.            *)
ReactivateStep ==
  /\ phase = "reactivate" /\ inbox # <<>> /\ Head(inbox) # "broken"
  /\ inbox' = Tail(inbox)
  /\ Stamps
  /\ phase' \in {"reactivate", "run"}
  /\ UNCHANGED <<dropReason, notices, ownerVars, tickVars, clientSent, answerVars,
                 serverVars>>

ReactivateFails ==
  /\ phase = "reactivate" /\ (inbox # <<>> \/ ~writable)
  /\ Drop("reactivation")
  /\ UNCHANGED <<notices, ownerVars, tickVars, clientSent, answerVars, readVars,
                 serverVars>>

-----------------------------------------------------------------------------
KeepAlive == KeepAliveSent \/ KeepAliveFails
Serve     == SendInput \/ ClipboardCommand \/ Shutdown \/ ChannelClosed
Read      == ReadUpdate \/ ReadDeactivate \/ ReadTerminate \/ ReadFails
Reactivate == ReactivateStep \/ ReactivateFails

(* Everything but a server that does what nobody asked it to.              *)
Solicited ==
  \/ Start
  \/ ServerAnswers \/ ServerReacts \/ ServerGoes \/ WritesChange
  \/ WindowCloses \/ PeriodElapses \/ Stall
  \/ Notify \/ Panics
  \/ KeepAlive \/ Serve \/ Read \/ Reactivate \/ BackgroundSends
  \/ (\E c \in Commands \ {"shutdown"} : Command(c)) \/ Disconnect \/ LetGo \/ Abort

Next == Solicited \/ ServerActs

Spec == Init /\ [][Next]_vars

(* The clock runs and a server that answers does so, whatever the traffic; *)
(* select! starves no ready arm; the daemon takes notices;                 *)
(* a join has its timeout, and an abort lands.                             *)
Fairness ==
  /\ WF_vars(WindowCloses) /\ SF_vars(PeriodElapses) /\ SF_vars(ServerAnswers)
  /\ WF_vars(KeepAlive) /\ WF_vars(Serve) /\ WF_vars(Read) /\ WF_vars(Reactivate)
  /\ WF_vars(Notify)
  /\ WF_vars(owner = "joining" /\ LetGo) /\ WF_vars(Abort)

FairSpec == Spec /\ Fairness

-----------------------------------------------------------------------------
(* The values every variable ranges over.                                  *)
TypeOK ==
  /\ config \in [keepAlive : BOOLEAN, silenceDrop : BOOLEAN]
  /\ phase \in {"none", "stamped", "ended"} \cup Working
  /\ dropReason \in Reasons /\ notices \in 0 .. 1
  /\ owner \in {"holds", "joining", "gone"}
  /\ queue \in Seq(Commands) /\ Len(queue) <= QueueCap
  /\ watch \in [unanswered : 0 .. MissedLimit, armed : BOOLEAN, failures : 0 .. MissedLimit]
  /\ sentBefore \in BOOLEAN /\ heard \in BOOLEAN /\ clientSent \in BOOLEAN
  /\ awaiting \in {"no", "open", "late"} /\ prompt \in BOOLEAN /\ due \in BOOLEAN
  /\ inbox \in Seq(Pdus) /\ Len(inbox) <= InboxCap
  /\ server \in {"answers", "mute", "gone"}
  /\ owed \in BOOLEAN /\ stirred \in BOOLEAN /\ writable \in BOOLEAN
  /\ stalls \in 0 .. MissedLimit

(* A server that answers its refreshes is never declared silent, unless as *)
(* many handlers in a row stalled for a whole period as there are strikes  *)
(* - "a stall delivers at most one strike; the next send finds the drained *)
(* replies" (KeepAliveWatch).                                              *)
HealthyServerSpared ==
  dropReason = "silent" => server # "answers" \/ stalls >= MissedLimit

(* A task that ends on its own has told the daemon so, exactly once: every *)
(* exit of the loop, the early return and a panic included.                *)
ToldUnlessLetGo ==
  phase = "ended" /\ owner = "holds" => dropReason # "none" /\ notices = 1

(* The session keeps the promise DaemonSession relies on.                  *)
Life ==
  IF phase = "none" THEN "none"
  ELSE IF dropReason # "none" THEN "dropped"
  ELSE IF phase = "ended" THEN "closed" ELSE "live"

Promise == INSTANCE SessionLife
  WITH life <- Life, owes <- (phase = "stamped"), given <- (owner # "holds")

KeepsPromise == Promise!Spec

(* A server that has stopped for good is noticed, once it is known to      *)
(* answer refreshes: the task does not run on in front of a silent one.    *)
SilentServerDropped ==
  ~<>[](/\ config.keepAlive /\ config.silenceDrop
        /\ phase = "run" /\ watch.armed /\ server = "gone")

(* Nor does it run on over a socket that takes no more bytes, armed or not *)
(* ("in the field took over six hours").                                   *)
UnwritableDropped == ~<>[](config.keepAlive /\ phase = "run" /\ ~writable)

(* A session that is disconnected comes to an end, even if its queue is    *)
(* full or its loop is stuck.                                              *)
StopsWhenAsked == owner = "joining" ~> phase = "ended"

-----------------------------------------------------------------------------
(* A server that never answers a refresh never arms the verdict.           *)
MuteServerNeverArms == watch.armed => server # "mute"

(* A dead server is noticed wherever the loop stands: the age of the last  *)
(* frame never grows unbounded on a session still alive.                   *)
DeadServerNoticed ==
  ~<>[](/\ config.keepAlive /\ config.silenceDrop
        /\ phase \in Working /\ watch.armed /\ server = "gone")

=============================================================================
