---------------------------- MODULE FileTransfer ----------------------------
(***************************************************************************)
(* file push and file pull (handlers/file_transfer.rs) and what the agent  *)
(* does for them (Invoke-FileWriteChunk, -ReadChunk and -Stat of           *)
(* actions.ps1), over a channel that loses messages, is late, closes and   *)
(* comes back with another agent.                                          *)
(*                                                                         *)
(* All transfers concern one remote path, which programs on the remote     *)
(* machine rewrite too; all pulls write one local path.  A file is its     *)
(* sequence of chunks, a chunk is named for the content it belongs to, and *)
(* a hash is the content itself.  Deadlines and the transfer budget are    *)
(* times: when they pass is left open.                                     *)
(***************************************************************************)
EXTENDS Naturals, Sequences, FiniteSets

CONSTANTS
  TransferPlans,  \* bound: which transfers run, and what may go wrong
  Versions,       \* bound: what remote programs may write
  Chunks,         \* per content (a push's, or a version), how many chunks
  PullAttempts    \* PULL_ATTEMPTS (3 in the code)

Contents == DOMAIN Chunks

ASSUME TransferAssumption ==
  /\ Versions \subseteq Contents /\ Chunks \in [Contents -> Nat]
  /\ PullAttempts \in Nat \ {0}
  /\ \A p \in TransferPlans :
       /\ p.pushes \subseteq Contents \ Versions /\ p.pulls \cap Contents = {}
       /\ p.breaks \in Nat /\ p.losses \in Nat /\ p.writes \in Nat

Transfers == UNION {p.pushes \cup p.pulls : p \in TransferPlans}

VARIABLES
  remote,     \* what is at the remote path
  recent,     \* it was written within any --max-age asked for
  parts,      \* the sidecars: transfer id -> what is staged
  local,      \* what is at the local path
  channelUp,  \* the agent's channel is open and greeted
  wireToAgent,  \* requests the agent has yet to read
  tasks,      \* what agents are executing
  answer,     \* per transfer, the reply that waits for its daemon task: at most one
  xfer,       \* per transfer, its handler
  verdict,    \* per transfer, what its caller was told
  swapped,    \* pushes whose content was put in place
  confirmed,  \* those whose content the agent then hashed at the destination
  pinned,     \* pushes whose sidecar the agent last tried to remove in vain
  spoiled,    \* transfers whose request failed, and not because the agent refused it
  unheard,    \* pushes whose abort the agent never got
  mishaps     \* what is left of the bounds

filesVars    == <<remote, recent, parts, swapped, confirmed, pinned>>
channelVars  == <<channelUp, wireToAgent, tasks, spoiled, unheard>>
transferVars == <<filesVars, channelVars, local, answer, xfer, verdict, mishaps>>

Content(c) == [i \in 1 .. Chunks[c] |-> <<c, i>>]
FirstOf(c) == [i \in 1 .. (IF Chunks[c] = 0 THEN 0 ELSE 1) |-> <<c, i>>]
Absent     == <<<<"none", 0>>>>
Whole      == {Content(c) : c \in Contents} \cup {Absent}

Pushing(t) == t \in Contents
NoRequest  == [of |-> "none", op |-> "none", index |-> 0, attempt |-> 0]
Idle       == [pc |-> "idle", index |-> 1, attempt |-> 1, asked |-> NoRequest,
               size |-> 0, hash |-> <<>>, data |-> <<>>]

(* An empty file still takes one chunk.                                    *)
TotalChunks(t) == IF Chunks[t] = 0 THEN 1 ELSE Chunks[t]
IsLast(t)      == xfer[t].index = TotalChunks(t)

TransferInit ==
  /\ \E p \in TransferPlans :
       /\ mishaps = [breaks |-> p.breaks, losses |-> p.losses, writes |-> p.writes,
                     maxAge |-> p.maxAge]
       /\ xfer = [t \in Transfers |-> IF t \in p.pushes \cup p.pulls THEN Idle
                                      ELSE [Idle EXCEPT !.pc = "unused"]]
  /\ remote \in {Absent} \cup {Content(v) : v \in Versions} /\ recent = FALSE
  /\ parts = [t \in Transfers |-> Absent]
  /\ local = Absent
  /\ channelUp = TRUE /\ wireToAgent = <<>> /\ tasks = {}
  /\ answer = [t \in Transfers |-> {}]
  /\ verdict = [t \in Transfers |-> "none"]
  /\ swapped = {} /\ confirmed = {} /\ pinned = {} /\ spoiled = {} /\ unheard = {}

-----------------------------------------------------------------------------
(* The remote machine's other programs, and the channel.                   *)

RemoteWrites(v) ==
  /\ mishaps.writes > 0 /\ mishaps' = [mishaps EXCEPT !.writes = @ - 1]
  /\ remote' = Content(v) /\ recent' = TRUE
  /\ UNCHANGED <<parts, swapped, confirmed, pinned, channelVars, local, answer, xfer, verdict>>

Aborted(requests) == {requests[i].of : i \in {j \in DOMAIN requests : requests[j].op = "abort"}}

(* A frame the agent cannot use is skipped.                                *)
RequestLost ==
  /\ mishaps.losses > 0 /\ wireToAgent # <<>>
  /\ mishaps' = [mishaps EXCEPT !.losses = @ - 1]
  /\ wireToAgent' = Tail(wireToAgent)
  /\ unheard' = unheard \cup Aborted(SubSeq(wireToAgent, 1, 1))
  /\ UNCHANGED <<filesVars, channelUp, tasks, spoiled, local, answer, xfer, verdict>>

Waiting(t) == xfer[t].pc \in {"waiting", "aborting"}
Refusal    == [ok |-> FALSE, data |-> <<>>, size |-> 0, recent |-> FALSE]

(* A close answers what is pending with an error.  The agent dies with it, *)
(* or finishes what it was at.                                             *)
FileChannelCloses ==
  /\ channelUp /\ mishaps.breaks > 0
  /\ mishaps' = [mishaps EXCEPT !.breaks = @ - 1]
  /\ channelUp' = FALSE /\ wireToAgent' = <<>>
  /\ unheard' = unheard \cup Aborted(wireToAgent)
  /\ LET cut == {t \in Transfers : Waiting(t) /\ answer[t] = {}}
     IN  /\ answer' = [t \in Transfers |-> IF t \in cut THEN {Refusal} ELSE answer[t]]
         /\ spoiled' = spoiled \cup cut
  /\ \/ tasks' = {}
     \/ tasks' = {[k EXCEPT !.orphan = TRUE] : k \in tasks}
  /\ UNCHANGED <<filesVars, local, xfer, verdict>>

AgentIsBack ==
  /\ ~channelUp /\ channelUp' = TRUE
  /\ UNCHANGED <<filesVars, wireToAgent, tasks, spoiled, unheard, local, answer, xfer, verdict,
                 mishaps>>

-----------------------------------------------------------------------------
(* The agent: one request after the other, in the order they arrive.       *)

Reply(ok, data, size, rec) == [ok |-> ok, data |-> data, size |-> size, recent |-> rec]

(* A reply finds its request pending, or is dropped.                       *)
Answers(r, reply, orphan) ==
  answer' = IF ~orphan /\ Waiting(r.of) /\ xfer[r.of].asked = r
            THEN [answer EXCEPT ![r.of] = {reply}] ELSE answer

AgentReads ==
  /\ channelUp /\ wireToAgent # <<>>
  /\ \A k \in tasks : k.orphan
  /\ wireToAgent' = Tail(wireToAgent)

(* Sidecars more than ten minutes old are those of transfers that ended.   *)
Over == {t \in Transfers : xfer[t].pc \in {"idle", "unused", "done"}}

(* Mutant: chunks are written at the destination, as they once were.       *)
StagesInPlace(r, swept) ==
  /\ remote' = IF r.index = 1 THEN FirstOf(r.of)
               ELSE remote \o <<<<r.of, r.index>>>>
  /\ parts' = [parts EXCEPT ![r.of] = remote']

(* Invoke-FileWriteChunk: the first chunk makes the sidecar, a later one   *)
(* is appended to it, and makes it if it is gone.                          *)
Staged(r) ==
  IF r.index = 1 THEN FirstOf(r.of)
  ELSE IF parts[r.of] = Absent THEN <<<<r.of, r.index>>>>
  ELSE Append(parts[r.of], <<r.of, r.index>>)

SidecarsAre(r, swept, staged) ==
  parts' = [t \in Transfers |-> IF t \in swept THEN Absent
                                ELSE IF t = r.of THEN staged ELSE parts[t]]

Stages(r, swept) == SidecarsAre(r, swept, Staged(r)) /\ UNCHANGED remote

(* Remove-Item is told to be silent: a sidecar that something else holds   *)
(* open stays, and what follows is the same.                               *)
Discards(t) ==
  \/ parts' = [parts EXCEPT ![t] = Absent] /\ pinned' = pinned \ {t}
  \/ parts[t] # Absent /\ pinned' = pinned \cup {t} /\ UNCHANGED parts

(* A chunk that cannot be written is not to leave its sidecar, written or  *)
(* half written, either.                                                   *)
Unstages(r, swept) ==
  \/ SidecarsAre(r, swept, Absent) /\ pinned' = pinned \ {r.of}
  \/ \E left \in {parts[r.of], Staged(r)} \ {Absent} :
       SidecarsAre(r, swept, left) /\ pinned' = pinned \cup {r.of}

Swept(r) == SUBSET IF r.index = 1 THEN Over \ {r.of} ELSE {}

WritesChunk ==
  /\ AgentReads
  /\ LET r == Head(wireToAgent)
     IN  /\ r.op = "write" /\ r.index < TotalChunks(r.of)
         /\ \/ /\ (\E swept \in Swept(r) : Stages(r, swept)) /\ UNCHANGED pinned
               /\ Answers(r, Reply(TRUE, <<>>, 0, FALSE), FALSE)
            \/ /\ (\E swept \in Swept(r) : Unstages(r, swept)) /\ UNCHANGED remote
               /\ Answers(r, Refusal, FALSE)
  /\ UNCHANGED <<recent, swapped, confirmed, channelUp, tasks, spoiled, unheard, local, xfer, verdict,
                 mishaps>>

Busy(r, stage) == tasks' = tasks \cup {[req |-> r, stage |-> stage, orphan |-> FALSE,
                                        size |-> Len(remote), recent |-> recent]}

(* The last chunk; the assembled file is verified before anything else.    *)
WritesLastChunk ==
  /\ AgentReads
  /\ LET r == Head(wireToAgent)
     IN  /\ r.op = "write" /\ r.index = TotalChunks(r.of)
         /\ \/ /\ (\E swept \in Swept(r) : Stages(r, swept)) /\ UNCHANGED pinned
               /\ parts'[r.of] = Content(r.of)
               /\ Busy(r, "swap") /\ UNCHANGED answer
            \/ /\ (\E swept \in Swept(r) : Unstages(r, swept)) /\ UNCHANGED <<remote, tasks>>
               /\ Answers(r, Refusal, FALSE)
  /\ UNCHANGED <<recent, swapped, confirmed, channelUp, spoiled, unheard, local, xfer, verdict, mishaps>>

(* File.Replace, or File.Move onto a path where nothing is, takes the      *)
(* sidecar away; either may fail, and the sidecar is discarded.            *)
Swaps ==
  /\ \E k \in tasks :
       /\ k.stage = "swap"
       /\ \/ /\ parts[k.req.of] # Absent
             /\ parts' = [parts EXCEPT ![k.req.of] = Absent]
             /\ remote' = parts[k.req.of] /\ recent' = TRUE
             /\ swapped' = swapped \cup {k.req.of}
             /\ tasks' = (tasks \ {k}) \cup {[k EXCEPT !.stage = "rehash"]}
             /\ UNCHANGED <<answer, pinned>>
          \/ /\ Discards(k.req.of)
             /\ tasks' = tasks \ {k}
             /\ Answers(k.req, Refusal, k.orphan)
             /\ UNCHANGED <<remote, recent, swapped>>
  /\ UNCHANGED <<confirmed, channelUp, wireToAgent, spoiled, unheard, local, xfer, verdict, mishaps>>

(* What is at the destination by now is what is reported.  It may be held  *)
(* open or gone: then the answer is an error, although the swap is done.   *)
Rehashes ==
  /\ \E k \in tasks :
       /\ k.stage = "rehash"
       /\ tasks' = tasks \ {k}
       /\ \/ /\ confirmed' = IF remote = Content(k.req.of) THEN confirmed \cup {k.req.of}
                             ELSE confirmed
             /\ Answers(k.req, Reply(TRUE, remote, Len(remote), FALSE), k.orphan)
             /\ UNCHANGED spoiled
          \/ /\ Answers(k.req, Refusal, k.orphan)
             /\ spoiled' = spoiled \cup {k.req.of} /\ UNCHANGED confirmed
  /\ UNCHANGED <<remote, recent, parts, swapped, pinned, channelUp, wireToAgent, unheard, local,
                 xfer, verdict, mishaps>>

DiscardsSidecar ==
  /\ AgentReads
  /\ LET r == Head(wireToAgent)
     IN  /\ r.op = "abort"
         /\ Discards(r.of)
         /\ Answers(r, Reply(TRUE, <<>>, 0, FALSE), FALSE)
  /\ UNCHANGED <<remote, recent, swapped, confirmed, channelUp, tasks, spoiled, unheard, local, xfer,
                 verdict, mishaps>>

(* Invoke-FileStat takes the size and the time first, then hashes.         *)
Stats ==
  /\ AgentReads
  /\ LET r == Head(wireToAgent)
     IN  /\ r.op = "stat"
         /\ IF remote = Absent
            THEN Answers(r, Reply(TRUE, Absent, 0, FALSE), FALSE) /\ UNCHANGED tasks
            ELSE Busy(r, "hash") /\ UNCHANGED answer
  /\ UNCHANGED <<filesVars, channelUp, spoiled, unheard, local, xfer, verdict, mishaps>>

StatHashes ==
  /\ \E k \in tasks :
       /\ k.stage = "hash" /\ tasks' = tasks \ {k}
       /\ Answers(k.req, Reply(TRUE, remote, k.size, k.recent), k.orphan)
  /\ UNCHANGED <<filesVars, channelUp, wireToAgent, spoiled, unheard, local, xfer, verdict, mishaps>>

(* Invoke-FileReadChunk: past the end, nothing and eof.                    *)
ChunkAt(i) == IF i \in DOMAIN remote THEN <<remote[i]>> ELSE <<>>

ReadsChunk ==
  /\ AgentReads
  /\ LET r == Head(wireToAgent)
     IN  /\ r.op = "read"
         /\ Answers(r, IF remote = Absent THEN Refusal
                       ELSE Reply(TRUE, ChunkAt(r.index), 0, FALSE), FALSE)
  /\ UNCHANGED <<filesVars, channelUp, tasks, spoiled, unheard, local, xfer, verdict, mishaps>>

-----------------------------------------------------------------------------
(* The daemon's side of a request: DvcIpc.                                 *)

Asks(t, op, pc) ==
  LET r == [of |-> t, op |-> op, index |-> xfer[t].index, attempt |-> xfer[t].attempt]
  IN  /\ wireToAgent' = Append(wireToAgent, r)
      /\ xfer' = [xfer EXCEPT ![t].pc = pc, ![t].asked = r]

Ends(t, v) == verdict' = [verdict EXCEPT ![t] = v] /\ xfer' = [xfer EXCEPT ![t].pc = "done"]

(* ready_ipc.                                                              *)
TransferBegins(t) ==
  /\ xfer[t].pc = "idle"
  /\ IF channelUp THEN xfer' = [xfer EXCEPT ![t].pc = "ready"] /\ UNCHANGED verdict
     ELSE Ends(t, "failed")
  /\ UNCHANGED <<filesVars, channelVars, local, answer, mishaps>>

(* Mutant: a lost reply is a failure like any other.                       *)
LostIsRejected(last, indeterminate) == IF ~last THEN "untouched" ELSE "rejected"

(* push_failure_advice.                                                    *)
PushAdvice(last, indeterminate) ==
  IF ~last THEN "untouched" ELSE IF indeterminate THEN "unknown" ELSE "rejected"

(* Mutant: the sidecar is left to the next push's sweep.                   *)
NeverAborts(t, indeterminate) ==
  /\ verdict' = [verdict EXCEPT ![t] = PushAdvice(IsLast(t), indeterminate)]
  /\ xfer' = [xfer EXCEPT ![t].pc = "done"]

(* A failed push discards its sidecar, unless the swap may have happened.  *)
PushFails(t, indeterminate) ==
  /\ verdict' = [verdict EXCEPT ![t] = PushAdvice(IsLast(t), indeterminate)]
  /\ xfer' = [xfer EXCEPT ![t].pc = IF IsLast(t) /\ indeterminate THEN "done" ELSE "abort"]

PushAsks(t) ==
  /\ Pushing(t) /\ xfer[t].pc = "ready"
  /\ IF channelUp THEN Asks(t, "write", "waiting") /\ UNCHANGED verdict
     ELSE PushFails(t, FALSE) /\ UNCHANGED wireToAgent
  /\ UNCHANGED <<filesVars, channelUp, tasks, spoiled, unheard, local, answer, mishaps>>

(* TRANSFER_BUDGET is spent.                                               *)
PushRunsOut(t) ==
  /\ Pushing(t) /\ xfer[t].pc = "ready"
  /\ verdict' = [verdict EXCEPT ![t] = "untouched"]
  /\ xfer' = [xfer EXCEPT ![t].pc = "abort"]
  /\ UNCHANGED <<filesVars, channelVars, local, answer, mishaps>>

(* verify_push: the hash of what is at the destination.                    *)
VerifyPush(t, reply) == reply.data = Content(t)

PushAnswered(t) ==
  /\ Pushing(t) /\ xfer[t].pc = "waiting"
  /\ \E reply \in answer[t] :
       IF ~reply.ok THEN PushFails(t, FALSE)
       ELSE IF ~IsLast(t)
       THEN xfer' = [xfer EXCEPT ![t].pc = "ready", ![t].index = @ + 1] /\ UNCHANGED verdict
       ELSE Ends(t, IF VerifyPush(t, reply) THEN "ok" ELSE "unverified")
  /\ answer' = [answer EXCEPT ![t] = {}]
  /\ UNCHANGED <<filesVars, channelVars, local, mishaps>>

PushTimesOut(t) ==
  /\ Pushing(t) /\ xfer[t].pc = "waiting" /\ answer[t] = {}
  /\ PushFails(t, TRUE)
  /\ UNCHANGED <<filesVars, channelVars, local, answer, mishaps>>

(* abort_push: best effort.                                                *)
PushAborts(t) ==
  /\ xfer[t].pc = "abort"
  /\ IF channelUp THEN Asks(t, "abort", "aborting") /\ UNCHANGED unheard
     ELSE /\ xfer' = [xfer EXCEPT ![t].pc = "done"]
          /\ unheard' = unheard \cup {t} /\ UNCHANGED wireToAgent
  /\ UNCHANGED <<filesVars, channelUp, tasks, spoiled, local, answer, verdict, mishaps>>

AbortEnds(t) ==
  /\ xfer[t].pc = "aborting"
  /\ xfer' = [xfer EXCEPT ![t].pc = "done"]
  /\ answer' = [answer EXCEPT ![t] = {}]
  /\ UNCHANGED <<filesVars, channelVars, local, verdict, mishaps>>

-----------------------------------------------------------------------------
(* pull_once and its retries.                                              *)

Reading(t) == xfer[t].asked.op # "none"

PullAsks(t) ==
  /\ ~Pushing(t) /\ xfer[t].pc = "ready"
  /\ IF channelUp
     THEN Asks(t, IF Reading(t) THEN "read" ELSE "stat", "waiting") /\ UNCHANGED verdict
     ELSE Ends(t, "failed") /\ UNCHANGED wireToAgent
  /\ UNCHANGED <<filesVars, channelUp, tasks, spoiled, unheard, local, answer, mishaps>>

(* No reply in time, or no budget left.                                    *)
PullGivesUp(t) ==
  /\ ~Pushing(t) /\ xfer[t].pc \in {"ready", "waiting"} /\ answer[t] = {}
  /\ Ends(t, "failed")
  /\ UNCHANGED <<filesVars, channelVars, local, answer, mishaps>>

(* All is read: it is what was hashed, or the file changed under the pull, *)
(* which is tried again if the file is small, quick and not yet read too   *)
(* often.                                                                  *)
Compares(t, hash, data) ==
  IF data = hash
  THEN xfer' = [xfer EXCEPT ![t].pc = "write", ![t].data = data] /\ UNCHANGED verdict
  ELSE \/ /\ xfer[t].attempt < PullAttempts
          /\ xfer' = [xfer EXCEPT ![t] = [Idle EXCEPT !.pc = "ready",
                                                      !.attempt = xfer[t].attempt + 1]]
          /\ UNCHANGED verdict
       \/ Ends(t, "changed")

(* The stat: a file that is missing, or too old for --max-age, is refused. *)
PullStatted(t) ==
  /\ xfer[t].pc = "waiting" /\ xfer[t].asked.op = "stat"
  /\ \E reply \in answer[t] :
       IF ~reply.ok \/ reply.data = Absent THEN Ends(t, "failed")
       ELSE IF mishaps.maxAge /\ ~reply.recent THEN Ends(t, "stale")
       ELSE IF reply.size = 0 THEN Compares(t, reply.data, <<>>)
       ELSE /\ xfer' = [xfer EXCEPT ![t].pc = "ready", ![t].hash = reply.data,
                                    ![t].size = reply.size]
            /\ UNCHANGED verdict
  /\ answer' = [answer EXCEPT ![t] = {}]
  /\ UNCHANGED <<filesVars, channelVars, local, mishaps>>

PullRead(t) ==
  /\ xfer[t].pc = "waiting" /\ xfer[t].asked.op = "read"
  /\ \E reply \in answer[t] :
       LET data == xfer[t].data \o reply.data
       IN  IF ~reply.ok THEN Ends(t, "failed")
           ELSE IF reply.data = <<>> \/ Len(data) >= xfer[t].size
           THEN Compares(t, xfer[t].hash, data)
           ELSE /\ xfer' = [xfer EXCEPT ![t].pc = "ready", ![t].index = @ + 1,
                                        ![t].data = data]
                /\ UNCHANGED verdict
  /\ answer' = [answer EXCEPT ![t] = {}]
  /\ UNCHANGED <<filesVars, channelVars, local, mishaps>>

(* write_local_atomically: a sibling that is renamed, or removed.          *)
WritesLocally(t) ==
  /\ xfer[t].pc = "write"
  /\ \/ local' = xfer[t].data /\ Ends(t, "ok")
     \/ UNCHANGED local /\ Ends(t, "failed")
  /\ UNCHANGED <<filesVars, channelVars, answer, mishaps>>

-----------------------------------------------------------------------------
HandlerStep(t) ==
  \/ TransferBegins(t) \/ PushAsks(t) \/ PushRunsOut(t) \/ PushAnswered(t) \/ PushTimesOut(t)
  \/ PushAborts(t) \/ AbortEnds(t)
  \/ PullAsks(t) \/ PullGivesUp(t) \/ PullStatted(t) \/ PullRead(t) \/ WritesLocally(t)

FileAgentStep ==
  WritesChunk \/ WritesLastChunk \/ Swaps \/ Rehashes \/ DiscardsSidecar \/ Stats \/ StatHashes
  \/ ReadsChunk

TransferNext ==
  \/ \E t \in Transfers : HandlerStep(t)
  \/ FileAgentStep
  \/ \E v \in Versions : RemoteWrites(v)
  \/ RequestLost \/ FileChannelCloses \/ AgentIsBack

TransferSpec == TransferInit /\ [][TransferNext]_transferVars

-----------------------------------------------------------------------------
(* Properties.                                                             *)

Verdicts == {"none", "ok", "untouched", "unknown", "rejected", "unverified", "failed",
             "changed", "stale"}

TransferTypeOK ==
  /\ recent \in BOOLEAN /\ channelUp \in BOOLEAN
  /\ verdict \in [Transfers -> Verdicts]
  /\ swapped \subseteq Contents /\ confirmed \subseteq swapped
  /\ pinned \subseteq Contents /\ spoiled \subseteq Transfers
  /\ \A t \in Transfers :
       /\ xfer[t].pc \in {"unused", "idle", "ready", "waiting", "abort", "aborting", "write",
                          "done"}
       /\ xfer[t].attempt \in 1 .. PullAttempts
       /\ Cardinality(answer[t]) <= 1
  /\ Cardinality({k \in tasks : ~k.orphan}) <= 1

(* No file is ever torn, on either side: whatever fails, overlaps or is    *)
(* abandoned half-way, the remote path holds a file that somebody wrote as *)
(* a whole, and a file rewritten between a pull's stat and its last read,  *)
(* to another size or the same, is delivered as one version or not at all. *)
WholeFiles ==
  /\ remote \in Whole /\ local \in Whole
  /\ \A t \in Transfers : verdict[t] = "ok" /\ ~Pushing(t) => xfer[t].data \in Whole \ {Absent}

(* What the caller of a push was told stays true: a push reported done had *)
(* its content at the destination when it was looked at; one reported as   *)
(* not having touched the destination never does, a late execution by the  *)
(* agent included; nor one reported as rejected, unless it failed in one   *)
(* of the two ways that are no rejection: the channel closed under its     *)
(* last chunk, or the agent could not read back what it had put in place   *)
(* (which RejectedMeansKept is about).                                     *)
PushVerdictsHold ==
  \A t \in Transfers :
    /\ verdict[t] = "ok" /\ Pushing(t) => t \in confirmed
    /\ verdict[t] = "untouched" => t \notin swapped
    /\ verdict[t] = "rejected" /\ t \notin spoiled => t \notin swapped

(* Once the agent has read all it was sent, no sidecar of a finished push  *)
(* is left on the remote disk, late chunks and overlapping pushes          *)
(* notwithstanding, unless its abort did not get through, the reply to the *)
(* last chunk did not come, or the agent's latest attempt to remove it     *)
(* failed: an agent that cannot remove it once is given a second chance by *)
(* the abort, though no third.                                             *)
SidecarsCleared ==
  wireToAgent = <<>> /\ tasks = {} =>
    \A t \in Transfers :
      xfer[t].pc = "done" /\ parts[t] # Absent =>
        verdict[t] = "unknown" \/ t \in unheard \cup pinned

(* push_failure_advice, of a final step the agent rejected: "the           *)
(* destination was not replaced".                                          *)
RejectedMeansKept == \A t \in Transfers : verdict[t] = "rejected" => t \notin swapped

=============================================================================
