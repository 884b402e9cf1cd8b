------------------------------- MODULE RunFollow -------------------------------
(***************************************************************************)
(* run-poll --follow: the CLI's loop of polls (follow_poll in              *)
(* cli/commands/automate.rs) over a process started with run --stream,     *)
(* whose output the agent hands out once (Invoke-RunPoll of actions.ps1).  *)
(*                                                                         *)
(* The output is numbered chunks.  A poll's request or reply may be lost   *)
(* in the channel, where the daemon's recovery ladder may find the reply   *)
(* in the agent's journal or not (AgentRequests says when); the CLI's      *)
(* socket may drop.  How long anything takes is left open.                 *)
(***************************************************************************)
EXTENDS Naturals, Sequences, FiniteSets

CONSTANTS
  MaxOutput,   \* bound: chunks the process writes
  MaxMishaps,  \* bound: requests and replies lost, sockets dropped
  MaxFollows   \* bound: how often the caller runs the command

ASSUME FollowAssumption ==
  MaxOutput \in Nat /\ MaxMishaps \in Nat /\ MaxFollows \in Nat

Chunk == 1 .. MaxOutput

VARIABLES
  produced,    \* chunks in the process's output file
  running,    \* the process has not exited
  stream,     \* the agent's entry for it: what was handed out, whether its exit was seen
  request,    \* the poll the agent has yet to answer
  reply,      \* the answer that is on its way to the CLI: at most one
  follow,     \* the CLI: where it is, and what it holds for one final document
  json,       \* --json
  delivered,  \* the chunks printed, in order
  ending,    \* how the last follow ended
  told,       \* a caller was told that output may be lost
  bounds

followVars == <<produced, running, stream, request, reply, follow, json, delivered, ending, told,
                bounds>>

NoHold == [pc |-> "poll", held |-> <<>>]

FollowInit ==
  /\ produced = 0 /\ running = TRUE
  /\ stream = [known |-> TRUE, offset |-> 0, exitSeen |-> FALSE]
  /\ request = FALSE /\ reply = {}
  /\ follow = NoHold /\ json \in BOOLEAN /\ delivered = <<>>
  /\ ending = "none" /\ told = FALSE
  /\ bounds = [mishaps |-> MaxMishaps, follows |-> MaxFollows]

cliVars    == <<follow, json, delivered, ending, told>>
runVars == <<produced, running, stream>>

-----------------------------------------------------------------------------
(* The process, and the agent's side.                                      *)

ProcessWrites ==
  /\ running /\ produced < MaxOutput /\ produced' = produced + 1
  /\ UNCHANGED <<running, stream, request, reply, cliVars, bounds>>

ProcessExits ==
  /\ running /\ running' = FALSE
  /\ UNCHANGED <<produced, stream, request, reply, cliVars, bounds>>

Answer(ok, from, exited, unread) ==
  [ok |-> ok, chunks |-> [i \in 1 .. (IF from > produced THEN 0 ELSE produced - from + 1) |->
                            from + i - 1],
   exited |-> exited, unread |-> unread]
Failure == [ok |-> FALSE, chunks |-> <<>>, exited |-> FALSE, unread |-> FALSE]

(* Read-StreamTail: what was appended since the last poll; a file that     *)
(* cannot be read now is left for the next.                                *)
PollAnswered ==
  /\ request /\ request' = FALSE
  /\ IF ~stream.known THEN reply' = {Failure} /\ UNCHANGED stream
     ELSE \E unread \in BOOLEAN :
            /\ reply' = {Answer(TRUE, IF unread THEN produced + 1 ELSE stream.offset + 1,
                                ~running, unread)}
            /\ stream' = [stream EXCEPT !.offset = IF unread THEN @ ELSE produced,
                                        !.exitSeen = @ \/ ~running]
  /\ UNCHANGED <<produced, running, cliVars, bounds>>

(* Remove-ExpiredStreams: ten minutes, or 32 other processes, after the    *)
(* exit was seen.                                                          *)
StreamExpires ==
  /\ stream.known /\ stream.exitSeen
  /\ stream' = [stream EXCEPT !.known = FALSE]
  /\ UNCHANGED <<produced, running, request, reply, cliVars, bounds>>

-----------------------------------------------------------------------------
(* Between the agent and the CLI.                                          *)

Mishap == bounds.mishaps > 0 /\ bounds' = [bounds EXCEPT !.mishaps = @ - 1]

(* The agent never got the poll; the daemon reports that much.             *)
PollLost ==
  /\ request /\ Mishap
  /\ request' = FALSE /\ reply' = {Failure}
  /\ UNCHANGED <<runVars, cliVars>>

(* The reply is lost, and the recovery ladder does not find it: the agent  *)
(* is busy, was replaced, or evicted it.  (That it finds it is a reply.)   *)
ReplyUnrecovered ==
  /\ \E r \in reply : r.ok
  /\ Mishap /\ reply' = {Failure}
  /\ UNCHANGED <<runVars, request, cliVars>>

-----------------------------------------------------------------------------
(* follow_poll.                                                            *)

FollowPolls ==
  /\ follow.pc = "poll" /\ ~request /\ reply = {}
  /\ request' = TRUE /\ follow' = [follow EXCEPT !.pc = "wait"]
  /\ UNCHANGED <<runVars, reply, json, delivered, ending, told, bounds>>

FollowGivesUp(o) ==
  /\ follow' = [follow EXCEPT !.pc = "stopped"]
  /\ ending' = o /\ told' = TRUE

(* Output is printed as it comes, or held for the one document of --json.  *)
Collects(r) == [print |-> IF json THEN <<>> ELSE r.chunks,
                held  |-> IF json THEN follow.held \o r.chunks ELSE <<>>]

(* A poll that failed ends the follow.                                     *)
FollowFails ==
  /\ follow.pc = "wait" /\ reply # {} /\ \A r \in reply : ~r.ok
  /\ reply' = {} /\ FollowGivesUp("failed")
  /\ UNCHANGED <<runVars, request, json, delivered, bounds>>

(* The process has exited, or the follow's budget is spent.                *)
FollowEnds ==
  /\ follow.pc = "wait"
  /\ \E r \in reply, o \in {"exited", "running"} :
       /\ r.ok /\ (o = "exited" <=> r.exited)
       /\ delivered' = delivered \o Collects(r).print \o Collects(r).held
       /\ follow' = [pc |-> "stopped", held |-> <<>>]
       /\ ending' = (IF r.unread THEN "unread" ELSE o) /\ told' = (told \/ r.unread)
  /\ reply' = {}
  /\ UNCHANGED <<runVars, request, json, bounds>>

FollowGoesOn ==
  /\ follow.pc = "wait"
  /\ \E r \in reply :
       /\ r.ok /\ ~r.exited
       /\ delivered' = delivered \o Collects(r).print
       /\ follow' = [pc |-> "poll", held |-> Collects(r).held]
       /\ told' = (told \/ r.unread)
  /\ reply' = {}
  /\ UNCHANGED <<runVars, request, json, ending, bounds>>

(* Mutant: a poll is taken for a read, and retried.                        *)
PollsAgain == follow' = [follow EXCEPT !.pc = "poll"] /\ UNCHANGED <<ending, told>>

(* send_with_retry: a poll is not read-only, and is not sent again.        *)
AfterDrop == FollowGivesUp("dropped")

(* The socket drops under the poll, which the daemon may finish anyway.    *)
SocketDrops ==
  /\ follow.pc = "wait" /\ Mishap
  /\ AfterDrop /\ reply' = {}
  /\ request' \in {request, FALSE}
  /\ UNCHANGED <<runVars, json, delivered>>

(* A reply nobody waits for any more.                                      *)
ReplyUnheard ==
  /\ follow.pc # "wait" /\ reply # {} /\ reply' = {}
  /\ UNCHANGED <<runVars, request, cliVars, bounds>>

(* "Run run-poll --follow again to keep collecting."                       *)
FollowAgain ==
  /\ follow.pc = "stopped" /\ bounds.follows > 0
  /\ bounds' = [bounds EXCEPT !.follows = @ - 1]
  /\ follow' = NoHold /\ ending' = "none"
  /\ UNCHANGED <<runVars, request, reply, json, delivered, told>>

FollowNext ==
  \/ ProcessWrites \/ ProcessExits \/ PollAnswered \/ StreamExpires
  \/ PollLost \/ ReplyUnrecovered
  \/ FollowPolls \/ FollowFails \/ FollowEnds \/ FollowGoesOn
  \/ SocketDrops \/ ReplyUnheard \/ FollowAgain

FollowSpec == FollowInit /\ [][FollowNext]_followVars

-----------------------------------------------------------------------------
(* Properties.                                                             *)

FollowTypeOK ==
  /\ produced \in 0 .. MaxOutput /\ running \in BOOLEAN /\ request \in BOOLEAN
  /\ stream \in [known : BOOLEAN, offset : 0 .. MaxOutput, exitSeen : BOOLEAN]
  /\ stream.offset <= produced /\ Cardinality(reply) <= 1 /\ ~(request /\ reply # {})
  /\ follow.pc \in {"poll", "wait", "stopped"} /\ told \in BOOLEAN
  /\ ending \in {"none", "failed", "exited", "running", "unread", "dropped"}

Elements(s) == {s[i] : i \in DOMAIN s}
InTransit   == UNION {Elements(r.chunks) : r \in reply}

(* The agent hands every chunk out once.  So a chunk that was handed out   *)
(* is printed, held for the document or on its way, or its caller was told *)
(* that output may be lost; nothing is printed twice or out of order; and  *)
(* a follow that reports the exit has delivered all there was to deliver.  *)
OutputAccounted ==
  /\ told \/ Failure \in reply \/ 1 .. stream.offset \subseteq
               Elements(delivered) \cup Elements(follow.held) \cup InTransit
  /\ \A i, j \in DOMAIN delivered : i < j => delivered[i] < delivered[j]
  /\ ending = "exited" /\ ~told => Elements(delivered) = 1 .. produced

(* follow_poll, of a dropped connection: "Output produced since the        *)
(* previous poll may have been lost", and no other: what earlier polls     *)
(* brought was printed.                                                    *)
OnlyLastPollLost == ending \in {"failed", "dropped"} => follow.held = <<>>

=============================================================================
