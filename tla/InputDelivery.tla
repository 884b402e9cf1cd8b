---------------------------- MODULE InputDelivery ----------------------------
(***************************************************************************)
(* Keyboard and mouse input on its way to the remote desktop.  The command *)
(* line's handlers, the viewer's web socket and the agent's bootstrap all  *)
(* send batches of events to one session: a caller takes the session's     *)
(* lock, queues a batch for the frame processor and waits for the answer   *)
(* that the batch reached the socket, for a bounded time.  The processor   *)
(* takes the batches in order; it may be held up by other work for longer  *)
(* than a caller waits, and then still sends what it finds in its queue.   *)
(*                                                                         *)
(* There are two shapes of operation.  A combination presses its keys one  *)
(* batch at a time and releases them in reverse, all under one lock        *)
(* (keyboard press, press-seq).  Every other operation is a list of        *)
(* batches in one or more holds of the lock, and stops at its first error  *)
(* (type, click, drag, paste, scroll, key-down, a viewer's message, the    *)
(* bootstrap's Win+R).                                                     *)
(***************************************************************************)
EXTENDS Naturals, Sequences, FiniteSets

CONSTANTS
    Callers,    \* handlers that run at the same time
    NoCaller,   \* nobody holds the session's lock
    KeyNames,   \* the keys and buttons
    InputPlans, \* what each caller does
    QueueMax,   \* capacity of the command channel
    MaxStalls   \* bound: waits that run out before the processor answers

Batch == Seq({"down", "up"} \X KeyNames)

(* A caller has combinations of keys, or holds of the lock with the        *)
(* batches sent in each.                                                   *)
ASSUME InputAssumption ==
    /\ NoCaller \notin Callers
    /\ QueueMax \in Nat \ {0} /\ MaxStalls \in Nat
    /\ InputPlans \subseteq
          [Callers -> [combos : Seq(Seq(KeyNames)), holds : Seq(Seq(Batch))]]
    /\ \A p \in InputPlans, c \in Callers :
          (p[c].combos = <<>>) # (p[c].holds = <<>>)

VARIABLES
    inputPlan,  \* the operation of each caller
    inputHolder,     \* who holds rdp_session's lock
    stage,      \* each caller: waits for the lock, sends, asks, is done
    ahead,      \* combinations or holds of the lock not begun yet
    todo,       \* batches left in the current one
    rising,     \* still pressing the keys of the current combination
    down,       \* key-downs that were answered
    failed,     \* an answer was an error
    completed,  \* combinations finished
    queue,      \* command_rx: commands the processor has not taken yet
    processor,  \* runs, or ended with the session
    stalls,     \* waits that ran out
    pressed,    \* observer: keys each caller's events hold down remotely
    landed      \* observer: batches of each caller that reached the socket

callerVars == <<stage, ahead, todo, rising, down, failed, completed>>
remoteVars == <<pressed, landed>>
inputVars == <<inputPlan, inputHolder, callerVars, queue, processor, stalls,
               remoteVars>>

Combination(c) == inputPlan[c].holds = <<>>
Parts(c) == IF Combination(c) THEN inputPlan[c].combos ELSE inputPlan[c].holds
Press(k) == <<<<"down", k>>>>
Release(k) == <<<<"up", k>>>>
Releases(keys) == [i \in 1..Len(keys) |-> Release(keys[Len(keys) + 1 - i])]

InputInit ==
    /\ inputPlan \in InputPlans
    /\ inputHolder = NoCaller
    /\ stage = [c \in Callers |-> "waits"]
    /\ ahead = [c \in Callers |-> Parts(c)]
    /\ todo = [c \in Callers |-> <<>>]
    /\ rising = [c \in Callers |-> TRUE]
    /\ down = [c \in Callers |-> <<>>]
    /\ failed = [c \in Callers |-> FALSE]
    /\ completed = [c \in Callers |-> 0]
    /\ queue = <<>> /\ processor = "runs" /\ stalls = 0
    /\ pressed = [c \in Callers |-> {}]
    /\ landed = [c \in Callers |-> 0]

-----------------------------------------------------------------------------
(* The next combination, or the next hold of the lock.                     *)
Loads(c) ==
    /\ ahead' = [ahead EXCEPT ![c] = Tail(@)]
    /\ todo' = [todo EXCEPT ![c] =
           IF Combination(c)
           THEN [i \in 1..Len(Head(ahead[c])) |-> Press(Head(ahead[c])[i])]
           ELSE Head(ahead[c])]
    /\ rising' = [rising EXCEPT ![c] = TRUE]
    /\ down' = [down EXCEPT ![c] = <<>>]

(* Mutant: a handler that does not wait for the lock.                      *)
TakesUnlocked(c) ==
    /\ stage[c] = "waits"
    /\ inputHolder' = c
    /\ stage' = [stage EXCEPT ![c] = "sends"]
    /\ Loads(c)
    /\ UNCHANGED <<inputPlan, failed, completed, queue, processor, stalls,
                   remoteVars>>

TakesLock(c) ==
    /\ stage[c] = "waits" /\ inputHolder = NoCaller
    /\ inputHolder' = c
    /\ stage' = [stage EXCEPT ![c] = "sends"]
    /\ Loads(c)
    /\ UNCHANGED <<inputPlan, failed, completed, queue, processor, stalls,
                   remoteVars>>

(* What a caller does with the answer to a batch.  A key-down that failed  *)
(* turns a combination round to release the keys that went down; a failed  *)
(* release does not stop the ones after it.                                *)
Answered(c) ==
    /\ todo' = [todo EXCEPT ![c] = Tail(@)]
    /\ down' = IF Combination(c) /\ rising[c]
               THEN [down EXCEPT ![c] = Append(@, Head(todo[c])[1][2])]
               ELSE down
    /\ stage' = [stage EXCEPT ![c] = "sends"]
    /\ UNCHANGED <<inputHolder, rising, failed>>

InputFails(c) ==
    /\ failed' = [failed EXCEPT ![c] = TRUE]
    /\ IF Combination(c)
       THEN /\ todo' = [todo EXCEPT ![c] =
                   IF rising[c] THEN Releases(down[c]) ELSE Tail(@)]
            /\ rising' = [rising EXCEPT ![c] = FALSE]
            /\ stage' = [stage EXCEPT ![c] = "sends"]
            /\ UNCHANGED inputHolder
       ELSE /\ stage' = [stage EXCEPT ![c] = "done"]
            /\ inputHolder' = NoCaller
            /\ UNCHANGED <<todo, rising>>
    /\ UNCHANGED down

(* Mutant: the command is queued and called sent.                          *)
SendsUnacknowledged(c) ==
    /\ stage[c] = "sends" /\ todo[c] # <<>>
    /\ IF processor = "runs" /\ Len(queue) < QueueMax
       THEN /\ queue' = Append(queue, [by |-> c, batch |-> Head(todo[c]),
                                       asks |-> FALSE])
            /\ Answered(c)
       ELSE InputFails(c) /\ UNCHANGED queue
    /\ UNCHANGED <<inputPlan, ahead, completed, processor, stalls, remoteVars>>

(* send_input_within: queue the batch, unless the processor is gone or the *)
(* channel stays full.                                                     *)
SendsBatch(c) ==
    /\ stage[c] = "sends" /\ todo[c] # <<>>
    /\ IF processor = "runs" /\ Len(queue) < QueueMax
       THEN /\ queue' = Append(queue, [by |-> c, batch |-> Head(todo[c]),
                                       asks |-> TRUE])
            /\ stage' = [stage EXCEPT ![c] = "asks"]
            /\ UNCHANGED <<inputHolder, todo, rising, down, failed>>
       ELSE InputFails(c) /\ UNCHANGED queue
    /\ UNCHANGED <<inputPlan, ahead, completed, processor, stalls, remoteVars>>

(* The keys are down: release them.  They are up: the combination is over, *)
(* and an error in it ends the sequence with the count of those before it. *)
Turns(c) ==
    /\ stage[c] = "sends" /\ todo[c] = <<>> /\ Combination(c)
    /\ IF rising[c]
       THEN /\ todo' = [todo EXCEPT ![c] = Releases(down[c])]
            /\ rising' = [rising EXCEPT ![c] = FALSE]
            /\ UNCHANGED <<inputHolder, stage, ahead, down, completed>>
       ELSE IF ~failed[c] /\ ahead[c] # <<>>
       THEN /\ completed' = [completed EXCEPT ![c] = @ + 1]
            /\ Loads(c)
            /\ UNCHANGED <<inputHolder, stage>>
       ELSE /\ completed' = [completed EXCEPT ![c] = IF failed[c] THEN @
                                                     ELSE @ + 1]
            /\ stage' = [stage EXCEPT ![c] = "done"]
            /\ inputHolder' = NoCaller
            /\ UNCHANGED <<ahead, todo, rising, down>>
    /\ UNCHANGED <<inputPlan, failed, queue, processor, stalls, remoteVars>>

(* Click and drag let go of the lock between their two halves, so that the *)
(* stream is not held up.                                                  *)
LetsGo(c) ==
    /\ stage[c] = "sends" /\ todo[c] = <<>> /\ ~Combination(c)
    /\ inputHolder' = NoCaller
    /\ stage' = [stage EXCEPT ![c] = IF ahead[c] = <<>> THEN "done" ELSE "waits"]
    /\ UNCHANGED <<inputPlan, ahead, todo, rising, down, failed, completed,
                   queue, processor, stalls, remoteVars>>

(* The answer does not come in time.  The command stays queued.            *)
RunsOut(c) ==
    /\ stage[c] = "asks" /\ stalls < MaxStalls
    /\ stalls' = stalls + 1
    /\ queue' = [i \in DOMAIN queue |->
                    IF queue[i].by = c THEN [queue[i] EXCEPT !.asks = FALSE]
                    ELSE queue[i]]
    /\ InputFails(c)
    /\ UNCHANGED <<inputPlan, ahead, completed, processor, remoteVars>>

-----------------------------------------------------------------------------
(* The keys held after a batch: those held before it or named in it that   *)
(* go down once more after each of their releases.                         *)
After(keys, batch) ==
    LET At(kind, k) == {i \in DOMAIN batch : batch[i] = <<kind, k>>}
    IN  {k \in keys \cup {batch[i][2] : i \in DOMAIN batch} :
            \A i \in At("up", k) : \E j \in At("down", k) : i < j}

(* The frame processor takes the oldest command.                           *)

Delivers ==
    /\ processor = "runs" /\ queue # <<>>
    /\ LET command == Head(queue)
       IN  /\ pressed' = [pressed EXCEPT ![command.by] =
                              After(@, command.batch)]
           /\ landed' = [landed EXCEPT ![command.by] = @ + 1]
           /\ IF command.asks THEN Answered(command.by)
              ELSE UNCHANGED <<inputHolder, stage, todo, rising, down, failed>>
    /\ queue' = Tail(queue)
    /\ UNCHANGED <<inputPlan, ahead, completed, processor, stalls>>

(* Text too long to encode in one message, or a clipboard the session does *)
(* not have (batches without keys here), is answered with an error and the *)
(* session goes on.                                                        *)
CannotEncode ==
    /\ processor = "runs" /\ queue # <<>> /\ Len(Head(queue).batch) = 0
    /\ IF Head(queue).asks THEN InputFails(Head(queue).by)
       ELSE UNCHANGED <<inputHolder, stage, todo, rising, down, failed>>
    /\ queue' = Tail(queue)
    /\ UNCHANGED <<inputPlan, ahead, completed, processor, stalls, remoteVars>>

(* A write that fails ends the session: its caller is told, and so is, by  *)
(* its dropped channel, the caller of any command behind it.               *)
Asker == {c \in Callers : stage[c] = "asks"}

ProcessorEnds ==
    /\ processor = "runs"
    /\ processor' = "ended"
    /\ queue' = <<>>
    /\ IF Asker = {} THEN UNCHANGED <<inputHolder, stage, todo, rising, down, failed>>
       ELSE \E c \in Asker : InputFails(c)
    /\ UNCHANGED <<inputPlan, ahead, completed, stalls, remoteVars>>

InputNext ==
    \/ \E c \in Callers :
          TakesLock(c) \/ SendsBatch(c) \/ Turns(c) \/ LetsGo(c) \/ RunsOut(c)
    \/ Delivers \/ CannotEncode \/ ProcessorEnds

InputSpec == InputInit /\ [][InputNext]_inputVars

-----------------------------------------------------------------------------
InputTypeOK ==
    /\ inputPlan \in InputPlans
    /\ inputHolder \in Callers \cup {NoCaller}
    /\ stage \in [Callers -> {"waits", "sends", "asks", "done"}]
    /\ inputHolder # NoCaller => stage[inputHolder] \in {"sends", "asks"}
    /\ {rising[c] : c \in Callers} \cup {failed[c] : c \in Callers}
           \subseteq BOOLEAN
    /\ Len(queue) <= QueueMax /\ stalls <= MaxStalls
    /\ processor \in {"runs", "ended"}
    /\ \A i \in DOMAIN queue : queue[i].asks => stage[queue[i].by] = "asks"

(* Between the first key of a combination going down and the last coming   *)
(* up, nobody else's input reaches the remote desktop, unless the          *)
(* combination itself met an error: nobody's keystroke turns into a chord, *)
(* not even when the processor works off a queue whose callers gave up.    *)
ComboUnbroken ==
    [][\A c, d \in Callers :
          landed'[c] # landed[c] /\ d # c /\ Combination(d) /\ ~failed[d]
              => pressed[d] = {}]_inputVars

(* How many batches the first n parts of an operation have: each key of a  *)
(* combination is pressed and released in a batch of its own.              *)
Size(c, i) == IF Combination(c) THEN 2 * Len(Parts(c)[i]) ELSE Len(Parts(c)[i])
Through(c, n) == UNION {{i} \X (1..Size(c, i)) : i \in 1..n}
Batches(c, n) == Cardinality(Through(c, n))

(* A caller told that its input was sent finds it sent: all of it, with    *)
(* every key up again.  A sequence that failed says how many of its        *)
(* combinations were sent, and those were.                                 *)
ToldIsLanded ==
    \A c \in Callers : stage[c] = "done" =>
        /\ ~failed[c] => landed[c] = Batches(c, Len(Parts(c)))
        /\ Combination(c) =>
              /\ ~failed[c] => pressed[c] = {}
              /\ landed[c] >= Batches(c, completed[c])

(* press_combination's comment (handlers/keyboard.rs:265) says a failure   *)
(* part-way through releases what it pressed: when a press has been        *)
(* reported and nothing of it is queued, none of its keys is held on a     *)
(* session that lives.                                                     *)
NothingHeldAfterPress ==
    \A c \in Callers :
        /\ Combination(c) /\ stage[c] = "done" /\ processor = "runs"
        /\ \A i \in DOMAIN queue : queue[i].by # c
        => pressed[c] = {}
=============================================================================
