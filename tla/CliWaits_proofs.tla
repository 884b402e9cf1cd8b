--------------------------- MODULE CliWaits_proofs ---------------------------
(***************************************************************************)
(* Proofs about what the CLI waits for: the polls of a follow (RunFollow), *)
(* for any amount of output, any number of mishaps and any number of       *)
(* follows; and the layers that wait for one command (TimeoutLadder), for  *)
(* any commands, with any times their callers chose.                       *)
(***************************************************************************)
EXTENDS RunFollow, TimeoutLadder, FiniteSetTheorems, TLAPS

-----------------------------------------------------------------------------
(* Sequences of chunks.                                                    *)

Increasing(s) == \A i, j \in DOMAIN s : i < j => s[i] < s[j]
Below(s, t)   == \A x \in Elements(s), y \in Elements(t) : x < y

LEMMA EmptyOutput == <<>> \in Seq(Nat) /\ Elements(<<>>) = {} /\ Increasing(<<>>)
BY DEF Elements, Increasing

(* What is appended to a sequence that it follows keeps it in order, and   *)
(* adds its own elements and no others.                                    *)
LEMMA Joined ==
  ASSUME NEW s \in Seq(Nat), NEW t \in Seq(Nat)
  PROVE  /\ s \o t \in Seq(Nat)
         /\ Elements(s \o t) = Elements(s) \cup Elements(t)
         /\ Increasing(s) /\ Increasing(t) /\ Below(s, t) => Increasing(s \o t)
<1> DEFINE u == s \o t
<1>1. /\ u \in Seq(Nat) /\ Len(u) = Len(s) + Len(t)
      /\ Len(s) \in Nat /\ Len(t) \in Nat
      /\ DOMAIN s = 1 .. Len(s) /\ DOMAIN t = 1 .. Len(t) /\ DOMAIN u = 1 .. Len(u)
  OBVIOUS
<1>2. \A i \in 1 .. Len(s) : i \in DOMAIN u /\ u[i] = s[i]
  BY <1>1
<1>3. \A i \in 1 .. Len(t) : i + Len(s) \in DOMAIN u /\ u[i + Len(s)] = t[i]
  BY <1>1
<1>4. \A i \in DOMAIN u : i \in 1 .. Len(s) \/ (i - Len(s) \in 1 .. Len(t) /\ u[i] = t[i - Len(s)])
  BY <1>1, <1>3
<1> HIDE DEF u
<1>5. Elements(u) = Elements(s) \cup Elements(t)
  <2>1. ASSUME NEW x \in Elements(u)
        PROVE  x \in Elements(s) \cup Elements(t)
    BY <1>1, <1>2, <1>4 DEF Elements
  <2>2. ASSUME NEW x \in Elements(s)
        PROVE  x \in Elements(u)
    <3> PICK i \in 1 .. Len(s) : x = s[i]
      BY <1>1 DEF Elements
    <3> QED
      BY <1>2 DEF Elements
  <2>3. ASSUME NEW x \in Elements(t)
        PROVE  x \in Elements(u)
    <3> PICK i \in 1 .. Len(t) : x = t[i]
      BY <1>1 DEF Elements
    <3> QED
      BY <1>3 DEF Elements
  <2> QED
    BY <2>1, <2>2, <2>3
<1>6. ASSUME Increasing(s), Increasing(t), Below(s, t), NEW i \in DOMAIN u, NEW j \in DOMAIN u, i < j
      PROVE  u[i] < u[j]
  <2>1. CASE i \in 1 .. Len(s) /\ j \in 1 .. Len(s)
    BY <1>1, <1>2, <1>6, <2>1 DEF Increasing
  <2>2. CASE i \in 1 .. Len(s) /\ j - Len(s) \in 1 .. Len(t) /\ u[j] = t[j - Len(s)]
    BY <1>1, <1>2, <1>6, <2>2 DEF Below, Elements
  <2>3. CASE i \notin 1 .. Len(s) /\ j \notin 1 .. Len(s)
    <3>1. /\ i - Len(s) \in DOMAIN t /\ u[i] = t[i - Len(s)]
          /\ j - Len(s) \in DOMAIN t /\ u[j] = t[j - Len(s)]
      BY <1>1, <1>4, <2>3
    <3>2. i - Len(s) < j - Len(s)
      BY <1>1, <1>6
    <3> QED
      BY <1>6, <3>1, <3>2 DEF Increasing
  <2> QED
    BY <1>1, <1>4, <1>6, <2>1, <2>2, <2>3
<1> QED
  BY <1>1, <1>5, <1>6 DEF u, Increasing

(* An answer's chunks are those after what was handed out, up to the end.  *)
ChunksFrom(from) ==
  [i \in 1 .. (IF from > produced THEN 0 ELSE produced - from + 1) |-> from + i - 1]

LEMMA AnswerChunks ==
  ASSUME produced \in Nat, NEW from \in Nat, from >= 1
  PROVE  /\ ChunksFrom(from) \in Seq(Nat) /\ Increasing(ChunksFrom(from))
         /\ Elements(ChunksFrom(from)) = from .. produced
<1> DEFINE n == IF from > produced THEN 0 ELSE produced - from + 1
           c == [i \in 1 .. n |-> from + i - 1]
<1>1. ChunksFrom(from) = c
  BY DEF ChunksFrom
<1>2. n \in Nat /\ c \in Seq(Nat) /\ DOMAIN c = 1 .. n /\ \A i \in 1 .. n : c[i] = from + i - 1
  OBVIOUS
<1>3. ASSUME NEW x \in from .. produced
      PROVE  x \in Elements(c)
  <2>1. x - from + 1 \in 1 .. n /\ x = from + (x - from + 1) - 1
    OBVIOUS
  <2> QED
    BY <1>2, <2>1 DEF Elements
<1>4. ASSUME NEW x \in Elements(c)
      PROVE  x \in from .. produced
  <2> PICK i \in 1 .. n : x = from + i - 1
    BY <1>2 DEF Elements
  <2> QED
    OBVIOUS
<1>5. Increasing(c)
  BY <1>2 DEF Increasing
<1> HIDE DEF c
<1>6. Elements(c) = from .. produced
  BY <1>3, <1>4
<1> QED
  BY <1>1, <1>2, <1>5, <1>6

-----------------------------------------------------------------------------
(* The inductive invariant.                                                *)

PollReplies == [ok : BOOLEAN, chunks : Seq(Nat), exited : BOOLEAN, unread : BOOLEAN]

FollowRanges ==
  /\ produced \in Nat /\ running \in BOOLEAN /\ request \in BOOLEAN /\ told \in BOOLEAN
  /\ stream \in [known : BOOLEAN, offset : Nat, exitSeen : BOOLEAN]
  /\ stream.offset <= produced
  /\ follow \in [pc : {"poll", "wait", "stopped"}, held : Seq(Nat)]
  /\ json \in BOOLEAN /\ delivered \in Seq(Nat)

(* One poll at a time: its request or one answer to it is on its way; and  *)
(* a failure brings nothing.                                               *)
OneAnswer ==
  /\ reply \subseteq PollReplies /\ \A r, q \in reply : r = q
  /\ request => reply = {}
  /\ \A r \in reply : ~r.ok => r = Failure

(* What is printed, what is held and what is on its way follow each other, *)
(* and were handed out.                                                    *)
OutputInOrder ==
  /\ Increasing(delivered) /\ Increasing(follow.held) /\ Below(delivered, follow.held)
  /\ Elements(delivered) \cup Elements(follow.held) \subseteq 1 .. stream.offset
  /\ \A r \in reply :
       /\ Increasing(r.chunks) /\ Elements(r.chunks) \subseteq 1 .. stream.offset
       /\ Below(delivered, r.chunks) /\ Below(follow.held, r.chunks)

(* Nothing is held but for a document, nor by a follow that has ended and  *)
(* has not said so; and a poll is only abandoned by one that says so.      *)
NothingKept ==
  /\ ~json => follow.held = <<>>
  /\ follow.pc = "stopped" => told \/ follow.held = <<>>
  /\ follow.pc # "wait" /\ (request \/ reply # {}) => told

Covered ==
  told \/ Failure \in reply \/ 1 .. stream.offset \subseteq
            Elements(delivered) \cup Elements(follow.held) \cup InTransit

(* An answer that speaks of the exit has the last of the output, unless it *)
(* says that it could not be read.                                         *)
ExitIsLast == \A r \in reply : r.exited => ~running /\ (r.unread \/ stream.offset = produced)

Ended ==
  ending = "exited" =>
    follow.pc = "stopped" /\ ~running /\ (~told => Elements(delivered) = 1 .. produced)

FollowInv == FollowRanges /\ OneAnswer /\ OutputInOrder /\ NothingKept /\ Covered /\ ExitIsLast /\ Ended

USE DEF cliVars, runVars

LEMMA InitFollowInv == FollowInit => FollowInv
<1> SUFFICES ASSUME FollowInit
             PROVE  FollowInv
  OBVIOUS
<1> USE EmptyOutput DEF FollowInit, NoHold
<1>1. OneAnswer /\ NothingKept /\ ExitIsLast /\ Ended
  BY DEF OneAnswer, NothingKept, ExitIsLast, Ended
<1>2. FollowRanges
  <2>1. produced \in Nat /\ delivered \in Seq(Nat)
    OBVIOUS
  <2>2. running \in BOOLEAN /\ request \in BOOLEAN /\ told \in BOOLEAN /\ json \in BOOLEAN
    OBVIOUS
  <2>3. stream \in [known : BOOLEAN, offset : Nat, exitSeen : BOOLEAN] /\ stream.offset <= produced
    OBVIOUS
  <2>4. follow \in [pc : {"poll", "wait", "stopped"}, held : Seq(Nat)]
    OBVIOUS
  <2> QED
    BY <2>1, <2>2, <2>3, <2>4 DEF FollowRanges
<1>3. OutputInOrder /\ Covered
  BY DEF OutputInOrder, Covered, Below
<1> QED
  BY <1>1, <1>3, <1>2 DEF FollowInv

(* The process, its entry's expiry and a poll that is sent leave what was  *)
(* handed out where it is.                                                 *)
LEMMA ProcessFollowInv ==
  ASSUME FollowInv, ProcessWrites \/ ProcessExits \/ StreamExpires \/ FollowPolls
  PROVE  FollowInv'
<1> USE DEF FollowInv
<1>1. FollowRanges'
  <2>1. CASE FollowPolls
    BY <2>1 DEF FollowRanges, FollowPolls
  <2>2. CASE ProcessWrites
    BY <2>2 DEF FollowRanges, ProcessWrites
  <2>3. CASE ProcessExits
    BY <2>3 DEF FollowRanges, ProcessExits
  <2>4. CASE StreamExpires
    BY <2>4 DEF FollowRanges, StreamExpires
  <2> QED
    BY <2>1, <2>2, <2>3, <2>4
<1>2. OneAnswer' /\ NothingKept'
  <2>1. CASE FollowPolls
    BY <2>1 DEF FollowRanges, OneAnswer, NothingKept, FollowPolls
  <2> QED
    BY <2>1 DEF OneAnswer, NothingKept, ProcessWrites, ProcessExits, StreamExpires
<1>3. /\ follow'.held = follow.held /\ stream'.offset = stream.offset
      /\ UNCHANGED <<delivered, told, reply>>
  BY DEF FollowRanges, ProcessWrites, ProcessExits, StreamExpires, FollowPolls
<1>4. OutputInOrder' /\ Covered'
  BY <1>3 DEF OutputInOrder, Covered, InTransit
<1>5. ExitIsLast' /\ Ended'
  BY <1>3 DEF FollowRanges, ExitIsLast, Ended, ProcessWrites, ProcessExits, StreamExpires, FollowPolls
<1> QED
  BY <1>1, <1>4, <1>5, <1>2

LEMMA FailureIsReply == Failure \in PollReplies /\ ~Failure.ok /\ ~Failure.exited /\ Failure.chunks = <<>>
BY EmptyOutput DEF Failure, PollReplies

(* A failure on its way in place of a poll or of its answer.               *)
LEMMA FailureFollowInv ==
  ASSUME FollowInv, reply' = {Failure}, request' = FALSE, request \/ reply # {},
         UNCHANGED <<runVars, cliVars>>
  PROVE  FollowInv'
<1> USE FailureIsReply, EmptyOutput DEF FollowInv
<1>1. FollowRanges' /\ OneAnswer'
  BY DEF FollowRanges, OneAnswer
<1>2. OutputInOrder' /\ NothingKept'
  BY DEF OutputInOrder, NothingKept, Below
<1>3. Covered' /\ ExitIsLast' /\ Ended'
  BY DEF Covered, ExitIsLast, Ended
<1> QED
  BY <1>1, <1>2, <1>3

(* The answer to a poll takes up where the last one stopped.               *)
LEMMA AnswerFollowInv ==
  ASSUME FollowInv, PollAnswered
  PROVE  FollowInv'
<1>1. CASE ~stream.known
  BY <1>1, FailureFollowInv DEF PollAnswered
<1>2. CASE stream.known
  <2> PICK unread \in BOOLEAN :
        /\ reply' = {Answer(TRUE, IF unread THEN produced + 1 ELSE stream.offset + 1, ~running, unread)}
        /\ stream' = [stream EXCEPT !.offset = IF unread THEN @ ELSE produced,
                                    !.exitSeen = @ \/ ~running]
    BY <1>2 DEF PollAnswered
  <2> DEFINE from == IF unread THEN produced + 1 ELSE stream.offset + 1
             a == Answer(TRUE, from, ~running, unread)
  <2>1. /\ request /\ request' = FALSE /\ reply = {} /\ reply' = {a}
        /\ UNCHANGED <<produced, running, follow, json, delivered, ending, told>>
    BY DEF PollAnswered, FollowInv, OneAnswer
  <2>2. /\ produced \in Nat /\ stream.offset \in Nat /\ stream.offset <= produced
        /\ from \in Nat /\ from >= 1
        /\ stream'.offset = IF unread THEN stream.offset ELSE produced
        /\ stream' \in [known : BOOLEAN, offset : Nat, exitSeen : BOOLEAN]
    <3>1. /\ produced \in Nat /\ stream.offset \in Nat /\ stream.offset <= produced
          /\ stream \in [known : BOOLEAN, offset : Nat, exitSeen : BOOLEAN] /\ running \in BOOLEAN
      BY DEF FollowInv, FollowRanges
    <3>2. from \in Nat /\ from >= 1
      BY <3>1
    <3>3. /\ stream'.offset = IF unread THEN stream.offset ELSE produced
          /\ stream' \in [known : BOOLEAN, offset : Nat, exitSeen : BOOLEAN]
      BY <3>1
    <3> QED
      BY <3>1, <3>2, <3>3
  <2>3. /\ a.chunks \in Seq(Nat) /\ Increasing(a.chunks) /\ Elements(a.chunks) = from .. produced
    <3>1. a.chunks = ChunksFrom(from)
      BY DEF Answer, ChunksFrom
    <3> HIDE DEF from, a
    <3> QED
      BY <2>2, <3>1, AnswerChunks
  <2>4. /\ a.ok = TRUE /\ a.exited = ~running /\ a.unread = unread /\ a \in PollReplies
    BY <2>3 DEF Answer, PollReplies, FollowInv, FollowRanges
  <2> HIDE DEF a
  <2>5. FollowRanges' /\ OneAnswer'
    <3>1. FollowRanges'
      <4>1. stream'.offset <= produced
        BY <2>2
      <4>2. request' \in BOOLEAN
        BY <2>1
      <4> QED
        BY <2>1, <2>2, <4>1, <4>2 DEF FollowInv, FollowRanges
    <3>2. OneAnswer'
      BY <2>1, <2>4 DEF OneAnswer
    <3> QED
      BY <3>1, <3>2
  <2>6. OutputInOrder'
    <3>1. Elements(a.chunks) \subseteq 1 .. stream'.offset
      BY <2>2, <2>3
    <3>2. \A x \in Elements(delivered) \cup Elements(follow.held), y \in Elements(a.chunks) : x < y
      BY <2>2, <2>3 DEF FollowInv, OutputInOrder
    <3>3. 1 .. stream.offset \subseteq 1 .. stream'.offset
      BY <2>2
    <3> QED
      BY <2>1, <2>3, <3>1, <3>2, <3>3 DEF FollowInv, OutputInOrder, Below
  <2>7. NothingKept'
    BY <2>1 DEF FollowInv, NothingKept
  <2>8. Covered'
    <3>1. 1 .. stream'.offset \subseteq (1 .. stream.offset) \cup Elements(a.chunks)
      BY <2>2, <2>3
    <3>2. told \/ 1 .. stream.offset \subseteq Elements(delivered) \cup Elements(follow.held)
      BY <2>1 DEF FollowInv, Covered, InTransit
    <3>3. InTransit' = Elements(a.chunks)
      BY <2>1 DEF InTransit
    <3> QED
      BY <2>1, <3>1, <3>2, <3>3 DEF Covered
  <2>9. ExitIsLast' /\ Ended'
    BY <2>1, <2>2, <2>4 DEF FollowInv, ExitIsLast, Ended
  <2> QED
    BY <2>5, <2>6, <2>7, <2>8, <2>9 DEF FollowInv
<1> QED
  BY <1>1, <1>2 DEF FollowInv, FollowRanges

(* A follow that gives up says so; what it was about to hear is dropped.   *)
LEMMA SaysSoFollowInv ==
  ASSUME FollowInv, told', reply' = {}, ending' # "exited", request' \in {request, FALSE},
         told' \in BOOLEAN, follow' \in [pc : {"poll", "wait", "stopped"}, held : Seq(Nat)],
         follow'.held = follow.held,
         UNCHANGED <<runVars, json, delivered>>
  PROVE  FollowInv'
<1> USE DEF FollowInv
<1>1. FollowRanges' /\ OneAnswer'
  BY DEF FollowRanges, OneAnswer
<1>2. OutputInOrder' /\ NothingKept' /\ Covered' /\ ExitIsLast' /\ Ended'
  BY DEF OutputInOrder, NothingKept, Covered, ExitIsLast, Ended
<1> QED
  BY <1>1, <1>2

(* An answer is printed or held.                                           *)
LEMMA CollectedFollowInv ==
  ASSUME FollowInv, FollowEnds \/ FollowGoesOn
  PROVE  FollowInv'
<1> USE DEF FollowInv
<1>1. PICK r \in reply :
        /\ r.ok
        /\ \/ /\ delivered' = delivered \o Collects(r).print \o Collects(r).held
              /\ follow' = [pc |-> "stopped", held |-> <<>>]
              /\ ending' = "exited" => r.exited /\ ~r.unread
           \/ /\ delivered' = delivered \o Collects(r).print
              /\ follow' = [pc |-> "poll", held |-> Collects(r).held]
              /\ ending' = ending
        /\ told' = (told \/ r.unread)
  BY DEF FollowEnds, FollowGoesOn
<1>2. /\ reply' = {} /\ reply # {} /\ ~request /\ follow.pc = "wait"
      /\ UNCHANGED <<runVars, request, json>>
  BY <1>1 DEF FollowEnds, FollowGoesOn, OneAnswer, FollowRanges
<1> DEFINE all == Elements(delivered) \cup Elements(follow.held) \cup Elements(r.chunks)
           h == follow.held
           d == delivered
           c == r.chunks
           Stops == follow' = [pc |-> "stopped", held |-> <<>>]
           GoesOn == follow' = [pc |-> "poll", held |-> Collects(r).held]
<1>3. /\ d \in Seq(Nat) /\ h \in Seq(Nat) /\ c \in Seq(Nat) /\ r.unread \in BOOLEAN
      /\ reply = {r} /\ Failure \notin reply /\ InTransit = Elements(c)
  BY <1>1, FailureIsReply DEF FollowRanges, OneAnswer, PollReplies, InTransit
<1>4. /\ Increasing(d) /\ Increasing(h) /\ Increasing(c)
      /\ Below(d, h) /\ Below(d, c) /\ Below(h, c) /\ all \subseteq 1 .. stream.offset
  BY DEF OutputInOrder
<1>5. /\ h \o c \in Seq(Nat) /\ Elements(h \o c) = Elements(h) \cup Elements(c)
      /\ Increasing(h \o c) /\ Below(d, h \o c)
  BY <1>3, <1>4, Joined DEF Below
<1>6. /\ d \o c \in Seq(Nat) /\ Elements(d \o c) = Elements(d) \cup Elements(c)
      /\ Increasing(d \o c)
  BY <1>3, <1>4, Joined
<1>7. /\ d \o (h \o c) \in Seq(Nat) /\ Elements(d \o (h \o c)) = all
      /\ Increasing(d \o (h \o c))
  <2> DEFINE hc == h \o c
  <2> HIDE DEF hc
  <2>1. hc \in Seq(Nat) /\ Increasing(hc) /\ Below(d, hc) /\ Elements(hc) = Elements(h) \cup Elements(c)
    BY <1>5 DEF hc
  <2>2. /\ d \o hc \in Seq(Nat) /\ Elements(d \o hc) = Elements(d) \cup Elements(hc)
        /\ Increasing(d \o hc)
    BY <1>3, <1>4, <2>1, Joined
  <2> QED
    BY <2>1, <2>2 DEF hc
<1>8. \/ Stops /\ delivered' = d \o Collects(r).print \o Collects(r).held
      \/ GoesOn /\ delivered' = d \o Collects(r).print
  BY <1>1
<1>9. /\ Stops => follow'.pc = "stopped" /\ follow'.held = <<>>
      /\ GoesOn => follow'.pc = "poll" /\ follow'.held = Collects(r).held
  OBVIOUS
<1>10. follow' = [pc |-> follow'.pc, held |-> follow'.held] /\ follow'.pc \in {"poll", "stopped"}
  <2>1. Stops \/ GoesOn
    BY <1>8
  <2> QED
    BY <2>1
<1> HIDE DEF Stops, GoesOn
<1>11. /\ d \o <<>> = d /\ d \o c \o <<>> = d \o c /\ d \o <<>> \o (h \o c) = d \o (h \o c)
  BY <1>3, <1>5, <1>6
<1>12. /\ delivered' \in Seq(Nat) /\ follow'.held \in Seq(Nat)
       /\ Increasing(delivered') /\ Increasing(follow'.held) /\ Below(delivered', follow'.held)
       /\ Elements(delivered') \cup Elements(follow'.held) = all
       /\ ~json => follow'.held = <<>>
       /\ follow'.pc = "stopped" => Elements(delivered') = all /\ follow'.held = <<>>
  <2>1. CASE json
    <3>1. Collects(r).print = <<>> /\ Collects(r).held = h \o c
      BY <2>1 DEF Collects
    <3>2. CASE delivered' = d \o (h \o c) /\ follow'.held = <<>>
      <4>1. Elements(follow'.held) = {} /\ Increasing(follow'.held) /\ follow'.held \in Seq(Nat)
        BY <3>2, EmptyOutput
      <4>2. Below(delivered', follow'.held)
        BY <4>1 DEF Below
      <4> QED
        BY <1>7, <2>1, <3>2, <4>1, <4>2
    <3>3. CASE delivered' = d /\ follow'.held = h \o c /\ follow'.pc = "poll"
      BY <1>3, <1>4, <1>5, <2>1, <3>3 DEF Below
    <3> QED
      BY <1>11, <1>8, <1>9, <3>1, <3>2, <3>3
  <2>2. CASE ~json
    <3>1. Collects(r).print = c /\ Collects(r).held = <<>> /\ h = <<>>
      BY <2>2 DEF Collects, NothingKept
    <3>2. delivered' = d \o c /\ follow'.held = <<>>
      BY <1>11, <1>8, <1>9, <3>1
    <3>3. Elements(follow'.held) = {} /\ Increasing(follow'.held) /\ follow'.held \in Seq(Nat)
      BY <3>2, EmptyOutput
    <3>4. Below(delivered', follow'.held)
      BY <3>3 DEF Below
    <3>5. Elements(d) \cup Elements(c) = all
      BY <3>1, EmptyOutput
    <3> QED
      BY <1>6, <3>2, <3>3, <3>4, <3>5
  <2> QED
    BY <2>1, <2>2
<1>13. FollowRanges' /\ OneAnswer'
  <2>1. follow' \in [pc : {"poll", "wait", "stopped"}, held : Seq(Nat)]
    BY <1>12, <1>10
  <2>2. told' \in BOOLEAN
    BY <1>1, <1>3 DEF FollowRanges
  <2>3. FollowRanges'
    BY <1>2, <1>12, <2>1, <2>2 DEF FollowRanges
  <2> QED
    BY <1>2, <2>3 DEF OneAnswer
<1>14. OutputInOrder' /\ NothingKept'
  <2>1. OutputInOrder'
    BY <1>2, <1>4, <1>12 DEF OutputInOrder
  <2> QED
    BY <1>2, <1>12, <2>1 DEF NothingKept
<1>15. Covered'
  BY <1>1, <1>2, <1>3, <1>12 DEF Covered
<1>16. ExitIsLast' /\ Ended'
  <2>1. ending' = "exited" => Stops /\ follow'.pc = "stopped" /\ r.exited /\ ~r.unread
    BY <1>1, <1>2, <1>9 DEF Ended, Stops
  <2>2. r.exited /\ ~r.unread => ~running /\ stream.offset = produced
    BY <1>1 DEF ExitIsLast
  <2>3. ~told => 1 .. stream.offset \subseteq all
    BY <1>3 DEF Covered
  <2>4. ending' = "exited" /\ ~told' => Elements(delivered') = 1 .. produced
    BY <1>1, <1>4, <1>12, <2>1, <2>2, <2>3
  <2> QED
    BY <1>2, <2>1, <2>2, <2>4 DEF ExitIsLast, Ended
<1> QED
  BY <1>13, <1>14, <1>15, <1>16

(* A poll's answer that nobody hears, and a new follow.                    *)
LEMMA UnheardFollowInv ==
  ASSUME FollowInv, ReplyUnheard
  PROVE  FollowInv'
<1> USE DEF FollowInv
<1>1. told /\ reply' = {} /\ UNCHANGED <<runVars, request, cliVars>>
  BY DEF ReplyUnheard, NothingKept
<1> QED
  BY <1>1 DEF FollowRanges, OneAnswer, OutputInOrder, NothingKept, Covered, ExitIsLast, Ended

LEMMA AgainFollowInv ==
  ASSUME FollowInv, FollowAgain
  PROVE  FollowInv'
<1> USE EmptyOutput DEF FollowInv
<1>1. /\ follow.pc = "stopped" /\ follow' = NoHold /\ ending' = "none"
      /\ UNCHANGED <<runVars, request, reply, json, delivered, told>>
  BY DEF FollowAgain
<1>2. NoHold.pc = "poll" /\ NoHold.held = <<>> /\ NoHold \in [pc : {"poll", "wait", "stopped"}, held : Seq(Nat)]
  BY DEF NoHold
<1>3. FollowRanges' /\ OneAnswer' /\ NothingKept' /\ ExitIsLast' /\ Ended'
  BY <1>1, <1>2 DEF FollowRanges, OneAnswer, NothingKept, ExitIsLast, Ended
<1>4. OutputInOrder'
  BY <1>1, <1>2 DEF OutputInOrder, Below
<1>5. Covered'
  BY <1>1, <1>2 DEF Covered, NothingKept, InTransit
<1> QED
  BY <1>3, <1>4, <1>5

LEMMA StepFollowInv == FollowInv /\ [FollowNext]_followVars => FollowInv'
<1> SUFFICES ASSUME FollowInv, [FollowNext]_followVars
             PROVE  FollowInv'
  OBVIOUS
<1>1. CASE PollLost
  BY <1>1, FailureFollowInv DEF PollLost
<1>2. CASE ReplyUnrecovered
  <2>1. reply # {} /\ request = FALSE
    BY <1>2 DEF ReplyUnrecovered, FollowInv, OneAnswer, FollowRanges
  <2> QED
    BY <1>2, <2>1, FailureFollowInv DEF ReplyUnrecovered
<1>3. CASE FollowFails
  BY <1>3, SaysSoFollowInv DEF FollowFails, FollowGivesUp, FollowInv, FollowRanges
<1>4. CASE SocketDrops
  BY <1>4, SaysSoFollowInv DEF SocketDrops, AfterDrop, FollowGivesUp, FollowInv, FollowRanges
<1>5. CASE UNCHANGED followVars
  BY <1>5 DEF followVars, FollowInv, FollowRanges, OneAnswer, OutputInOrder, NothingKept, Covered, InTransit,
              ExitIsLast, Ended
<1> QED
  BY <1>1, <1>2, <1>3, <1>4, <1>5, ProcessFollowInv, AnswerFollowInv, CollectedFollowInv, UnheardFollowInv, AgainFollowInv
     DEF FollowNext

-----------------------------------------------------------------------------
(* Every chunk the agent has handed out is printed, held or on its way, or *)
(* its caller was told that output may be lost; what is printed is in      *)
(* order and printed once; and a follow that reports the exit has printed  *)
(* all there was (follow_poll in cli/commands/automate.rs, Invoke-RunPoll  *)
(* of actions.ps1).                                                        *)
THEOREM OutputIsAccounted == FollowSpec => []OutputAccounted
<1>1. FollowInv => OutputAccounted
  BY DEF FollowInv, Covered, OutputInOrder, Increasing, Ended, OutputAccounted
<1> QED
  BY InitFollowInv, StepFollowInv, <1>1, PTL DEF FollowSpec

-----------------------------------------------------------------------------
(* Type correctness: one answer at most is on its way, and none while the  *)
(* poll is with the agent.                                                 *)
FollowRest ==
  /\ produced \in 0 .. MaxOutput
  /\ ending \in {"none", "failed", "exited", "running", "unread", "dropped"}

LEMMA StepFollowRest ==
  ASSUME FollowRest, [FollowNext]_followVars
  PROVE  FollowRest'
<1>1. CASE ProcessWrites
  BY <1>1, FollowAssumption DEF FollowAssumption, ProcessWrites, FollowRest
<1>2. ASSUME produced' = produced,
             ending' \in {ending, "none", "failed", "exited", "running", "unread", "dropped"}
      PROVE  FollowRest'
  BY <1>2 DEF FollowRest
<1>3. CASE UNCHANGED followVars
  BY <1>2, <1>3 DEF followVars
<1>4. CASE PollAnswered
  <2>1. produced' = produced /\ ending' = ending
    BY <1>4, Zenon DEF PollAnswered, runVars, cliVars
  <2> QED
    BY <1>2, <2>1
<1>8. CASE ProcessExits \/ StreamExpires \/ PollLost \/ ReplyUnrecovered \/ FollowPolls
           \/ ReplyUnheard
  BY <1>2, <1>8 DEF ProcessExits, StreamExpires, PollLost, ReplyUnrecovered, FollowPolls,
                    ReplyUnheard
<1>5. CASE FollowFails \/ SocketDrops
  BY <1>2, <1>5 DEF FollowFails, SocketDrops, AfterDrop, FollowGivesUp
<1>6. CASE FollowEnds
  <2>1. produced' = produced
    BY <1>6 DEF FollowEnds
  <2>2. ending' \in {"exited", "running", "unread"}
    BY <1>6 DEF FollowEnds
  <2> QED
    BY <1>2, <2>1, <2>2
<1>7. CASE FollowGoesOn \/ FollowAgain
  BY <1>2, <1>7 DEF FollowGoesOn, FollowAgain
<1> QED
  BY <1>1, <1>3, <1>4, <1>5, <1>6, <1>7, <1>8 DEF FollowNext

THEOREM FollowTypeCorrect == FollowSpec => []FollowTypeOK
<1>1. FollowInit => FollowRest
  BY FollowAssumption DEF FollowAssumption, FollowInit, FollowRest
<1>2. ASSUME FollowInv PROVE Cardinality(reply) <= 1
  <2>1. CASE reply = {}
    BY <2>1, FS_EmptySet
  <2>2. CASE reply # {}
    <3>1. PICK r \in reply : reply = {r}
      BY <1>2, <2>2 DEF FollowInv, OneAnswer
    <3> QED
      BY <3>1, FS_Singleton
  <2> QED
    BY <2>1, <2>2
<1>3. ASSUME FollowInv, FollowRest PROVE FollowTypeOK
  <2>1. stream.offset \in 0 .. MaxOutput
    BY <1>3, FollowAssumption DEF FollowAssumption, FollowInv, FollowRanges, FollowRest
  <2>2. stream \in [known : BOOLEAN, offset : 0 .. MaxOutput, exitSeen : BOOLEAN]
    BY <1>3, <2>1 DEF FollowInv, FollowRanges
  <2> QED
    BY <1>2, <1>3, <2>2 DEF FollowInv, FollowRanges, OneAnswer, FollowRest, FollowTypeOK
<1> QED
  BY <1>1, <1>3, InitFollowInv, StepFollowInv, StepFollowRest, PTL DEF FollowSpec

-----------------------------------------------------------------------------
(* TimeoutLadder: the inductive invariant.  What has passed since the      *)
(* request was sent, in each rung, is at most what the rungs before it may *)
(* take.                                                                   *)

(* The lookups and pauses before the r-th lookup; the attempts before the  *)
(* r-th attempt.                                                           *)
LookupsBefore(r) ==
  CASE r = 1 -> 0
    [] r = 2 -> QueryResultTimeout + QueryResultBackoff
    [] r = 3 -> 2 * QueryResultTimeout + 3 * QueryResultBackoff

AttemptsBefore(r) ==
  CASE r = 1 -> 0
    [] r = 2 -> AttemptWorst(1)
    [] r = 3 -> AttemptWorst(1) + AttemptWorst(2)

LadderWorst == AttemptWorst(1) + AttemptWorst(2) + AttemptWorst(3)

Presses(n) ==
  n * (PressHold + PressSeqInterval) + 4 * PressKeyGap * PartsThrough(command, n)

Within(d) == clock <= sentAt + d

RungsBelong ==
  /\ rung \in {"send", "pause", "reply", "lookup", "backoff", "evict", "handshake", "survivor",
               "launch", "probe", "step", "abort", "press", "over"}
  /\ rung = "reply" => Automates(command)
  /\ rung \in {"lookup", "backoff"} => Automates(command) /\ ~SkipsLadder(command)
  /\ rung = "pause" => command.kind = "follow"
  /\ rung \in {"evict", "probe"} => command.kind = "restart"
  /\ rung \in {"handshake", "survivor"} => command.kind = "connect"
  /\ rung = "launch" => command.kind \in {"restart", "connect"}
  /\ rung \in {"step", "abort"} => command.kind = "transfer"
  /\ rung = "press" => command.kind = "keys"

RoundsCount ==
  /\ rung \in {"lookup", "launch"} => round \in 1 .. 3
  /\ rung = "backoff" => round \in 1 .. 2
  /\ rung = "step" => round \in 1 .. MaxSteps
  /\ rung = "press" => round \in 1 .. Len(command.parts)

TimesAddUp ==
  /\ rung \in {"reply", "evict", "handshake"} => Within(0)
  /\ rung = "lookup" => Within(DvcDeadline(command) + LookupsBefore(round))
  /\ rung = "backoff" =>
       Within(DvcDeadline(command) + LookupsBefore(round) + QueryResultTimeout)
  /\ rung = "survivor" => Within(RdpTime)
  /\ rung = "launch" =>
       Within(AttemptsBefore(round)
                + IF command.kind = "restart" THEN StopsStale
                  ELSE RdpTime + SurvivorWait + StopsStale)
  /\ rung = "probe" => Within(StopsStale + LadderWorst)
  /\ rung \in {"step", "abort"} => Within(TransferBudget)
  /\ rung = "press" => Within(Presses(round - 1))

(* A command other than a follow sends one request.  A follow's polls are  *)
(* sent while its budget, counted from the first answer, is not spent.     *)
SendsInTime ==
  /\ command.kind = "follow" => polling <= DefaultDvcTimeout + ResolutionWorst
  /\ rung = "pause" => polling # 0 /\ clock < polling + command.own
  /\ command.kind # "follow" => sentAt = 0 /\ (rung = "send" => clock = 0)
  /\ command.kind = "follow" =>
       IF polling = 0 THEN sentAt = 0 /\ (rung = "send" => clock = 0)
       ELSE /\ sentAt <= polling + command.own + 500
            /\ rung = "send" => clock <= polling + command.own + 500

(* Neither needs the budgets to be long enough for what they wait for.     *)
LadderRanges ==
  /\ LadderTypeOK /\ RungsBelong /\ RoundsCount
  /\ clock <= Deadline

LadderInv == LadderRanges /\ TimesAddUp /\ SendsInTime /\ DaemonGivesUpFirst

LEMMA LargerOfTwo ==
  ASSUME NEW a \in Nat, NEW b \in Nat
  PROVE  /\ Max({a, b}) \in Nat /\ Max({a, b}) >= a /\ Max({a, b}) >= b
         /\ a >= b => Max({a, b}) = a
<1>1. PICK x \in {a, b} : \A y \in {a, b} : x >= y
  OBVIOUS
<1>2. Max({a, b}) \in {a, b} /\ \A y \in {a, b} : Max({a, b}) >= y
  BY <1>1 DEF Max
<1> QED BY <1>2

LEMMA SmallerOfTwo ==
  ASSUME NEW a \in Nat, NEW b \in Nat
  PROVE  /\ Min({a, b}) \in Nat /\ Min({a, b}) <= a /\ Min({a, b}) <= b
         /\ Min({a, b}) = a \/ Min({a, b}) = b
<1>1. PICK x \in {a, b} : \A y \in {a, b} : x <= y
  OBVIOUS
<1>2. Min({a, b}) \in {a, b} /\ \A y \in {a, b} : Min({a, b}) <= y
  BY <1>1 DEF Min
<1> QED BY <1>2

(* How many rounds a rung may have.                                        *)
MostRounds(c) == Max({MaxSteps, LadderAttempts, QueryResultAttempts, Len(c.parts)})

LEMMA RoundsFit ==
  ASSUME NEW c \in TimedCommands
  PROVE  /\ MostRounds(c) \in Nat
         /\ MostRounds(c) >= 3 /\ MostRounds(c) >= MaxSteps /\ MostRounds(c) >= Len(c.parts)
<1>1. MaxSteps \in Nat /\ Len(c.parts) \in Nat
  BY LadderAssumption
<1> DEFINE S == {MaxSteps, 3, Len(c.parts)}
<1>2. PICK x \in S : \A y \in S : x >= y
  BY <1>1
<1>3. Max(S) \in S /\ \A y \in S : Max(S) >= y
  BY <1>2 DEF Max
<1>4. {MaxSteps, LadderAttempts, QueryResultAttempts, Len(c.parts)} = S
  BY DEF LadderAttempts, QueryResultAttempts
<1>5. MostRounds(c) = Max(S)
  BY <1>4, Zenon DEF MostRounds
<1>6. MaxSteps \in S /\ 3 \in S /\ Len(c.parts) \in S /\ \A y \in S : y \in Nat
  BY <1>1
<1> HIDE DEF S
<1> QED BY <1>3, <1>5, <1>6

(* The counts of a key sequence, and its time.                             *)
LEMMA PartsFacts ==
  ASSUME NEW c \in TimedCommands
  PROVE  /\ Len(c.parts) \in Nat /\ (c.kind = "keys" => Len(c.parts) >= 1)
         /\ \A n \in 0 .. Len(c.parts) :
              /\ PartsThrough(c, n) \in Nat /\ PartsThrough(c, n) <= PartsThrough(c, Len(c.parts))
              /\ n # 0 => PartsThrough(c, n) = c.parts[n] /\ PartsThrough(c, n - 1) < c.parts[n]
         /\ PressSeqHold(c) \in Nat
         /\ c.kind = "keys" =>
              PressSeqHold(c) = Len(c.parts) * 50 + 40 * PartsThrough(c, Len(c.parts))
                                  + (Len(c.parts) - 1) * 40
<1> DEFINE l == Len(c.parts)
<1>1. /\ c.parts \in Seq(Nat) /\ l \in Nat /\ (c.kind = "keys") = (c.parts # <<>>)
      /\ \A m, n \in 0 .. l : m < n => PartsThrough(c, m) < PartsThrough(c, n)
  BY LadderAssumption
<1>2. c.parts # <<>> => l >= 1
  BY <1>1
<1>3. \A n \in 0 .. l : PartsThrough(c, n) \in Nat
  BY <1>1 DEF PartsThrough
<1>4. \A n \in 0 .. l : n # 0 => PartsThrough(c, n) = c.parts[n] /\ n - 1 \in 0 .. l /\ n - 1 < n
  BY <1>1 DEF PartsThrough
<1> HIDE DEF l
<1>5. \A n \in 0 .. l : PartsThrough(c, n) <= PartsThrough(c, l)
  <2> TAKE n \in 0 .. l
  <2>1. l \in 0 .. l /\ (n = l \/ n < l)
    BY <1>1
  <2> QED BY <1>1, <1>3, <2>1
<1>6. c.parts # <<>> => PressSeqHold(c) = l * 50 + 40 * PartsThrough(c, l) + (l - 1) * 40
  BY <1>1 DEF l, PressSeqHold, PressHold, PressKeyGap, PressSeqInterval
<1>7. PressSeqHold(c) \in Nat
  <2>1. CASE c.parts = <<>>
    BY <2>1 DEF PressSeqHold
  <2>2. CASE c.parts # <<>>
    <3>1. PartsThrough(c, l) \in Nat
      BY <1>1, <1>3
    <3> QED BY <1>1, <1>2, <1>6, <2>2, <3>1
  <2> QED BY <2>1, <2>2
<1> QED BY <1>1, <1>2, <1>3, <1>4, <1>5, <1>6, <1>7 DEF l

LEMMA KindFacts ==
  ASSUME NEW c \in TimedCommands
  PROVE  /\ c.kind \in Kinds /\ c.base \in Nat /\ c.own \in Nat
         /\ DvcDeadline(c) \in Nat /\ ResolutionWorst = 36000
         /\ c.kind = "status" => DvcDeadline(c) = 5000
         /\ c.kind = "query_result" => DvcDeadline(c) = 10000
         /\ c.kind \in {"act", "follow"} => DvcDeadline(c) = 10000
         /\ c.kind = "run_detached" => DvcDeadline(c) = 90000
         /\ c.kind = "run_wait" => DvcDeadline(c) = c.own + 30000
         /\ c.kind = "wait_for" => DvcDeadline(c) = c.own + 10000
<1>1. c.kind \in Kinds /\ c.base \in Nat /\ c.own \in Nat
  BY LadderAssumption
<1>2. Max({SpawnTimeout, DefaultDvcTimeout}) = 90000
  BY LargerOfTwo DEF SpawnTimeout, DefaultDvcTimeout
<1> QED BY <1>1, <1>2 DEF Kinds, DvcDeadline, RequestTimeout, Carries, KillBudget, StatusProbeTimeout,
           DefaultDvcTimeout, KillVerifyBudget, ResolutionWorst, QueryResultTimeout,
           QueryResultAttempts, QueryResultBackoff

LEMMA ConnectWaits ==
  ASSUME NEW c \in TimedCommands
  PROVE  ConnectWait(c) \in Nat
BY KindFacts DEF ConnectWait, ConnectDefault

(* What the CLI and its watchdog allow.                                    *)
LEMMA IpcFacts ==
  ASSUME NEW c \in TimedCommands
  PROVE  /\ IpcTimeout(c) \in Nat
         /\ SkipsLadder(c) => IpcTimeout(c) = c.base
         /\ Automates(c) /\ ~SkipsLadder(c) => IpcTimeout(c) >= DvcDeadline(c) + 36000
         /\ c.kind = "restart" => IpcTimeout(c) >= 360000
         /\ c.kind = "connect" => IpcTimeout(c) = ConnectWait(c)
         /\ c.kind = "transfer" => IpcTimeout(c) >= 570000
         /\ c.kind = "keys" => IpcTimeout(c) = c.base + PressSeqHold(c)
<1> DEFINE r == Max({c.base, RestartMin})
           d == Max({c.base, DvcDeadline(c)})
<1>1. /\ r \in Nat /\ r >= 360000
      /\ d \in Nat /\ d >= DvcDeadline(c)
  BY KindFacts, LargerOfTwo DEF RestartMin
<1>2. SkipsLadder(c) => IpcTimeout(c) = c.base
  BY DEF IpcTimeout, SkipsLadder
<1>3. c.kind = "restart" => ~SkipsLadder(c) /\ IpcTimeout(c) = r
  BY DEF IpcTimeout, SkipsLadder
<1>4. c.kind = "connect" => ~SkipsLadder(c) /\ IpcTimeout(c) = ConnectWait(c)
  BY DEF IpcTimeout, SkipsLadder
<1>5. c.kind = "transfer" => IpcTimeout(c) = c.base + TransferBudget + CliTransferSlack
  BY DEF IpcTimeout, SkipsLadder
<1>6. c.kind = "keys" => IpcTimeout(c) = c.base + PressSeqHold(c)
  BY DEF IpcTimeout, SkipsLadder
<1>7. Automates(c) /\ ~SkipsLadder(c) => IpcTimeout(c) = d + ResolutionWorst + DaemonSlack
  BY DEF IpcTimeout, SkipsLadder, Automates, Carries
<1>8. \/ SkipsLadder(c)
      \/ Automates(c) /\ ~SkipsLadder(c)
      \/ c.kind \in {"restart", "connect", "transfer", "keys"}
  BY KindFacts DEF Kinds, SkipsLadder, Automates, Carries
<1>9. c.base \in Nat /\ DvcDeadline(c) \in Nat /\ PressSeqHold(c) \in Nat
  BY KindFacts, PartsFacts
<1> HIDE DEF r, d
<1>11. Automates(c) /\ ~SkipsLadder(c) =>
         IpcTimeout(c) \in Nat /\ IpcTimeout(c) >= DvcDeadline(c) + 36000
  BY <1>1, <1>7, <1>9 DEF DaemonSlack, ResolutionWorst, QueryResultTimeout, QueryResultAttempts,
     QueryResultBackoff
<1>12. c.kind = "transfer" => IpcTimeout(c) \in Nat /\ IpcTimeout(c) >= 570000
  BY <1>5, <1>9 DEF TransferBudget, CliTransferSlack
<1>13. c.kind = "keys" => IpcTimeout(c) \in Nat
  BY <1>6, <1>9
<1>14. c.kind = "restart" => IpcTimeout(c) \in Nat /\ IpcTimeout(c) >= 360000
  BY <1>1, <1>3
<1>15. c.kind = "connect" => IpcTimeout(c) \in Nat
  BY <1>4, ConnectWaits
<1> QED
  BY <1>2, <1>4, <1>15, <1>6, <1>8, <1>9, <1>11, <1>12, <1>13, <1>14

LEMMA WatchdogFacts ==
  ASSUME NEW c \in TimedCommands
  PROVE  /\ WatchdogBudget(c) \in Nat
         /\ SkipsLadder(c) => WatchdogBudget(c) >= c.base
         /\ Automates(c) /\ ~SkipsLadder(c) => WatchdogBudget(c) >= DvcDeadline(c) + 36000
         /\ c.kind = "follow" => WatchdogBudget(c) >= c.own + 96000
         /\ c.kind = "restart" => WatchdogBudget(c) >= 360000
         /\ c.kind = "connect" => WatchdogBudget(c) >= ConnectWait(c)
         /\ c.kind = "transfer" => WatchdogBudget(c) >= 570000
         /\ c.kind = "keys" => WatchdogBudget(c) >= c.base + PressSeqHold(c)
<1>1. SkipsLadder(c) \/ c.kind = "act" => Extension(c) = 0
  BY DEF Extension, SkipsLadder, Carries
<1>2. c.kind \in {"run_wait", "wait_for", "follow"} => Extension(c) = c.own
  BY DEF Extension, Carries
<1>3. c.kind = "run_detached" => Extension(c) = 90000
  BY DEF Extension, Carries, SpawnTimeout
<1>4. /\ c.kind = "restart" => Extension(c) = 360000
      /\ c.kind = "connect" => Extension(c) = ConnectWait(c)
  BY DEF Extension, Carries, RestartMin
<1>5. c.kind = "transfer" => Extension(c) = TransferBudget + CliTransferSlack
  BY DEF Extension, Carries
<1>6. c.kind = "keys" => Extension(c) = PressSeqHold(c)
  BY DEF Extension, Carries
<1>7. /\ LadderShare(c) \in {0, 36000}
      /\ Automates(c) /\ ~SkipsLadder(c) => LadderShare(c) = 36000
  BY KindFacts DEF LadderShare
<1>8. c.kind \in {"act", "run_wait", "wait_for", "follow", "run_detached"}
        <=> Automates(c) /\ ~SkipsLadder(c)
  BY KindFacts DEF Kinds, SkipsLadder, Automates, Carries
<1>9. c.kind \in {"status", "query_result"} <=> SkipsLadder(c)
  BY DEF SkipsLadder
<1>10. WatchdogBudget(c) = c.base + LadderShare(c) + Extension(c) + 60000
  BY DEF WatchdogBudget, WatchdogGrace
<1>11. /\ c.base \in Nat /\ c.own \in Nat /\ PressSeqHold(c) \in Nat
       /\ c.kind \in Kinds /\ TransferBudget + CliTransferSlack = 570000
  BY KindFacts, PartsFacts DEF TransferBudget, CliTransferSlack
<1>12. Extension(c) \in Nat
  BY <1>1, <1>2, <1>3, <1>4, <1>5, <1>6, <1>9, <1>11, ConnectWaits DEF Kinds
<1>13. WatchdogBudget(c) \in Nat
  BY <1>7, <1>10, <1>11, <1>12
<1>14. SkipsLadder(c) => WatchdogBudget(c) >= c.base
  BY <1>1, <1>7, <1>10, <1>11
<1>15. Automates(c) /\ ~SkipsLadder(c) => WatchdogBudget(c) >= DvcDeadline(c) + 36000
  BY <1>1, <1>2, <1>3, <1>7, <1>8, <1>10, <1>11, KindFacts
<1>16. c.kind = "follow" => WatchdogBudget(c) >= c.own + 96000
  BY <1>2, <1>7, <1>8, <1>10, <1>11
<1>17. /\ c.kind = "restart" => WatchdogBudget(c) >= 360000
       /\ c.kind = "connect" => WatchdogBudget(c) >= ConnectWait(c)
  BY <1>4, <1>7, <1>10, <1>11, ConnectWaits
<1>18. c.kind = "transfer" => WatchdogBudget(c) >= 570000
  BY <1>5, <1>7, <1>10, <1>11
<1>19. c.kind = "keys" => WatchdogBudget(c) >= c.base + PressSeqHold(c)
  BY <1>6, <1>7, <1>10, <1>11
<1> QED BY <1>13, <1>14, <1>15, <1>16, <1>17, <1>18, <1>19

(* What is waited for in each rung, and the least of the two deadlines.    *)
LEMMA DeadlineFacts ==
  ASSUME command \in TimedCommands, sentAt \in Nat
  PROVE  /\ Deadline \in Nat
         /\ Deadline <= sentAt + IpcTimeout(command) /\ Deadline <= WatchdogBudget(command)
         /\ Deadline = sentAt + IpcTimeout(command) \/ Deadline = WatchdogBudget(command)
<1> DEFINE a == sentAt + IpcTimeout(command)
           b == WatchdogBudget(command)
<1>1. a \in Nat /\ b \in Nat
  BY IpcFacts, WatchdogFacts
<1>2. Deadline = Min({a, b})
  BY DEF Deadline, SocketDeadline
<1> HIDE DEF a, b
<1>3. Deadline \in Nat /\ Deadline <= a /\ Deadline <= b /\ (Deadline = a \/ Deadline = b)
  BY <1>1, <1>2, SmallerOfTwo
<1> QED BY <1>3 DEF a, b

LEMMA StepFacts ==
  ASSUME clock \in Nat, sentAt \in 0 .. clock
  PROVE  /\ BudgetLeft \in Nat
         /\ clock <= sentAt + TransferBudget => BudgetLeft = sentAt + TransferBudget - clock
         /\ \A s \in Nat : /\ StepTimeout(s) \in Nat /\ StepTimeout(s) <= BudgetLeft
                           /\ StepTimeout(s) = s \/ StepTimeout(s) = BudgetLeft
<1>1. clock - sentAt \in Nat /\ TransferBudget \in Nat
  BY DEF TransferBudget
<1> DEFINE m == Min({clock - sentAt, TransferBudget})
<1>2. /\ m \in Nat /\ m <= TransferBudget
      /\ clock - sentAt <= TransferBudget => m = clock - sentAt
  BY <1>1, SmallerOfTwo
<1>3. BudgetLeft = TransferBudget - m
  BY DEF BudgetLeft
<1> HIDE DEF m
<1>4. BudgetLeft \in Nat
  BY <1>1, <1>2, <1>3
<1>5. \A s \in Nat : /\ StepTimeout(s) \in Nat /\ StepTimeout(s) <= BudgetLeft
                     /\ StepTimeout(s) = s \/ StepTimeout(s) = BudgetLeft
  BY <1>4, SmallerOfTwo DEF StepTimeout
<1> QED BY <1>1, <1>2, <1>3, <1>4, <1>5

LEMMA WaitFacts ==
  ASSUME command \in TimedCommands, clock \in Nat, sentAt \in 0 .. clock,
         rung = "press" => round \in 1 .. Len(command.parts),
         rung \in {"backoff", "launch"} => round \in 1 .. 3
  PROVE  /\ InDaemon => WaitsFor \in Nat
         /\ rung = "reply" => WaitsFor = DvcDeadline(command)
         /\ rung = "lookup" => WaitsFor = 10000
         /\ rung = "backoff" => WaitsFor = 2000 * round
         /\ rung = "evict" => WaitsFor = 10000
         /\ rung = "handshake" => WaitsFor = RdpTime
         /\ rung = "survivor" => WaitsFor = 16000
         /\ rung = "launch" => WaitsFor = AttemptWorst(round)
         /\ rung = "probe" => WaitsFor = 10000
         /\ rung = "step" =>
              /\ WaitsFor <= BudgetLeft
              /\ WaitsFor \in {BudgetLeft, ChunkTimeout, VerifyTimeout}
         /\ rung = "abort" => WaitsFor = 10000
         /\ rung = "press" =>
              /\ WaitsFor = 50 + 40 * (PartsThrough(command, round) - PartsThrough(command, round - 1))
                              + (IF LastPress THEN 0 ELSE 40)
<1>1. rung = "reply" => WaitsFor = DvcDeadline(command) /\ WaitsFor \in Nat
  BY KindFacts DEF WaitsFor
<1>2. rung = "lookup" => WaitsFor = 10000
  BY DEF WaitsFor, QueryResultTimeout
<1>3. rung = "backoff" => WaitsFor = 2000 * round
  BY DEF WaitsFor, QueryResultBackoff
<1>4. rung = "evict" => WaitsFor = 10000
  BY DEF WaitsFor, StopsStale
<1>5. rung = "handshake" => WaitsFor = RdpTime
  BY DEF WaitsFor
<1>6. rung = "survivor" => WaitsFor = 16000
  BY DEF WaitsFor, SurvivorWait, StopsStale
<1>7. rung = "launch" => WaitsFor = AttemptWorst(round)
  BY DEF WaitsFor
<1>8. rung = "probe" => WaitsFor = 10000
  BY DEF WaitsFor, DefaultDvcTimeout
<1>9. rung = "step" => /\ WaitsFor \in Nat /\ WaitsFor <= BudgetLeft
                       /\ WaitsFor \in {BudgetLeft, ChunkTimeout, VerifyTimeout}
  <2>1. rung = "step" => WaitsFor = StepTimeout(IF LastStep THEN VerifyTimeout ELSE ChunkTimeout)
    BY DEF WaitsFor
  <2> DEFINE s == IF LastStep THEN VerifyTimeout ELSE ChunkTimeout
  <2>2. s \in Nat /\ s \in {VerifyTimeout, ChunkTimeout}
    BY DEF VerifyTimeout, ChunkTimeout
  <2> HIDE DEF s
  <2> QED BY <2>1, <2>2, StepFacts DEF s
<1>10. rung = "abort" => WaitsFor = 10000
  BY DEF WaitsFor, AbortTimeout
<1>11. rung = "press" =>
         /\ WaitsFor \in Nat
         /\ WaitsFor = 50 + 40 * (PartsThrough(command, round) - PartsThrough(command, round - 1))
                         + (IF LastPress THEN 0 ELSE 40)
  <2> SUFFICES ASSUME rung = "press"
               PROVE  /\ WaitsFor \in Nat
                      /\ WaitsFor = 50 + 40 * (PartsThrough(command, round) - PartsThrough(command, round - 1))
                                      + (IF LastPress THEN 0 ELSE 40)
    OBVIOUS
  <2> DEFINE a == PartsThrough(command, round)
             b == PartsThrough(command, round - 1)
             g == IF LastPress THEN 0 ELSE 40
  <2>1. /\ a \in Nat /\ b \in Nat /\ b < a /\ command.parts[round] = a
    <3>1. round \in 0 .. Len(command.parts) /\ round - 1 \in 0 .. Len(command.parts) /\ round # 0
      BY PartsFacts
    <3> QED BY <3>1, PartsFacts
  <2>2. WaitsFor = 50 + 4 * 10 * (command.parts[round] - b) + g
    BY DEF WaitsFor, PressHold, PressKeyGap, PressSeqInterval
  <2>3. g \in {0, 40}
    OBVIOUS
  <2> HIDE DEF a, b, g
  <2>4. WaitsFor = 50 + 40 * (a - b) + g /\ WaitsFor \in Nat
    BY <2>1, <2>2, <2>3
  <2> QED BY <2>4 DEF a, b, g
<1>12. InDaemon => WaitsFor \in Nat
  <2>1. CASE rung \in {"reply", "lookup", "evict", "survivor", "probe", "step", "abort", "press"}
    BY <2>1, <1>1, <1>2, <1>4, <1>6, <1>8, <1>9, <1>10, <1>11
  <2>2. CASE rung = "backoff"
    BY <2>2, <1>3
  <2>3. CASE rung = "handshake"
    BY <2>3, <1>5, LadderAssumption
  <2>4. CASE rung = "launch"
    BY <2>4, <1>7 DEF AttemptWorst, HandshakeWindow, FixedWaits, PollOvershoot
  <2>5. CASE rung \notin {"reply", "lookup", "evict", "survivor", "probe", "step", "abort", "press",
                          "backoff", "handshake", "launch"}
    BY <2>5 DEF WaitsFor
  <2> QED BY <2>1, <2>2, <2>3, <2>4, <2>5
<1> QED BY <1>1, <1>2, <1>3, <1>4, <1>5, <1>6, <1>7, <1>8, <1>9, <1>10, <1>11, <1>12

LEMMA AttemptFacts ==
  AttemptWorst(1) = 59800 /\ AttemptWorst(2) = 99800 /\ AttemptWorst(3) = 159800
BY DEF AttemptWorst, HandshakeWindow, FixedWaits, PollOvershoot

(* What every step does that neither sends nor gives up.                   *)
Endings == {"answered", "unknown", "failed"}

Goes ==
  /\ command' = command /\ sentAt' = sentAt
  /\ clock' \in Nat /\ clock <= clock' /\ clock' <= Deadline
  /\ polling' \in {polling, clock'}
  /\ ladderVerdict' \in {ladderVerdict} \cup Endings

RoundsMove == RungsBelong' /\ RoundsCount' /\ round' \in 1 .. MostRounds(command)

LEMMA RangesFacts ==
  ASSUME LadderRanges
  PROVE  /\ command \in TimedCommands /\ clock \in Nat /\ sentAt \in 0 .. clock /\ polling \in 0 .. clock
         /\ round \in 1 .. MostRounds(command) /\ MostRounds(command) \in Nat
         /\ MostRounds(command) >= 3 /\ MostRounds(command) >= MaxSteps
         /\ MostRounds(command) >= Len(command.parts)
         /\ MaxSteps \in Nat \ {0} /\ Len(command.parts) \in Nat
         /\ Deadline \in Nat /\ clock <= Deadline
         /\ InDaemon => WaitsFor \in Nat
         /\ rung = "step" /\ ~(BudgetLeft < MinStepTimeout) => WaitsFor >= MinStepTimeout
         /\ RungsBelong /\ RoundsCount
<1>1. /\ command \in TimedCommands /\ clock \in Nat /\ sentAt \in 0 .. clock /\ polling \in 0 .. clock
      /\ RungsBelong /\ RoundsCount /\ clock <= Deadline
      /\ round \in 1 .. MostRounds(command)
  BY DEF LadderRanges, LadderTypeOK, MostRounds
<1>2. /\ MostRounds(command) \in Nat /\ MostRounds(command) >= 3
      /\ MostRounds(command) >= MaxSteps /\ MostRounds(command) >= Len(command.parts)
  BY <1>1, RoundsFit
<1>3. MaxSteps \in Nat \ {0} /\ Len(command.parts) \in Nat
  BY <1>1, LadderAssumption
<1>4. Deadline \in Nat
  BY <1>1, DeadlineFacts
<1>5. /\ rung = "press" => round \in 1 .. Len(command.parts)
      /\ rung \in {"backoff", "launch"} => round \in 1 .. 3
  BY <1>1 DEF RoundsCount
<1>6. InDaemon => WaitsFor \in Nat
  BY <1>1, <1>5, WaitFacts
<1>7. rung = "step" /\ ~(BudgetLeft < MinStepTimeout) => WaitsFor >= MinStepTimeout
  <2>1. rung = "step" => WaitsFor \in {BudgetLeft, ChunkTimeout, VerifyTimeout}
    BY <1>1, <1>5, WaitFacts
  <2>2. BudgetLeft \in Nat
    BY <1>1, StepFacts
  <2> QED BY <2>1, <2>2 DEF ChunkTimeout, VerifyTimeout, MinStepTimeout
<1> QED BY <1>1, <1>2, <1>3, <1>4, <1>6, <1>7

LEMMA PassesForward ==
  ASSUME LadderRanges, NEW d \in Nat, Passes(d)
  PROVE  clock' = clock + d /\ clock' \in Nat /\ clock <= clock' /\ clock' <= Deadline
<1>1. clock \in Nat
  BY RangesFacts
<1>2. clock' = clock + d /\ clock' <= Deadline
  BY DEF Passes
<1> QED BY <1>1, <1>2

LEMMA FollowRangesKept ==
  ASSUME LadderRanges, Goes, RoundsMove
  PROVE  LadderRanges'
<1>1. Deadline' = Deadline
  BY DEF Goes, Deadline, SocketDeadline
<1>2. LadderTypeOK'
  BY RangesFacts DEF Goes, Endings, RoundsMove, LadderTypeOK, LadderRanges, MostRounds
<1> QED BY <1>1, <1>2 DEF LadderRanges, RoundsMove, Goes

(* What an answer leaves behind; and a move to another rung.               *)
LEMMA AnswerMoves ==
  ASSUME LadderRanges, NEW o \in Endings, DaemonAnswers(o), command' = command
  PROVE  /\ polling' \in {polling, clock'} /\ ladderVerdict' \in {ladderVerdict} \cup Endings
         /\ rung' \in {"over", "pause"} /\ (rung' = "pause" => command.kind = "follow")
         /\ RoundsMove
<1>1. /\ polling' \in {polling, clock'} /\ ladderVerdict' \in {ladderVerdict} \cup Endings
      /\ rung' \in {"over", "pause"} /\ (rung' = "pause" => command.kind = "follow")
      /\ round' = round
  BY DEF DaemonAnswers, EndsWith, MovesTo
<1>2. RoundsMove
  BY <1>1, RangesFacts DEF RoundsMove, RungsBelong, RoundsCount
<1> QED BY <1>1, <1>2

LEMMA MoveMoves ==
  ASSUME LadderRanges, NEW next, NEW r, MovesTo(next, r), Unanswered, command' = command
  PROVE  /\ polling' = polling /\ ladderVerdict' = ladderVerdict /\ rung' = next /\ round' = r
BY DEF MovesTo, Unanswered

LEMMA RangesStep ==
  ASSUME LadderRanges, LadderNext
  PROVE  LadderRanges'
<1> USE RangesFacts
<1>1. CASE CliSends
  <2>1. /\ rung = "send" /\ command' = command /\ clock' = clock /\ sentAt' = clock /\ round' = 1
        /\ rung' = FirstStage(command) /\ polling' = polling /\ ladderVerdict' = ladderVerdict
    BY <1>1 DEF CliSends
  <2>2. /\ RungsBelong' /\ RoundsCount'
    <3>1. \/ Automates(command) /\ rung' = "reply"
          \/ command.kind = "restart" /\ rung' = "evict"
          \/ command.kind = "connect" /\ rung' = "handshake"
          \/ command.kind = "transfer" /\ rung' = "step"
          \/ command.kind = "keys" /\ rung' = "press"
      BY <2>1, KindFacts DEF FirstStage, Kinds, Automates, Carries, SkipsLadder
    <3>2. command.kind = "keys" => Len(command.parts) >= 1
      BY PartsFacts
    <3> QED BY <2>1, <3>1, <3>2 DEF RungsBelong, RoundsCount
  <2>3. LadderTypeOK'
    BY <2>1 DEF LadderTypeOK, LadderRanges, MostRounds
  <2>4. clock' <= Deadline'
    <3>1. sentAt' \in Nat /\ command' \in TimedCommands /\ IpcTimeout(command) \in Nat
      BY <2>1, IpcFacts
    <3>2. Deadline \in Nat /\ Deadline <= WatchdogBudget(command)
      BY DeadlineFacts
    <3>3. Deadline' = sentAt' + IpcTimeout(command)' \/ Deadline' = WatchdogBudget(command)'
      <4>1. ASSUME command' \in TimedCommands, sentAt' \in Nat
            PROVE  Deadline' = sentAt' + IpcTimeout(command)' \/ Deadline' = WatchdogBudget(command)'
        <5> DEFINE a == sentAt' + IpcTimeout(command')
                   b == WatchdogBudget(command')
        <5>1. a \in Nat /\ b \in Nat
          BY <4>1, IpcFacts, WatchdogFacts
        <5>2. Deadline' = Min({a, b})
          BY DEF Deadline, SocketDeadline
        <5> HIDE DEF a, b
        <5>3. Deadline' = a \/ Deadline' = b
          BY <5>1, <5>2, SmallerOfTwo
        <5> QED BY <5>3 DEF a, b
      <4> QED BY <3>1, <4>1
    <3> QED BY <2>1, <3>1, <3>2, <3>3, WatchdogFacts
  <2> QED BY <2>2, <2>3, <2>4 DEF LadderRanges
<1>2. CASE FollowPauses
  <2>1. /\ rung = "pause" /\ Passes(500) /\ rung' = "send" /\ command' = command /\ round' = round
        /\ sentAt' = sentAt /\ polling' = polling /\ ladderVerdict' = ladderVerdict
    BY <1>2 DEF FollowPauses
  <2>2. RoundsMove
    BY <2>1 DEF RoundsMove, RungsBelong, RoundsCount
  <2>3. Goes
    BY <2>1, PassesForward DEF Goes
  <2> QED BY <2>2, <2>3, FollowRangesKept
<1>3. CASE AgentReplies
  <2>1. Passes(Quick) /\ DaemonAnswers("answered") /\ command' = command /\ sentAt' = sentAt
    BY <1>3 DEF AgentReplies
  <2>2. Quick \in Nat /\ "answered" \in Endings
    BY DEF Quick, Endings
  <2>3. Goes /\ RoundsMove
    BY <2>1, <2>2, AnswerMoves, PassesForward DEF Goes
  <2> QED BY <2>3, FollowRangesKept
<1>4. CASE ReplyOverdue
  <2>1. /\ rung = "reply" /\ Passes(WaitsFor) /\ command' = command /\ sentAt' = sentAt
        /\ IF SkipsLadder(command) THEN DaemonAnswers("unknown")
           ELSE MovesTo("lookup", 1) /\ Unanswered
    BY <1>4 DEF ReplyOverdue
  <2>2. WaitsFor \in Nat /\ "unknown" \in Endings
    BY <2>1 DEF InDaemon, Endings
  <2>3. CASE SkipsLadder(command)
    <3>1. Goes /\ RoundsMove
      BY <2>1, <2>2, <2>3, AnswerMoves, PassesForward DEF Goes
    <3> QED BY <3>1, FollowRangesKept
  <2>4. CASE ~SkipsLadder(command)
    <3>1. /\ polling' = polling /\ ladderVerdict' = ladderVerdict /\ rung' = "lookup" /\ round' = 1
      BY <2>1, <2>4, MoveMoves
    <3>2. RoundsMove
      BY <2>1, <2>4, <3>1 DEF RoundsMove, RungsBelong, RoundsCount
    <3>3. Goes
      BY <2>1, <2>2, <3>1, PassesForward DEF Goes
    <3> QED BY <3>2, <3>3, FollowRangesKept
  <2> QED BY <2>3, <2>4
<1>5. CASE LookupOverdue
  <2>1. /\ rung = "lookup" /\ Passes(WaitsFor) /\ command' = command /\ sentAt' = sentAt
        /\ IF round < 3 THEN MovesTo("backoff", round) /\ Unanswered
           ELSE DaemonAnswers("unknown")
    BY <1>5 DEF LookupOverdue, QueryResultAttempts
  <2>2. WaitsFor \in Nat /\ "unknown" \in Endings
    BY <2>1 DEF InDaemon, Endings
  <2>3. CASE ~(round < 3)
    <3>1. Goes /\ RoundsMove
      BY <2>1, <2>2, <2>3, AnswerMoves, PassesForward DEF Goes
    <3> QED BY <3>1, FollowRangesKept
  <2>4. CASE round < 3
    <3>1. /\ polling' = polling /\ ladderVerdict' = ladderVerdict /\ rung' = "backoff" /\ round' = round
      BY <2>1, <2>4, MoveMoves
    <3>2. RoundsMove
      BY <2>1, <2>4, <3>1 DEF RoundsMove, RungsBelong, RoundsCount
    <3>3. Goes
      BY <2>1, <2>2, <3>1, PassesForward DEF Goes
    <3> QED BY <3>2, <3>3, FollowRangesKept
  <2> QED BY <2>3, <2>4
<1>6. CASE BacksOff
  <2>1. /\ rung = "backoff" /\ Passes(WaitsFor) /\ command' = command /\ sentAt' = sentAt
        /\ MovesTo("lookup", round + 1) /\ Unanswered
    BY <1>6 DEF BacksOff
  <2>2. WaitsFor \in Nat
    BY <2>1 DEF InDaemon
  <2>3. /\ polling' = polling /\ ladderVerdict' = ladderVerdict /\ rung' = "lookup" /\ round' = round + 1
    BY <2>1, MoveMoves
  <2>4. RoundsMove
    BY <2>1, <2>3 DEF RoundsMove, RungsBelong, RoundsCount
  <2>5. Goes
    BY <2>1, <2>2, <2>3, PassesForward DEF Goes
  <2> QED BY <2>4, <2>5, FollowRangesKept
<1>7. CASE Prepares
  <2>1. /\ rung \in {"evict", "handshake", "survivor"} /\ command' = command /\ sentAt' = sentAt
        /\ \E d \in {Quick, WaitsFor} : Passes(d)
        /\ MovesTo(IF rung = "handshake" THEN "survivor" ELSE "launch", 1) /\ Unanswered
    BY <1>7 DEF Prepares
  <2>2. WaitsFor \in Nat /\ Quick \in Nat
    BY <2>1 DEF InDaemon, Quick
  <2>3. /\ polling' = polling /\ ladderVerdict' = ladderVerdict /\ round' = 1
        /\ rung' = IF rung = "handshake" THEN "survivor" ELSE "launch"
    BY <2>1, MoveMoves
  <2>4. RoundsMove
    BY <2>1, <2>3 DEF RoundsMove, RungsBelong, RoundsCount
  <2>5. Goes
    BY <2>1, <2>2, <2>3, PassesForward DEF Goes
  <2> QED BY <2>4, <2>5, FollowRangesKept
<1>8. CASE LaunchOverdue
  <2>1. /\ rung = "launch" /\ command' = command /\ sentAt' = sentAt
        /\ Passes(Quick) \/ Passes(WaitsFor)
        /\ \/ command.kind = "restart" /\ MovesTo("probe", 1) /\ Unanswered
           \/ round < 3 /\ MovesTo("launch", round + 1) /\ Unanswered
           \/ \E o \in Endings : DaemonAnswers(o)
    BY <1>8 DEF LaunchOverdue, LadderAttempts, Endings
  <2>2. WaitsFor \in Nat /\ Quick \in Nat
    BY <2>1 DEF InDaemon, Quick
  <2>3. clock' \in Nat /\ clock <= clock' /\ clock' <= Deadline
    BY <2>1, <2>2, PassesForward
  <2>4. CASE command.kind = "restart" /\ MovesTo("probe", 1) /\ Unanswered
    <3>1. /\ polling' = polling /\ ladderVerdict' = ladderVerdict /\ rung' = "probe" /\ round' = 1
      BY <2>1, <2>4, MoveMoves
    <3>2. RoundsMove
      BY <2>1, <2>4, <3>1 DEF RoundsMove, RungsBelong, RoundsCount
    <3> QED BY <2>1, <2>3, <3>1, <3>2, FollowRangesKept DEF Goes
  <2>5. CASE round < 3 /\ MovesTo("launch", round + 1) /\ Unanswered
    <3>1. /\ polling' = polling /\ ladderVerdict' = ladderVerdict /\ rung' = "launch" /\ round' = round + 1
      BY <2>1, <2>5, MoveMoves
    <3>2. RoundsMove
      BY <2>1, <2>5, <3>1 DEF RoundsMove, RungsBelong, RoundsCount
    <3> QED BY <2>1, <2>3, <3>1, <3>2, FollowRangesKept DEF Goes
  <2>6. CASE \E o \in Endings : DaemonAnswers(o)
    <3>1. Goes /\ RoundsMove
      BY <2>1, <2>3, <2>6, AnswerMoves DEF Goes
    <3> QED BY <3>1, FollowRangesKept
  <2> QED BY <2>1, <2>4, <2>5, <2>6
<1>9. CASE ProbeOverdue
  <2>1. rung = "probe" /\ Passes(WaitsFor) /\ DaemonAnswers("failed") /\ command' = command /\ sentAt' = sentAt
    BY <1>9 DEF ProbeOverdue
  <2>2. WaitsFor \in Nat /\ "failed" \in Endings
    BY <2>1 DEF InDaemon, Endings
  <2>3. Goes /\ RoundsMove
    BY <2>1, <2>2, AnswerMoves, PassesForward DEF Goes
  <2> QED BY <2>3, FollowRangesKept
<1>10. CASE TransferStep
  <2>1. /\ rung = "step" /\ command' = command /\ sentAt' = sentAt
        /\ clock' = clock \/ Passes(Quick) \/ Passes(WaitsFor)
        /\ \/ MovesTo("abort", 1) /\ Unanswered
           \/ ~LastStep /\ MovesTo("step", round + 1) /\ Unanswered
           \/ DaemonAnswers("answered")
    BY <1>10 DEF TransferStep
  <2>2. WaitsFor \in Nat /\ Quick \in Nat /\ "answered" \in Endings
    BY <2>1 DEF InDaemon, Quick, Endings
  <2>3. clock' \in Nat /\ clock <= clock' /\ clock' <= Deadline
    BY <2>1, <2>2, PassesForward
  <2>4. CASE MovesTo("abort", 1) /\ Unanswered
    <3>1. /\ polling' = polling /\ ladderVerdict' = ladderVerdict /\ rung' = "abort" /\ round' = 1
      BY <2>1, <2>4, MoveMoves
    <3>2. RoundsMove
      BY <2>1, <3>1 DEF RoundsMove, RungsBelong, RoundsCount
    <3> QED BY <2>1, <2>3, <3>1, <3>2, FollowRangesKept DEF Goes
  <2>5. CASE ~LastStep /\ MovesTo("step", round + 1) /\ Unanswered
    <3>1. /\ polling' = polling /\ ladderVerdict' = ladderVerdict /\ rung' = "step" /\ round' = round + 1
      BY <2>1, <2>5, MoveMoves
    <3>2. round + 1 \in 1 .. MaxSteps
      <4>1. round \in 1 .. MaxSteps /\ MaxSteps \in Nat
        BY <2>1 DEF RoundsCount
      <4>2. round # MaxSteps
        BY <2>5 DEF LastStep
      <4> QED BY ONLY <4>1, <4>2
    <3>3. RoundsMove
      BY <2>1, <3>1, <3>2 DEF RoundsMove, RungsBelong, RoundsCount
    <3> QED BY <2>1, <2>3, <3>1, <3>3, FollowRangesKept DEF Goes
  <2>6. CASE DaemonAnswers("answered")
    <3>1. Goes /\ RoundsMove
      BY <2>1, <2>2, <2>3, <2>6, AnswerMoves DEF Goes
    <3> QED BY <3>1, FollowRangesKept
  <2> QED BY <2>1, <2>4, <2>5, <2>6
<1>11. CASE AbortsTransfer
  <2>1. /\ rung = "abort" /\ DaemonAnswers("failed") /\ command' = command /\ sentAt' = sentAt
        /\ \E d \in {Quick, WaitsFor} : Passes(d)
    BY <1>11 DEF AbortsTransfer
  <2>2. WaitsFor \in Nat /\ Quick \in Nat /\ "failed" \in Endings
    BY <2>1 DEF InDaemon, Quick, Endings
  <2>3. Goes /\ RoundsMove
    BY <2>1, <2>2, AnswerMoves, PassesForward DEF Goes
  <2> QED BY <2>3, FollowRangesKept
<1>12. CASE PressesNext
  <2>1. /\ rung = "press" /\ Passes(WaitsFor) /\ command' = command /\ sentAt' = sentAt
        /\ IF LastPress THEN DaemonAnswers("answered")
           ELSE MovesTo("press", round + 1) /\ Unanswered
    BY <1>12 DEF PressesNext
  <2>2. WaitsFor \in Nat /\ "answered" \in Endings
    BY <2>1 DEF InDaemon, Endings
  <2>3. CASE LastPress
    <3>1. Goes /\ RoundsMove
      BY <2>1, <2>2, <2>3, AnswerMoves, PassesForward DEF Goes
    <3> QED BY <3>1, FollowRangesKept
  <2>4. CASE ~LastPress
    <3>1. /\ polling' = polling /\ ladderVerdict' = ladderVerdict /\ rung' = "press" /\ round' = round + 1
      BY <2>1, <2>4, MoveMoves
    <3>2. round + 1 \in 1 .. Len(command.parts)
      <4>1. round \in 1 .. Len(command.parts) /\ Len(command.parts) \in Nat
        BY <2>1 DEF RoundsCount
      <4>2. round # Len(command.parts)
        BY <2>4 DEF LastPress
      <4> QED BY ONLY <4>1, <4>2
    <3>3. RoundsMove
      BY <2>1, <3>1, <3>2 DEF RoundsMove, RungsBelong, RoundsCount
    <3>4. Goes
      BY <2>1, <2>2, <3>1, PassesForward DEF Goes
    <3> QED BY <3>3, <3>4, FollowRangesKept
  <2> QED BY <2>3, <2>4
<1>13. CASE CliGivesUp
  <2>1. /\ command' = command /\ sentAt' = sentAt /\ polling' = polling /\ round' = round
        /\ clock' = Deadline /\ rung' = "over" /\ ladderVerdict' \in {"timed_out", "aborted"}
    BY <1>13 DEF CliGivesUp, EndsWith
  <2>2. Deadline' = Deadline
    BY <2>1 DEF Deadline, SocketDeadline
  <2>3. RungsBelong' /\ RoundsCount'
    BY <2>1 DEF RungsBelong, RoundsCount
  <2>4. LadderTypeOK'
    BY <2>1 DEF LadderTypeOK, LadderRanges, MostRounds
  <2> QED BY <2>1, <2>2, <2>3, <2>4 DEF LadderRanges
<1> QED
  BY <1>1, <1>2, <1>3, <1>4, <1>5, <1>6, <1>7, <1>8, <1>9, <1>10, <1>11, <1>12, <1>13 DEF LadderNext

LEMMA RangesInit ==
  ASSUME LadderInit
  PROVE  LadderRanges
<1>1. /\ command \in TimedCommands /\ clock = 0 /\ rung = "send" /\ round = 1 /\ sentAt = 0
      /\ polling = 0 /\ ladderVerdict = "none"
  BY DEF LadderInit
<1>2. Deadline \in Nat
  BY <1>1, DeadlineFacts
<1>3. MostRounds(command) \in Nat /\ MostRounds(command) >= 3
  BY <1>1, RoundsFit
<1> QED BY <1>1, <1>2, <1>3 DEF LadderRanges, LadderTypeOK, RungsBelong, RoundsCount, MostRounds

(* What a caller has to leave its daemon, where its --timeout is not       *)
(* extended: a connect, the RDP handshake, the launches and what precedes  *)
(* them; a command that skips the ladder, the agent's deadline.            *)
EnoughTime ==
  /\ \A c \in TimedCommands :
       c.kind = "connect" => RdpTime + SurvivorWait + StopsStale + LadderWorst <= ConnectWait(c)
  /\ \A c \in TimedCommands : SkipsLadder(c) => DvcDeadline(c) <= c.base

LEMMA ShareFacts ==
  RdpTime \in Nat /\ RdpTime >= 1000 /\ LadderWorst = 319400 /\ StopsStale = 10000 /\ SurvivorWait = 6000
  /\ TransferBudget = 540000 /\ AttemptsBefore(1) = 0 /\ AttemptsBefore(2) = 59800
  /\ AttemptsBefore(3) = 159600 /\ LookupsBefore(1) = 0 /\ LookupsBefore(2) = 12000
  /\ LookupsBefore(3) = 26000
BY AttemptFacts, LadderAssumption DEF LadderWorst, Quick, StopsStale, SurvivorWait,
   TransferBudget, AttemptsBefore, LookupsBefore, QueryResultTimeout, QueryResultBackoff

(* Where the rungs stand, in numbers.                                      *)
LEMMA TimesFacts ==
  ASSUME LadderInv
  PROVE  /\ command \in TimedCommands /\ clock \in Nat /\ sentAt \in 0 .. clock /\ polling \in 0 .. clock
         /\ rung \in {"reply", "evict", "handshake"} => clock = sentAt
         /\ rung = "lookup" => /\ round \in 1 .. 3
                               /\ clock <= sentAt + DvcDeadline(command) + 12000 * (round - 1)
                                             + (IF round = 3 THEN 2000 ELSE 0)
         /\ rung = "backoff" => /\ round \in 1 .. 2
                                /\ clock <= sentAt + DvcDeadline(command) + 12000 * (round - 1) + 10000
         /\ rung = "survivor" => clock <= sentAt + RdpTime
         /\ rung = "launch" => /\ round \in 1 .. 3
                               /\ clock <= sentAt + AttemptsBefore(round)
                                    + (IF command.kind = "restart" THEN 10000 ELSE RdpTime + 16000)
         /\ rung = "probe" => clock <= sentAt + 329400
         /\ rung \in {"step", "abort"} => clock <= sentAt + 540000
         /\ rung = "press" => /\ round \in 1 .. Len(command.parts)
                              /\ clock <= sentAt + Presses(round - 1)
<1>1. /\ command \in TimedCommands /\ clock \in Nat /\ sentAt \in 0 .. clock /\ polling \in 0 .. clock
      /\ RoundsCount
  BY RangesFacts DEF LadderInv
<1>2. DvcDeadline(command) \in Nat
  BY <1>1, KindFacts
<1>3. rung \in {"reply", "evict", "handshake"} => clock = sentAt
  BY <1>1 DEF LadderInv, TimesAddUp, Within
<1>4. rung = "lookup" => /\ round \in 1 .. 3
                         /\ clock <= sentAt + (DvcDeadline(command) + LookupsBefore(round))
  BY <1>1 DEF LadderInv, TimesAddUp, Within, RoundsCount
<1>5. rung = "backoff" => /\ round \in 1 .. 2
                          /\ clock <= sentAt + (DvcDeadline(command) + LookupsBefore(round) + 10000)
  BY <1>1 DEF LadderInv, TimesAddUp, Within, RoundsCount, QueryResultTimeout
<1>6. rung = "launch" => /\ round \in 1 .. 3
                         /\ clock <= sentAt + (AttemptsBefore(round)
                              + (IF command.kind = "restart" THEN 10000 ELSE RdpTime + 16000))
  BY <1>1, ShareFacts DEF LadderInv, TimesAddUp, Within, RoundsCount
<1>7. /\ rung = "survivor" => clock <= sentAt + RdpTime
      /\ rung = "probe" => clock <= sentAt + 329400
      /\ rung \in {"step", "abort"} => clock <= sentAt + 540000
  BY <1>1, ShareFacts DEF LadderInv, TimesAddUp, Within
<1>8. rung = "press" => /\ round \in 1 .. Len(command.parts)
                        /\ clock <= sentAt + Presses(round - 1)
  BY <1>1 DEF LadderInv, TimesAddUp, Within, RoundsCount
<1>9. \A r \in 1 .. 3 : LookupsBefore(r) = 12000 * (r - 1) + (IF r = 3 THEN 2000 ELSE 0)
  BY ShareFacts
<1>10. \A r \in 1 .. 3 : AttemptsBefore(r) \in Nat
  BY ShareFacts
<1>11. rung = "lookup" => clock <= sentAt + DvcDeadline(command) + 12000 * (round - 1)
                                             + (IF round = 3 THEN 2000 ELSE 0)
  BY <1>1, <1>2, <1>4, <1>9
<1>12. rung = "backoff" => clock <= sentAt + DvcDeadline(command) + 12000 * (round - 1) + 10000
  BY <1>1, <1>2, <1>5, <1>9
<1>13. rung = "launch" => clock <= sentAt + AttemptsBefore(round)
                              + (IF command.kind = "restart" THEN 10000 ELSE RdpTime + 16000)
  <2> DEFINE before == IF command.kind = "restart" THEN 10000 ELSE RdpTime + 16000
  <2>1. rung = "launch" => clock <= sentAt + (AttemptsBefore(round) + before)
    BY <1>6
  <2>2. before \in Nat /\ (rung = "launch" => AttemptsBefore(round) \in Nat)
    BY <1>6, <1>10, ShareFacts
  <2> HIDE DEF before
  <2>3. rung = "launch" => clock <= sentAt + AttemptsBefore(round) + before
    BY <1>1, <2>1, <2>2
  <2> QED BY <2>3 DEF before
<1> QED BY <1>1, <1>3, <1>4, <1>5, <1>6, <1>7, <1>8, <1>11, <1>12, <1>13

(* The presses of a sequence add up to the time it is given.               *)
LEMMA PressFacts ==
  ASSUME LadderInv, rung = "press"
  PROVE  /\ Presses(round - 1) \in Nat /\ WaitsFor \in Nat
         /\ LastPress => Presses(round - 1) + WaitsFor = PressSeqHold(command)
         /\ ~LastPress => /\ Presses(round - 1) + WaitsFor = Presses(round)
                          /\ Presses(round) <= PressSeqHold(command)
<1> DEFINE l == Len(command.parts)
           a == PartsThrough(command, round)
           b == PartsThrough(command, round - 1)
           e == PartsThrough(command, l)
<1>1. command \in TimedCommands /\ round \in 1 .. l /\ l \in Nat /\ command.kind = "keys"
  BY TimesFacts, RangesFacts DEF LadderInv, RungsBelong
<1>2. round \in 0 .. l /\ round - 1 \in 0 .. l
  BY <1>1
<1>3. a \in Nat /\ b \in Nat /\ e \in Nat /\ a <= e
  BY <1>1, <1>2, PartsFacts
<1>4. PressSeqHold(command) = l * 50 + 40 * e + (l - 1) * 40
  BY <1>1, PartsFacts
<1>5. WaitsFor = 50 + 40 * (a - b) + (IF LastPress THEN 0 ELSE 40) /\ WaitsFor \in Nat
  BY <1>1, TimesFacts, WaitFacts DEF InDaemon, LadderInv, RoundsCount
<1>6. Presses(round - 1) = (round - 1) * 90 + 40 * b /\ Presses(round) = round * 90 + 40 * a
  BY DEF Presses, PressHold, PressKeyGap, PressSeqInterval
<1>7. LastPress <=> round = l
  BY DEF LastPress
<1> HIDE DEF l, a, b, e
<1>8. Presses(round - 1) \in Nat
  BY <1>1, <1>3, <1>6
<1>9. CASE LastPress
  <2>1. round = l /\ WaitsFor = 50 + 40 * (a - b)
    BY <1>5, <1>7, <1>9, <1>3
  <2>2. a = e
    BY <2>1 DEF a, e, l
  <2>3. Presses(round - 1) + WaitsFor = PressSeqHold(command)
    BY <1>1, <1>3, <1>4, <1>6, <2>1, <2>2
  <2> QED BY <1>5, <1>8, <1>9, <2>3
<1>10. CASE ~LastPress
  <2>1. round # l /\ WaitsFor = 50 + 40 * (a - b) + 40
    BY <1>5, <1>7, <1>10
  <2>2. Presses(round - 1) + WaitsFor = Presses(round)
    BY <1>1, <1>3, <1>6, <2>1
  <2>3. round + 1 <= l
    BY <1>1, <2>1
  <2>4. Presses(round) <= PressSeqHold(command)
    BY <1>1, <1>3, <1>4, <1>6, <2>3
  <2> QED BY <1>5, <1>8, <1>10, <2>2, <2>4
<1> QED BY <1>9, <1>10

(* What passes until the daemon moves on fits under both deadlines.        *)
LEMMA FitsUnder ==
  ASSUME LadderInv, EnoughTime, NEW d \in Nat,
         SkipsLadder(command) => d <= DvcDeadline(command),
         Automates(command) /\ ~SkipsLadder(command) => d <= DvcDeadline(command) + 36000,
         command.kind = "restart" => d <= 360000,
         command.kind = "connect" => d <= RdpTime + 335400,
         command.kind = "transfer" => d <= 570000,
         command.kind = "keys" => d <= PressSeqHold(command)
  PROVE  sentAt + d <= Deadline
<1>1. command \in TimedCommands /\ sentAt \in Nat /\ polling \in Nat
  BY TimesFacts
<1>2. /\ command.base \in Nat /\ command.own \in Nat /\ DvcDeadline(command) \in Nat
      /\ PressSeqHold(command) \in Nat
      /\ command.kind = "follow" => DvcDeadline(command) = 10000
      /\ SkipsLadder(command) => DvcDeadline(command) <= command.base
  BY <1>1, KindFacts, PartsFacts DEF EnoughTime
<1>6. command.kind = "connect" =>
        d <= ConnectWait(command) /\ ConnectWait(command) \in Nat
  BY <1>1, ConnectWaits, ShareFacts DEF EnoughTime
<1>3. \/ SkipsLadder(command)
      \/ Automates(command) /\ ~SkipsLadder(command)
      \/ command.kind \in {"restart", "connect", "transfer", "keys"}
  BY <1>1, KindFacts DEF Kinds, SkipsLadder, Automates, Carries
<1>4. d <= IpcTimeout(command) /\ IpcTimeout(command) \in Nat
  <2>1. CASE SkipsLadder(command)
    BY <1>1, <1>2, <2>1, IpcFacts
  <2>2. CASE Automates(command) /\ ~SkipsLadder(command)
    BY <1>1, <1>2, <2>2, IpcFacts
  <2>3. CASE command.kind \in {"restart", "connect"}
    BY <1>1, <1>6, <2>3, IpcFacts
  <2>4. CASE command.kind = "transfer"
    BY <1>1, <2>4, IpcFacts
  <2>5. CASE command.kind = "keys"
    BY <1>1, <1>2, <2>5, IpcFacts
  <2> QED BY <1>3, <2>1, <2>2, <2>3, <2>4, <2>5
<1>5. sentAt + d <= WatchdogBudget(command)
  <2>1. CASE command.kind = "follow"
    <3>1. sentAt <= command.own + 46500
      <4>1. /\ polling <= 46000
            /\ polling = 0 => sentAt = 0
            /\ polling # 0 => sentAt <= polling + command.own + 500
        BY <2>1, KindFacts, <1>1 DEF LadderInv, SendsInTime, DefaultDvcTimeout
      <4> QED BY <1>1, <1>2, <4>1
    <3>2. d <= 46000
      BY <1>2, <2>1 DEF Automates, SkipsLadder, Carries
    <3> QED BY <1>1, <1>2, <2>1, <3>1, <3>2, WatchdogFacts
  <2>2. CASE command.kind # "follow"
    <3>1. sentAt = 0
      BY <2>2 DEF LadderInv, SendsInTime
    <3>2. d <= WatchdogBudget(command)
      <4>1. CASE SkipsLadder(command)
        BY <1>1, <1>2, <4>1, WatchdogFacts
      <4>2. CASE Automates(command) /\ ~SkipsLadder(command)
        BY <1>1, <1>2, <4>2, WatchdogFacts
      <4>3. CASE command.kind \in {"restart", "connect"}
        BY <1>1, <1>6, <4>3, WatchdogFacts
      <4>4. CASE command.kind = "transfer"
        BY <1>1, <4>4, WatchdogFacts
      <4>5. CASE command.kind = "keys"
        BY <1>1, <1>2, <4>5, WatchdogFacts
      <4> QED BY <1>3, <4>1, <4>2, <4>3, <4>4, <4>5
    <3> QED BY <3>1, <3>2
  <2> QED BY <2>1, <2>2
<1> QED BY <1>1, <1>4, <1>5, DeadlineFacts

LEMMA DaemonInTime ==
  ASSUME LadderInv, EnoughTime, InDaemon
  PROVE  clock + WaitsFor <= Deadline
<1>1. /\ command \in TimedCommands /\ clock \in Nat /\ sentAt \in 0 .. clock
      /\ RungsBelong /\ RoundsCount /\ WaitsFor \in Nat /\ DvcDeadline(command) \in Nat
  BY TimesFacts, RangesFacts, KindFacts DEF LadderInv
<1> DEFINE d == clock + WaitsFor - sentAt
<1>2. d \in Nat /\ sentAt + d = clock + WaitsFor
  BY <1>1
<1>3. /\ rung = "press" => round \in 1 .. Len(command.parts)
      /\ rung \in {"backoff", "launch"} => round \in 1 .. 3
  BY <1>1 DEF RoundsCount
<1>4. SkipsLadder(command) => ~Carries(command)
  BY DEF SkipsLadder, Carries
<1> SUFFICES /\ SkipsLadder(command) => d <= DvcDeadline(command)
             /\ Automates(command) /\ ~SkipsLadder(command) => d <= DvcDeadline(command) + 36000
             /\ command.kind = "restart" => d <= 360000
             /\ command.kind = "connect" => d <= RdpTime + 335400
             /\ command.kind = "transfer" => d <= 570000
             /\ command.kind = "keys" => d <= PressSeqHold(command)
  BY <1>2, FitsUnder
<1>5. CASE rung = "reply"
  <2>1. d = DvcDeadline(command) /\ Automates(command)
    BY <1>1, <1>3, <1>5, TimesFacts, WaitFacts DEF RungsBelong
  <2>2. command.kind \notin {"restart", "connect", "transfer", "keys"}
    BY <2>1 DEF Automates, Carries, SkipsLadder
  <2> QED BY <1>1, <2>1, <2>2
<1>6. CASE rung \in {"lookup", "backoff"}
  <2>1. d <= DvcDeadline(command) + 36000
    <3>1. CASE rung = "lookup"
      <4>1. WaitsFor = 10000
        BY <1>1, <1>3, <3>1, WaitFacts
      <4>2. round \in 1 .. 3 /\ clock <= sentAt + DvcDeadline(command) + 12000 * (round - 1)
                                   + (IF round = 3 THEN 2000 ELSE 0)
        BY <3>1, TimesFacts
      <4> QED BY <1>1, <4>1, <4>2
    <3>2. CASE rung = "backoff"
      <4>1. WaitsFor = 2000 * round
        BY <1>1, <1>3, <3>2, WaitFacts
      <4>2. round \in 1 .. 2 /\ clock <= sentAt + DvcDeadline(command) + 12000 * (round - 1) + 10000
        BY <3>2, TimesFacts
      <4> QED BY <1>1, <4>1, <4>2
    <3> QED BY <1>6, <3>1, <3>2
  <2>2. Automates(command) /\ ~SkipsLadder(command)
    BY <1>1, <1>6 DEF RungsBelong
  <2>3. command.kind \notin {"restart", "connect", "transfer", "keys"}
    BY <2>2 DEF Automates, Carries, SkipsLadder
  <2> QED BY <2>1, <2>2, <2>3
<1>7. CASE rung \in {"evict", "handshake", "survivor", "launch", "probe"}
  <2>1. d <= IF command.kind = "restart" THEN 360000 ELSE RdpTime + 335400
    <3>0. RdpTime \in Nat
      BY ShareFacts
    <3>1. CASE rung = "evict"
      BY <1>1, <1>3, <3>0, <3>1, TimesFacts, WaitFacts DEF RungsBelong
    <3>2. CASE rung = "handshake"
      BY <1>1, <1>3, <3>0, <3>2, TimesFacts, WaitFacts DEF RungsBelong
    <3>3. CASE rung = "survivor"
      BY <1>1, <1>3, <3>0, <3>3, TimesFacts, WaitFacts DEF RungsBelong
    <3>4. CASE rung = "launch"
      <4>1. WaitsFor = AttemptWorst(round)
        BY <1>1, <1>3, <3>4, WaitFacts
      <4>2. round \in 1 .. 3 /\ clock <= sentAt + AttemptsBefore(round)
                                   + (IF command.kind = "restart" THEN 10000 ELSE RdpTime + 16000)
        BY <3>4, TimesFacts
      <4>3. \A r \in 1 .. 3 : /\ AttemptsBefore(r) \in Nat /\ AttemptWorst(r) \in Nat
                              /\ AttemptsBefore(r) + AttemptWorst(r) <= 319400
        BY ShareFacts, AttemptFacts
      <4> QED BY <1>1, <3>0, <4>1, <4>2, <4>3
    <3>5. CASE rung = "probe"
      BY <1>1, <1>3, <3>0, <3>5, TimesFacts, WaitFacts DEF RungsBelong
    <3> QED BY <1>7, <3>1, <3>2, <3>3, <3>4, <3>5
  <2>2. command.kind \in {"restart", "connect"}
    BY <1>1, <1>7 DEF RungsBelong
  <2>3. ~SkipsLadder(command) /\ ~Automates(command)
    BY <2>2 DEF Automates, Carries, SkipsLadder
  <2> QED BY <2>1, <2>2, <2>3
<1>8. CASE rung \in {"step", "abort"}
  <2>1. d <= 570000
    <3>1. clock <= sentAt + 540000
      BY <1>8, TimesFacts
    <3>2. CASE rung = "abort"
      BY <1>1, <1>3, <3>1, <3>2, WaitFacts
    <3>3. CASE rung = "step"
      <4>1. BudgetLeft = sentAt + 540000 - clock
        BY <1>1, <3>1, StepFacts, ShareFacts
      <4>2. WaitsFor <= BudgetLeft
        BY <1>1, <1>3, <3>3, WaitFacts
      <4> QED BY <1>1, <4>1, <4>2
    <3> QED BY <1>8, <3>2, <3>3
  <2>2. command.kind = "transfer"
    BY <1>1, <1>8 DEF RungsBelong
  <2>3. ~SkipsLadder(command) /\ ~Automates(command)
    BY <2>2 DEF Automates, Carries, SkipsLadder
  <2> QED BY <2>1, <2>2, <2>3
<1>9. CASE rung = "press"
  <2>1. d <= PressSeqHold(command)
    <3>1. clock <= sentAt + Presses(round - 1)
      BY <1>9, TimesFacts
    <3>2. PressSeqHold(command) \in Nat
      BY <1>1, PartsFacts
    <3>3. Presses(round - 1) \in Nat /\ Presses(round - 1) + WaitsFor <= PressSeqHold(command)
      BY <1>9, <3>2, PressFacts
    <3> QED BY <1>1, <3>1, <3>2, <3>3
  <2>2. command.kind = "keys"
    BY <1>1, <1>9 DEF RungsBelong
  <2>3. ~SkipsLadder(command) /\ ~Automates(command)
    BY <2>2 DEF Automates, Carries, SkipsLadder
  <2> QED BY <2>1, <2>2, <2>3
<1> QED BY <1>1, <1>5, <1>6, <1>7, <1>8, <1>9 DEF RungsBelong, InDaemon

Timed == TimesAddUp /\ SendsInTime /\ DaemonGivesUpFirst

(* After an answer there is nothing to add up; a follow's first answer     *)
(* starts its budget.                                                      *)
LEMMA AnswerInTime ==
  ASSUME LadderInv, NEW o \in Endings, DaemonAnswers(o), command' = command, sentAt' = sentAt,
         clock' \in Nat \ {0},
         command.kind = "follow" => clock' <= sentAt + 46000
  PROVE  Timed'
<1>1. /\ command \in TimedCommands /\ sentAt \in Nat /\ polling \in Nat /\ command.own \in Nat
  BY TimesFacts, KindFacts
<1>2. /\ polling' = (IF polling = 0 THEN clock' ELSE polling)
      /\ rung' \in {"over", "pause"} /\ ladderVerdict' \in {o, ladderVerdict}
      /\ rung' = "pause" => command.kind = "follow" /\ clock' < polling' + command.own
  BY DEF DaemonAnswers, EndsWith, MovesTo
<1>3. TimesAddUp'
  BY <1>2 DEF TimesAddUp
<1>4. DaemonGivesUpFirst'
  BY <1>2 DEF DaemonGivesUpFirst, LadderInv, Endings
<1>5. SendsInTime'
  <2>1. CASE command.kind = "follow"
    <3>1. DefaultDvcTimeout + ResolutionWorst = 46000
      BY <1>1, KindFacts DEF DefaultDvcTimeout
    <3>2. polling <= 46000 /\ (IF polling = 0 THEN sentAt = 0 ELSE sentAt <= polling + command.own + 500)
      BY <2>1, <3>1 DEF LadderInv, SendsInTime
    <3>3. polling' # 0 /\ polling' \in Nat
      BY <1>1, <1>2
    <3>4. polling' <= 46000 /\ sentAt' <= polling' + command.own + 500
      BY <1>1, <1>2, <2>1, <3>2
    <3> QED BY <1>2, <2>1, <3>1, <3>3, <3>4 DEF SendsInTime
  <2>2. CASE command.kind # "follow"
    BY <1>2, <2>2 DEF SendsInTime, LadderInv
  <2> QED BY <2>1, <2>2
<1> QED BY <1>3, <1>4, <1>5 DEF Timed

LEMMA MoveInTime ==
  ASSUME LadderInv, polling' = polling, ladderVerdict' = ladderVerdict, command' = command,
         sentAt' = sentAt, rung' \notin {"send", "pause"}
  PROVE  SendsInTime' /\ DaemonGivesUpFirst'
<1>1. SendsInTime'
  BY DEF LadderInv, SendsInTime
<1> QED BY <1>1 DEF LadderInv, DaemonGivesUpFirst

LEMMA PressWaits ==
  ASSUME LadderInv, rung = "press"
  PROVE  WaitsFor # 0
<1>1. /\ command \in TimedCommands /\ clock \in Nat /\ sentAt \in 0 .. clock
      /\ round \in 1 .. Len(command.parts)
  BY TimesFacts
<1>2. Len(command.parts) \in Nat
  BY <1>1, PartsFacts
<1>3. round \in 0 .. Len(command.parts) /\ round - 1 \in 0 .. Len(command.parts) /\ round # 0
  BY <1>1, <1>2
<1>4. /\ PartsThrough(command, round) \in Nat /\ PartsThrough(command, round - 1) \in Nat
      /\ PartsThrough(command, round - 1) < PartsThrough(command, round)
  BY <1>1, <1>3, PartsFacts
<1>5. WaitsFor = 50 + 40 * (PartsThrough(command, round) - PartsThrough(command, round - 1))
                   + (IF LastPress THEN 0 ELSE 40)
  BY <1>1, WaitFacts
<1> QED BY <1>4, <1>5

LEMMA TimesStep ==
  ASSUME LadderInv, EnoughTime, LadderNext
  PROVE  Timed'
<1>0. /\ command \in TimedCommands /\ clock \in Nat /\ sentAt \in 0 .. clock /\ polling \in 0 .. clock
      /\ RungsBelong /\ RoundsCount /\ DvcDeadline(command) \in Nat /\ command.own \in Nat
      /\ command.kind = "follow" => DvcDeadline(command) = 10000
      /\ \A d \in Nat : Passes(d) => clock' = clock + d /\ clock' \in Nat
  BY TimesFacts, RangesFacts, KindFacts DEF LadderInv, Passes
<1>00. Quick = 1000 /\ (InDaemon => WaitsFor \in Nat)
  BY RangesFacts DEF Quick, LadderInv
<1>1. CASE CliSends
  <2>1. /\ rung = "send" /\ command' = command /\ clock' = clock /\ sentAt' = clock /\ round' = 1
        /\ rung' = FirstStage(command) /\ polling' = polling /\ ladderVerdict' = ladderVerdict
    BY <1>1 DEF CliSends
  <2>2. /\ rung' \in {"reply", "evict", "handshake", "step", "press"}
        /\ rung' = "press" => command.kind = "keys"
    <3>1. \/ Automates(command) /\ rung' = "reply"
          \/ command.kind = "restart" /\ rung' = "evict"
          \/ command.kind = "connect" /\ rung' = "handshake"
          \/ command.kind = "transfer" /\ rung' = "step"
          \/ command.kind = "keys" /\ rung' = "press"
      BY <1>0, <2>1, KindFacts DEF FirstStage, Kinds, Automates, Carries, SkipsLadder
    <3> QED BY <3>1
  <2>3. TimesAddUp'
    <3>1. Within(0)' /\ Within(TransferBudget)'
      BY <1>0, <2>1 DEF Within, TransferBudget
    <3>2. Presses(round - 1)' = 0
      BY <2>1 DEF Presses, PartsThrough, PressHold, PressSeqInterval, PressKeyGap
    <3>3. rung' = "press" => Within(Presses(round - 1))'
      BY <1>0, <2>1, <3>2 DEF Within
    <3> QED BY <2>2, <3>1, <3>3 DEF TimesAddUp
  <2>4. SendsInTime'
    <3>1. CASE command.kind = "follow"
      BY <1>0, <2>1, <2>2, <3>1 DEF LadderInv, SendsInTime
    <3>2. CASE command.kind # "follow"
      BY <1>0, <2>1, <2>2, <3>2 DEF LadderInv, SendsInTime
    <3> QED BY <3>1, <3>2
  <2> QED BY <2>1, <2>3, <2>4 DEF Timed, DaemonGivesUpFirst, LadderInv
<1>2. CASE FollowPauses
  <2>1. /\ rung = "pause" /\ Passes(500) /\ rung' = "send" /\ command' = command
        /\ sentAt' = sentAt /\ polling' = polling /\ ladderVerdict' = ladderVerdict
    BY <1>2 DEF FollowPauses
  <2>2. command.kind = "follow" /\ clock' = clock + 500
    BY <1>0, <2>1 DEF RungsBelong
  <2>3. SendsInTime'
    <3>1. clock < polling + command.own /\ polling # 0
      BY <2>1 DEF LadderInv, SendsInTime
    <3> QED BY <1>0, <2>1, <2>2, <3>1 DEF LadderInv, SendsInTime
  <2> QED BY <2>1, <2>3 DEF Timed, TimesAddUp, DaemonGivesUpFirst, LadderInv
<1>3. CASE AgentReplies
  <2>1. /\ rung \in {"reply", "lookup", "probe"} /\ Passes(1000) /\ DaemonAnswers("answered")
        /\ command' = command /\ sentAt' = sentAt
    BY <1>00, <1>3 DEF AgentReplies
  <2>2. clock' = clock + 1000
    BY <1>0, <2>1
  <2>3. command.kind = "follow" => clock' <= sentAt + 46000
    <3>1. CASE rung = "reply"
      BY <1>0, <2>2, <3>1, TimesFacts
    <3>2. CASE rung = "lookup"
      <4>1. round \in 1 .. 3 /\ clock <= sentAt + DvcDeadline(command) + 12000 * (round - 1)
                                   + (IF round = 3 THEN 2000 ELSE 0)
        BY <3>2, TimesFacts
      <4> QED BY <1>0, <2>2, <4>1
    <3>3. CASE rung = "probe"
      BY <1>0, <3>3 DEF RungsBelong
    <3> QED BY <2>1, <3>1, <3>2, <3>3
  <2> QED BY <1>0, <2>1, <2>2, <2>3, AnswerInTime DEF Endings
<1>4. CASE ReplyOverdue
  <2>1. /\ rung = "reply" /\ Passes(WaitsFor) /\ command' = command /\ sentAt' = sentAt
        /\ IF SkipsLadder(command) THEN DaemonAnswers("unknown")
           ELSE MovesTo("lookup", 1) /\ Unanswered
    BY <1>4 DEF ReplyOverdue
  <2>2. clock = sentAt /\ clock' = sentAt + DvcDeadline(command)
    BY <1>0, <1>00, <2>1, TimesFacts, WaitFacts DEF RoundsCount, InDaemon
  <2>3. CASE SkipsLadder(command)
    <3>1. DvcDeadline(command) # 0 /\ command.kind # "follow"
      BY <1>0, <2>3, KindFacts DEF SkipsLadder
    <3> QED BY <1>0, <2>1, <2>2, <2>3, <3>1, AnswerInTime DEF Endings
  <2>4. CASE ~SkipsLadder(command)
    <3>1. /\ polling' = polling /\ ladderVerdict' = ladderVerdict /\ rung' = "lookup" /\ round' = 1
      BY <2>1, <2>4 DEF MovesTo, Unanswered
    <3>2. (DvcDeadline(command) + LookupsBefore(round))' = DvcDeadline(command)
      BY <1>0, <2>1, <3>1, ShareFacts
    <3>3. TimesAddUp'
      BY <1>0, <2>1, <2>2, <3>1, <3>2 DEF TimesAddUp, Within
    <3> QED BY <2>1, <3>1, <3>3, MoveInTime DEF Timed
  <2> QED BY <2>3, <2>4
<1>5. CASE LookupOverdue
  <2>1. /\ rung = "lookup" /\ Passes(WaitsFor) /\ command' = command /\ sentAt' = sentAt
        /\ IF round < 3 THEN MovesTo("backoff", round) /\ Unanswered
           ELSE DaemonAnswers("unknown")
    BY <1>5 DEF LookupOverdue, QueryResultAttempts
  <2>2. clock' = clock + 10000
    BY <1>0, <2>1, WaitFacts DEF RoundsCount
  <2>3. /\ round \in 1 .. 3
        /\ clock <= sentAt + DvcDeadline(command) + 12000 * (round - 1) + (IF round = 3 THEN 2000 ELSE 0)
    BY <2>1, TimesFacts
  <2>4. CASE ~(round < 3)
    <3>1. command.kind = "follow" => clock' <= sentAt + 46000
      BY <1>0, <2>2, <2>3, <2>4
    <3> QED BY <1>0, <2>1, <2>2, <2>4, <3>1, AnswerInTime DEF Endings
  <2>5. CASE round < 3
    <3>1. /\ polling' = polling /\ ladderVerdict' = ladderVerdict /\ rung' = "backoff" /\ round' = round
      BY <2>1, <2>5 DEF MovesTo, Unanswered
    <3>2. clock <= sentAt + (DvcDeadline(command) + LookupsBefore(round))
      BY <2>1 DEF LadderInv, TimesAddUp, Within
    <3>3. LookupsBefore(round) \in Nat
      BY <2>3, ShareFacts
    <3>4. clock' <= sentAt + (DvcDeadline(command) + LookupsBefore(round) + QueryResultTimeout)
      BY <1>0, <2>2, <3>2, <3>3 DEF QueryResultTimeout
    <3>5. TimesAddUp'
      BY <2>1, <3>1, <3>4 DEF TimesAddUp, Within
    <3> QED BY <2>1, <3>1, <3>5, MoveInTime DEF Timed
  <2> QED BY <2>4, <2>5
<1>6. CASE BacksOff
  <2>1. /\ rung = "backoff" /\ Passes(WaitsFor) /\ command' = command /\ sentAt' = sentAt
        /\ MovesTo("lookup", round + 1) /\ Unanswered
    BY <1>6 DEF BacksOff
  <2>2. /\ polling' = polling /\ ladderVerdict' = ladderVerdict /\ rung' = "lookup" /\ round' = round + 1
    BY <2>1 DEF MovesTo, Unanswered
  <2>3. /\ round \in 1 .. 2
        /\ clock <= sentAt + DvcDeadline(command) + 12000 * (round - 1) + 10000
    BY <2>1, TimesFacts
  <2>4. clock' = clock + 2000 * round
    <3>1. WaitsFor = 2000 * round
      BY <1>0, <2>1, <2>3, WaitFacts
    <3> QED BY <1>0, <2>1, <2>3, <3>1
  <2>5. clock' <= sentAt + (DvcDeadline(command) + LookupsBefore(round + 1))
    <3>1. \/ round = 1 /\ LookupsBefore(round + 1) = 12000
          \/ round = 2 /\ LookupsBefore(round + 1) = 26000
      BY <2>3, ShareFacts
    <3> QED BY <1>0, <2>3, <2>4, <3>1
  <2>6. TimesAddUp'
    BY <2>1, <2>2, <2>5 DEF TimesAddUp, Within
  <2> QED BY <2>1, <2>2, <2>6, MoveInTime DEF Timed
<1>7. CASE Prepares
  <2>1. /\ rung \in {"evict", "handshake", "survivor"} /\ command' = command /\ sentAt' = sentAt
        /\ Passes(1000) \/ Passes(WaitsFor)
        /\ MovesTo(IF rung = "handshake" THEN "survivor" ELSE "launch", 1) /\ Unanswered
    BY <1>00, <1>7 DEF Prepares
  <2>2. /\ polling' = polling /\ ladderVerdict' = ladderVerdict /\ round' = 1
        /\ rung' = IF rung = "handshake" THEN "survivor" ELSE "launch"
    BY <2>1 DEF MovesTo, Unanswered
  <2>3. CASE rung = "handshake"
    <3>1. RdpTime \in Nat /\ WaitsFor = RdpTime /\ clock = sentAt
      BY <1>0, <2>3, ShareFacts, TimesFacts, WaitFacts
    <3>2. clock' <= sentAt + RdpTime
      BY <1>0, <2>1, <3>1, ShareFacts
    <3>3. TimesAddUp'
      BY <2>1, <2>2, <2>3, <3>2 DEF TimesAddUp, Within
    <3> QED BY <2>1, <2>2, <2>3, <3>3, MoveInTime DEF Timed
  <2>4. CASE rung \in {"evict", "survivor"}
    <3>1. \/ rung = "evict" /\ command.kind = "restart" /\ clock = sentAt /\ WaitsFor = 10000
          \/ /\ rung = "survivor" /\ command.kind = "connect" /\ clock <= sentAt + RdpTime
             /\ WaitsFor = 16000
      BY <1>0, <2>4, TimesFacts, WaitFacts DEF RungsBelong
    <3>2. clock' <= sentAt + (0 + IF command.kind = "restart" THEN StopsStale
                                 ELSE RdpTime + SurvivorWait + StopsStale)
      BY <1>0, <2>1, <3>1, ShareFacts
    <3>3. TimesAddUp'
      BY <2>1, <2>2, <2>4, <3>2, ShareFacts DEF TimesAddUp, Within
    <3> QED BY <2>1, <2>2, <2>4, <3>3, MoveInTime DEF Timed
  <2> QED BY <2>1, <2>3, <2>4
<1>8. CASE LaunchOverdue
  <2>1. /\ rung = "launch" /\ command' = command /\ sentAt' = sentAt
        /\ Passes(1000) \/ Passes(WaitsFor)
        /\ \/ command.kind = "restart" /\ MovesTo("probe", 1) /\ Unanswered
           \/ round < 3 /\ MovesTo("launch", round + 1) /\ Unanswered
           \/ \E o \in Endings : DaemonAnswers(o)
    BY <1>00, <1>8 DEF LaunchOverdue, LadderAttempts, Endings
  <2> DEFINE before == IF command.kind = "restart" THEN 10000 ELSE RdpTime + 16000
  <2>2. round \in 1 .. 3 /\ clock <= sentAt + AttemptsBefore(round) + before
    BY <2>1, TimesFacts
  <2>3. WaitsFor = AttemptWorst(round)
    BY <1>0, <2>1, <2>2, WaitFacts
  <2>4. /\ AttemptsBefore(round) \in Nat /\ AttemptWorst(round) \in Nat /\ AttemptWorst(round) >= 1000
        /\ AttemptsBefore(round) + AttemptWorst(round) <= 319400
        /\ round < 3 => AttemptsBefore(round) + AttemptWorst(round) = AttemptsBefore(round + 1)
    BY <2>2, ShareFacts, AttemptFacts
  <2>5. before \in Nat
    BY ShareFacts
  <2> HIDE DEF before
  <2>6. /\ clock' \in Nat \ {0}
        /\ clock' <= sentAt + AttemptsBefore(round) + AttemptWorst(round) + before
    BY <1>0, <2>1, <2>2, <2>3, <2>4, <2>5
  <2>7. CASE command.kind = "restart" /\ MovesTo("probe", 1) /\ Unanswered
    <3>1. /\ polling' = polling /\ ladderVerdict' = ladderVerdict /\ rung' = "probe" /\ round' = 1
      BY <2>7 DEF MovesTo, Unanswered
    <3>2. before = 10000
      BY <2>7 DEF before
    <3>3. clock' <= sentAt + (StopsStale + LadderWorst)
      BY <1>0, <2>4, <2>6, <3>2, ShareFacts
    <3>4. TimesAddUp'
      BY <2>1, <3>1, <3>3 DEF TimesAddUp, Within
    <3> QED BY <2>1, <3>1, <3>4, MoveInTime DEF Timed
  <2>8. CASE round < 3 /\ MovesTo("launch", round + 1) /\ Unanswered
    <3>1. /\ polling' = polling /\ ladderVerdict' = ladderVerdict /\ rung' = "launch" /\ round' = round + 1
      BY <2>8 DEF MovesTo, Unanswered
    <3>2. before = IF command.kind = "restart" THEN StopsStale
                   ELSE RdpTime + SurvivorWait + StopsStale
      BY ShareFacts DEF before
    <3>3. clock' <= sentAt + (AttemptsBefore(round + 1) + before)
      BY <1>0, <2>4, <2>5, <2>6, <2>8
    <3>4. TimesAddUp'
      BY <2>1, <3>1, <3>2, <3>3 DEF TimesAddUp, Within
    <3> QED BY <2>1, <3>1, <3>4, MoveInTime DEF Timed
  <2>9. CASE \E o \in Endings : DaemonAnswers(o)
    <3>1. command.kind # "follow"
      BY <1>0, <2>1 DEF RungsBelong
    <3> QED BY <2>1, <2>6, <2>9, <3>1, AnswerInTime
  <2> QED BY <2>1, <2>7, <2>8, <2>9
<1>9. CASE ProbeOverdue
  <2>1. rung = "probe" /\ Passes(WaitsFor) /\ DaemonAnswers("failed") /\ command' = command /\ sentAt' = sentAt
    BY <1>9 DEF ProbeOverdue
  <2>2. command.kind # "follow" /\ clock' = clock + 10000
    BY <1>0, <2>1, WaitFacts DEF RungsBelong, RoundsCount
  <2> QED BY <1>0, <2>1, <2>2, AnswerInTime DEF Endings
<1>10. CASE TransferStep
  <2>1. /\ rung = "step" /\ command' = command /\ sentAt' = sentAt
        /\ \/ clock' = clock /\ MovesTo("abort", 1) /\ Unanswered
           \/ /\ ~(BudgetLeft < MinStepTimeout)
              /\ Passes(1000) \/ Passes(WaitsFor)
              /\ \/ MovesTo("abort", 1) /\ Unanswered
                 \/ MovesTo("step", round + 1) /\ Unanswered
                 \/ DaemonAnswers("answered")
    BY <1>00, <1>10 DEF TransferStep
  <2>2. clock <= sentAt + 540000 /\ command.kind = "transfer"
    BY <1>0, <2>1, TimesFacts DEF RungsBelong
  <2>3. BudgetLeft \in Nat /\ BudgetLeft = sentAt + 540000 - clock
    BY <1>0, <2>2, StepFacts, ShareFacts
  <2>4. /\ WaitsFor \in Nat /\ WaitsFor <= BudgetLeft
        /\ ~(BudgetLeft < MinStepTimeout) => WaitsFor >= 5000
    BY <1>0, <1>00, <2>1, WaitFacts, RangesFacts DEF InDaemon, RoundsCount, LadderInv, MinStepTimeout
  <2>5. clock' \in Nat /\ clock' <= sentAt + 540000
    <3>1. CASE clock' = clock
      BY <1>0, <2>2, <3>1
    <3>2. CASE ~(BudgetLeft < MinStepTimeout) /\ (Passes(1000) \/ Passes(WaitsFor))
      <4>1. clock' = clock + 1000 \/ clock' = clock + WaitsFor
        BY <1>0, <2>4, <3>2
      <4> QED BY <1>0, <2>2, <2>3, <2>4, <3>2, <4>1
    <3> QED BY <2>1, <3>1, <3>2
  <2>6. CASE (MovesTo("abort", 1) \/ MovesTo("step", round + 1)) /\ Unanswered
    <3>1. /\ polling' = polling /\ ladderVerdict' = ladderVerdict /\ rung' \in {"step", "abort"}
      BY <2>6 DEF MovesTo, Unanswered
    <3>2. TimesAddUp'
      BY <2>1, <2>5, <3>1, ShareFacts DEF TimesAddUp, Within
    <3> QED BY <2>1, <3>1, <3>2, MoveInTime DEF Timed
  <2>7. CASE DaemonAnswers("answered") /\ (Passes(1000) \/ Passes(WaitsFor))
                 /\ ~(BudgetLeft < MinStepTimeout)
    <3>1. clock' \in Nat \ {0}
      BY <1>0, <2>4, <2>7
    <3> QED BY <2>1, <2>2, <2>7, <3>1, AnswerInTime DEF Endings
  <2> QED BY <2>1, <2>6, <2>7
<1>11. CASE AbortsTransfer
  <2>1. /\ rung = "abort" /\ DaemonAnswers("failed") /\ command' = command /\ sentAt' = sentAt
        /\ Passes(1000) \/ Passes(WaitsFor)
    BY <1>00, <1>11 DEF AbortsTransfer
  <2>2. WaitsFor = 10000 /\ command.kind # "follow"
    BY <1>0, <2>1, WaitFacts DEF RungsBelong, RoundsCount
  <2>3. clock' \in Nat \ {0}
    BY <1>0, <2>1, <2>2
  <2> QED BY <2>1, <2>2, <2>3, AnswerInTime DEF Endings
<1>12. CASE PressesNext
  <2>1. /\ rung = "press" /\ Passes(WaitsFor) /\ command' = command /\ sentAt' = sentAt
        /\ IF LastPress THEN DaemonAnswers("answered")
           ELSE MovesTo("press", round + 1) /\ Unanswered
    BY <1>12 DEF PressesNext
  <2>2. /\ WaitsFor \in Nat \ {0} /\ command.kind = "keys" /\ round \in 1 .. Len(command.parts)
        /\ clock' = clock + WaitsFor /\ clock' \in Nat
    <3>1. round \in 1 .. Len(command.parts) /\ command.kind = "keys"
      BY <1>0, <2>1 DEF RungsBelong, RoundsCount
    <3>2. WaitsFor \in Nat
      BY <2>1, PressFacts
    <3>3. WaitsFor # 0
      BY <1>0, <2>1, <3>1, PressWaits
    <3> QED BY <1>0, <2>1, <3>1, <3>2, <3>3
  <2>3. CASE LastPress
    BY <1>0, <2>1, <2>2, <2>3, AnswerInTime DEF Endings
  <2>4. CASE ~LastPress
    <3>1. /\ polling' = polling /\ ladderVerdict' = ladderVerdict /\ rung' = "press" /\ round' = round + 1
      BY <2>1, <2>4 DEF MovesTo, Unanswered
    <3>2. clock <= sentAt + Presses(round - 1)
      BY <2>1, TimesFacts
    <3>3. Presses(round - 1) \in Nat /\ Presses(round - 1) + WaitsFor = Presses(round)
      BY <2>1, <2>4, PressFacts
    <3>4. clock' <= sentAt + Presses(round)
      BY <1>0, <2>2, <3>2, <3>3
    <3>5. Presses(round - 1)' = Presses(round)
      <4>1. round' - 1 = round
        BY <2>2, <3>1
      <4> QED BY <2>1, <4>1 DEF Presses, PartsThrough
    <3>6. TimesAddUp'
      BY <2>1, <3>1, <3>4, <3>5 DEF TimesAddUp, Within
    <3> QED BY <2>1, <3>1, <3>6, MoveInTime DEF Timed
  <2> QED BY <2>3, <2>4
<1>13. CASE CliGivesUp
  <2>1. InDaemon /\ clock + WaitsFor > Deadline
    BY <1>13 DEF CliGivesUp
  <2>2. clock + WaitsFor <= Deadline
    BY <2>1, DaemonInTime
  <2>3. Deadline \in Nat /\ WaitsFor \in Nat
    BY <1>00, <2>1, RangesFacts DEF LadderInv
  <2> QED BY <1>0, <2>1, <2>2, <2>3
<1> QED
  BY <1>1, <1>2, <1>3, <1>4, <1>5, <1>6, <1>7, <1>8, <1>9, <1>10, <1>11, <1>12, <1>13 DEF LadderNext

-----------------------------------------------------------------------------
(* Clock, rounds and verdicts stay within their ranges, whatever the       *)
(* commands, the times they carry, the handshake and the transfer's steps. *)
THEOREM LadderTypeCorrect == LadderSpec => []LadderTypeOK
<1>1. LadderInit => LadderRanges
  BY RangesInit
<1>2. LadderRanges /\ [LadderNext]_ladderVars => LadderRanges'
  <2>1. CASE LadderNext
    BY <2>1, RangesStep
  <2>2. CASE UNCHANGED ladderVars
    BY <2>2 DEF ladderVars, LadderRanges, LadderTypeOK, RungsBelong, RoundsCount, Deadline,
       SocketDeadline
  <2> QED BY <2>1, <2>2
<1>3. LadderRanges => LadderTypeOK
  BY DEF LadderRanges
<1> QED BY <1>1, <1>2, <1>3, PTL DEF LadderSpec

(* For every command, every --timeout, wait, follow budget and key         *)
(* sequence, and every way the waits below add up (main.rs,                *)
(* cli/commands, handlers/automate.rs): the daemon is the layer that gives *)
(* up first, provided it was left enough time.                             *)
THEOREM DaemonIsFirst == EnoughTime => (LadderSpec => []DaemonGivesUpFirst)
<1> SUFFICES ASSUME EnoughTime
             PROVE  LadderSpec => []DaemonGivesUpFirst
  OBVIOUS
<1>1. LadderInit => LadderInv
  <2> SUFFICES ASSUME LadderInit
               PROVE  LadderInv
    OBVIOUS
  <2>1. LadderRanges
    BY RangesInit
  <2>2. /\ command \in TimedCommands /\ clock = 0 /\ rung = "send" /\ sentAt = 0
        /\ polling = 0 /\ ladderVerdict = "none"
    BY DEF LadderInit
  <2>3. DefaultDvcTimeout + ResolutionWorst = 46000
    BY <2>2, KindFacts DEF DefaultDvcTimeout
  <2> QED BY <2>1, <2>2, <2>3 DEF LadderInv, TimesAddUp, SendsInTime, DaemonGivesUpFirst
<1>2. LadderInv /\ [LadderNext]_ladderVars => LadderInv'
  <2>1. CASE LadderInv /\ LadderNext
    BY <2>1, RangesStep, TimesStep DEF LadderInv, Timed
  <2>2. CASE LadderInv /\ UNCHANGED ladderVars
    BY <2>2 DEF ladderVars, LadderInv, LadderRanges, LadderTypeOK, RungsBelong, RoundsCount, Deadline,
       SocketDeadline, TimesAddUp, SendsInTime, DaemonGivesUpFirst, Within, Presses
  <2> QED BY <2>1, <2>2
<1>3. LadderInv => DaemonGivesUpFirst
  BY DEF LadderInv
<1> QED BY <1>1, <1>2, <1>3, PTL DEF LadderSpec

=============================================================================
