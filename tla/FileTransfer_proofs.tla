------------------------ MODULE FileTransfer_proofs ------------------------
(***************************************************************************)
(* Proofs about FileTransfer, for any number of pushes and pulls that      *)
(* overlap, any sizes, and any number of losses and breaks.                *)
(***************************************************************************)
EXTENDS FileTransfer, FiniteSetTheorems, SequenceTheorems, TLAPS

-----------------------------------------------------------------------------
(* The inductive invariant.                                                *)

Pieces == (Contents \X Nat) \cup {<<"none", 0>>}
Ops == {"write", "abort", "stat", "read"}
Requests == [of : Transfers, op : Ops, index : Nat \ {0}, attempt : Nat]
Places == {"unused", "idle", "ready", "waiting", "abort", "aborting", "write", "done"}
Xfers == [pc : Places, index : Nat \ {0}, attempt : 1 .. PullAttempts,
          asked : Requests \cup {NoRequest}, size : Nat,
          hash : Seq(Pieces), data : Seq(Pieces)]
TransferReplies == [ok : BOOLEAN, data : Seq(Pieces), size : Nat, recent : BOOLEAN]
TaskStages == {"swap", "rehash", "hash"}
Tasks == [req : Requests, stage : TaskStages, orphan : BOOLEAN, size : Nat,
          recent : BOOLEAN]

FilesRange ==
    /\ remote \in Whole /\ local \in Whole /\ recent \in BOOLEAN
    /\ parts \in [Transfers -> Seq(Pieces)]
    /\ swapped \subseteq Contents /\ confirmed \subseteq swapped /\ pinned \subseteq Contents

HandlersRange ==
    /\ xfer \in [Transfers -> Xfers]
    /\ verdict \in [Transfers -> Verdicts]
    /\ answer \in [Transfers -> SUBSET TransferReplies]
    /\ spoiled \subseteq Transfers
    /\ \A t \in Transfers : \A a, b \in answer[t] : a = b
    /\ \A t \in Transfers : ~Waiting(t) => answer[t] = {}

(* Only pushes write and abort; only their last chunk is swapped in.       *)
PastRead(k) == k.stage \in {"swap", "rehash"}

WireRange ==
    /\ channelUp \in BOOLEAN
    /\ wireToAgent \in Seq(Requests)
    /\ \A i \in 1 .. Len(wireToAgent) :
          wireToAgent[i].op \in {"write", "abort"} <=> Pushing(wireToAgent[i].of)
    /\ tasks \subseteq Tasks
    /\ \A k \in tasks :
          IF PastRead(k)
          THEN /\ Pushing(k.req.of) /\ k.req.op = "write"
               /\ k.req.index = TotalChunks(k.req.of)
          ELSE ~Pushing(k.req.of) /\ k.req.op = "stat"
    /\ \A k, l \in tasks : ~k.orphan /\ ~l.orphan => k = l

(* What is on its way to the agent for a push.                             *)
OnWire(t, op) == {i \in 1 .. Len(wireToAgent) :
                   wireToAgent[i].of = t /\ wireToAgent[i].op = op}

(* The agent has begun to put the push's content in place.                 *)
Finishing(t) == {k \in tasks : PastRead(k) /\ k.req.of = t}
Taken(t) == t \in swapped \/ Finishing(t) # {}

(* What the caller of a push is told depends on how far it got.            *)
Place(t) ==
    /\ xfer[t].pc # "write" /\ xfer[t].asked.op \in {"none", "write", "abort"}
    /\ xfer[t].pc \in {"unused", "idle", "ready", "waiting"} => verdict[t] = "none"
    /\ xfer[t].pc \in {"abort", "aborting"} => verdict[t] \in {"untouched", "rejected"}
    /\ xfer[t].pc = "waiting" => /\ xfer[t].asked.op = "write"
                                 /\ xfer[t].asked.index = xfer[t].index

(* A push that has asked for nothing, or has had its answer, has nothing   *)
(* on the way; it aborts once, when it has failed.                         *)
StillUnsent(t) ==
    /\ xfer[t].pc \in {"unused", "idle"} => parts[t] = Absent
    /\ xfer[t].pc \in {"unused", "idle", "ready"} =>
          OnWire(t, "write") = {} /\ ~Taken(t)
    /\ xfer[t].pc \in {"unused", "idle", "ready", "waiting", "abort"} =>
          OnWire(t, "abort") = {}

(* One chunk at most is on the way, the one the push is at, ahead of any   *)
(* abort; if it is the last, its fate is open for the caller too.          *)
OnItsWay(t) ==
    \A i \in OnWire(t, "write") :
        /\ xfer[t].pc \in {"waiting", "abort", "aborting", "done"}
        /\ wireToAgent[i].index = xfer[t].index
        /\ xfer[t].pc = "waiting" => xfer[t].asked = wireToAgent[i] /\ answer[t] = {}
        /\ IsLast(t) => xfer[t].pc = "waiting" \/ verdict[t] = "unknown"
        /\ ~Taken(t)
        /\ \A j \in OnWire(t, "write") : i = j
        /\ \A j \in OnWire(t, "abort") : i < j

(* The last chunk is put in place once, as staged, and from then on the    *)
(* caller is not told that nothing happened.                               *)
TakenOnce(t) ==
    /\ \A k, l \in Finishing(t) : k = l
    /\ \A k \in Finishing(t) :
          IF k.stage = "swap"
          THEN t \notin swapped /\ parts[t] \in {Absent, Content(t)}
          ELSE t \in swapped /\ parts[t] = Absent
    /\ Taken(t) =>
          /\ IsLast(t) /\ verdict[t] # "untouched"
          /\ \/ verdict[t] = "rejected"
             \/ xfer[t].pc = "waiting" /\ \E reply \in answer[t] : ~reply.ok
             => t \in spoiled

(* The answer to the last chunk comes after the swap.                      *)
RightlyAnswered(t) ==
    /\ xfer[t].pc = "waiting" /\ IsLast(t) =>
          \A reply \in answer[t] : reply.ok =>
              parts[t] = Absent /\ (reply.data = Content(t) => t \in confirmed)
    /\ verdict[t] = "ok" => t \in confirmed

(* A push that has ended leaves no sidecar that could be removed, or its   *)
(* abort is on the way.                                                    *)
Tidy(t) ==
    xfer[t].pc \in {"aborting", "done"} =>
        \/ verdict[t] = "unknown" \/ t \in unheard \cup pinned
        \/ OnWire(t, "abort") # {}
        \/ OnWire(t, "write") = {} /\ parts[t] = Absent

PushInv(t) ==
    Place(t) /\ StillUnsent(t) /\ OnItsWay(t) /\ TakenOnce(t) /\ RightlyAnswered(t) /\ Tidy(t)

(* A pull compares what it has read with a hash of a whole file.           *)
PullInv(t) ==
    /\ parts[t] = Absent
    /\ xfer[t].pc \notin {"abort", "aborting"}
    /\ xfer[t].asked.op \in {"none", "stat", "read"}
    /\ xfer[t].pc = "waiting" /\ xfer[t].asked.op = "stat" =>
          \A reply \in answer[t] : reply.ok => reply.data \in Whole
    /\ xfer[t].asked.op = "read" \/ (xfer[t].asked.op = "stat" /\ xfer[t].pc = "ready") =>
          xfer[t].hash \in Whole \ {Absent}
    /\ xfer[t].pc = "write" \/ verdict[t] = "ok" => xfer[t].data \in Whole \ {Absent}
    /\ verdict[t] = "ok" => xfer[t].pc = "done"
    /\ xfer[t].pc = "idle" => xfer[t].asked = NoRequest

TransferInv ==
    /\ FilesRange /\ HandlersRange /\ WireRange
    /\ \A t \in Transfers : IF Pushing(t) THEN PushInv(t) ELSE PullInv(t)

-----------------------------------------------------------------------------
(* The data, and the wire.                                                 *)

LEMMA DataFacts ==
    /\ \A c \in Contents : /\ Content(c) \in Whole /\ Content(c) \in Seq(Pieces)
                           /\ FirstOf(c) \in Seq(Pieces)
                           /\ TotalChunks(c) \in Nat \ {0}
    /\ Absent \in Whole /\ Absent \in Seq(Pieces) /\ <<>> \in Seq(Pieces)
    /\ Whole \subseteq Seq(Pieces)
    /\ \A d \in Seq(Pieces) : Len(d) \in Nat
<1>1. \A c \in Contents : Chunks[c] \in Nat
  BY TransferAssumption DEF TransferAssumption, Contents
<1>2. \A c \in Contents : Content(c) \in Seq(Pieces)
  BY <1>1 DEF Content, Pieces
<1>3. \A c \in Contents : FirstOf(c) \in Seq(Pieces)
  BY <1>1 DEF FirstOf, Pieces
<1>4. Absent \in Seq(Pieces)
  BY DEF Absent, Pieces
<1> QED BY <1>1, <1>2, <1>3, <1>4 DEF Whole, TotalChunks

LEMMA ChunkAtType ==
    ASSUME remote \in Whole, NEW i
    PROVE  ChunkAt(i) \in Seq(Pieces) /\ Len(remote) \in Nat
<1>1. remote \in Seq(Pieces)
  BY DataFacts
<1>2. \A j \in DOMAIN remote : remote[j] \in Pieces
  BY <1>1
<1> QED BY <1>1, <1>2 DEF ChunkAt

LEMMA WireAppends ==
    ASSUME WireRange, NEW r \in Requests, wireToAgent' = Append(wireToAgent, r)
    PROVE  /\ wireToAgent' \in Seq(Requests)
           /\ Len(wireToAgent') = Len(wireToAgent) + 1
           /\ \A i \in 1 .. Len(wireToAgent) : wireToAgent'[i] = wireToAgent[i]
           /\ wireToAgent'[Len(wireToAgent) + 1] = r
BY DEF WireRange

LEMMA WireTails ==
    ASSUME WireRange, wireToAgent # <<>>, wireToAgent' = Tail(wireToAgent)
    PROVE  /\ wireToAgent' \in Seq(Requests)
           /\ Len(wireToAgent') = Len(wireToAgent) - 1
           /\ \A i \in 1 .. Len(wireToAgent') : wireToAgent'[i] = wireToAgent[i + 1]
           /\ Head(wireToAgent) = wireToAgent[1] /\ Head(wireToAgent) \in Requests
           /\ Len(wireToAgent) \in Nat \ {0}
BY DEF WireRange

(* The requests of one transfer after a step, in their places.             *)
WireShifts(t, s) ==
    \A op \in Ops :
        /\ \A i \in OnWire(t, op)' :
              i + s \in OnWire(t, op) /\ wireToAgent'[i] = wireToAgent[i + s]
        /\ \A j \in OnWire(t, op) : j - s \in OnWire(t, op)'

LEMMA SentFacts ==
    ASSUME WireRange, NEW t, NEW op
    PROVE  \A i \in OnWire(t, op) : /\ i \in 1 .. Len(wireToAgent) /\ i \in Nat \ {0}
                                  /\ wireToAgent[i] \in Requests
                                  /\ wireToAgent[i].of = t /\ wireToAgent[i].op = op
BY DEF WireRange, OnWire

LEMMA Carried ==
    ASSUME WireRange, NEW t,
           \/ UNCHANGED wireToAgent
           \/ \E r \in Requests : r.of # t /\ wireToAgent' = Append(wireToAgent, r)
           \/ /\ wireToAgent # <<>> /\ wireToAgent' = Tail(wireToAgent)
              /\ Head(wireToAgent).of # t
    PROVE  \E s \in {0, 1} : WireShifts(t, s)
<1>1. CASE UNCHANGED wireToAgent
  <2>1. WireShifts(t, 0)
    BY <1>1, SentFacts DEF WireShifts, OnWire
  <2> QED BY <2>1
<1>2. ASSUME NEW r \in Requests, r.of # t, wireToAgent' = Append(wireToAgent, r)
      PROVE  WireShifts(t, 0)
  <2>1. \A op \in Ops : \A i \in OnWire(t, op)' : i \in OnWire(t, op)
    BY <1>2, WireAppends DEF OnWire, WireRange
  <2>2. \A op \in Ops : \A i \in OnWire(t, op) : i \in OnWire(t, op)'
    BY <1>2, WireAppends DEF OnWire, WireRange
  <2> QED BY <1>2, <2>1, <2>2, WireAppends, SentFacts DEF WireShifts
<1>3. CASE /\ wireToAgent # <<>> /\ wireToAgent' = Tail(wireToAgent)
           /\ Head(wireToAgent).of # t
  <2> DEFINE n == Len(wireToAgent)
             w == wireToAgent'
  <2>0. /\ Len(w) = n - 1 /\ n \in Nat \ {0}
        /\ \A i \in 1 .. Len(w) : w[i] = wireToAgent[i + 1]
        /\ wireToAgent[1].of # t
    BY <1>3, WireTails
  <2> HIDE DEF n, w
  <2>1. \A op \in Ops : \A i \in OnWire(t, op)' :
           i + 1 \in OnWire(t, op) /\ wireToAgent'[i] = wireToAgent[i + 1]
    <3> SUFFICES ASSUME NEW op \in Ops, NEW i \in 1 .. Len(w),
                        w[i].of = t, w[i].op = op
                 PROVE  i + 1 \in OnWire(t, op) /\ w[i] = wireToAgent[i + 1]
      BY DEF OnWire, w
    <3> QED BY <2>0 DEF OnWire, n
  <2>2. \A op \in Ops : \A j \in OnWire(t, op) : j - 1 \in OnWire(t, op)'
    <3> SUFFICES ASSUME NEW op \in Ops, NEW j \in 1 .. n,
                        wireToAgent[j].of = t, wireToAgent[j].op = op
                 PROVE  j - 1 \in 1 .. Len(w) /\ w[j - 1].of = t /\ w[j - 1].op = op
      BY DEF OnWire, w, n
    <3>1. j # 1 /\ j - 1 \in 1 .. Len(w) /\ (j - 1) + 1 = j
      BY <2>0
    <3> QED BY <2>0, <3>1
  <2>3. WireShifts(t, 1)
    BY <2>1, <2>2 DEF WireShifts
  <2> QED BY <2>3
<1> QED BY <1>1, <1>2, <1>3

(* The first request of a transfer is read, or lost.                       *)
LEMMA HeadGone ==
    ASSUME WireRange, NEW t, wireToAgent # <<>>, wireToAgent' = Tail(wireToAgent),
           Head(wireToAgent).of = t
    PROVE  /\ 1 \in OnWire(t, Head(wireToAgent).op)
           /\ \A op \in Ops : \A i \in OnWire(t, op)' :
                 i + 1 \in OnWire(t, op) /\ wireToAgent'[i] = wireToAgent[i + 1]
           /\ \A op \in Ops : op # Head(wireToAgent).op =>
                 \A j \in OnWire(t, op) : j - 1 \in OnWire(t, op)'
<1>1. 1 \in OnWire(t, Head(wireToAgent).op)
  BY WireTails DEF OnWire
<1>2. \A op \in Ops : \A i \in OnWire(t, op)' :
         i + 1 \in OnWire(t, op) /\ wireToAgent'[i] = wireToAgent[i + 1]
  BY WireTails DEF OnWire
<1>3. \A op \in Ops : \A j \in OnWire(t, op) :
         op # Head(wireToAgent).op => j - 1 \in OnWire(t, op)'
  BY WireTails DEF OnWire
<1> QED BY <1>1, <1>2, <1>3

-----------------------------------------------------------------------------
(* A transfer that a step does not concern.                                *)

SameHandler(t) ==
    xfer'[t] = xfer[t] /\ verdict'[t] = verdict[t] /\ answer'[t] = answer[t]

SameFiles(t) ==
    /\ parts'[t] \in {parts[t], Absent}
    /\ t \in swapped' <=> t \in swapped
    /\ confirmed \subseteq confirmed' /\ spoiled \subseteq spoiled'
    /\ unheard \subseteq unheard' /\ (t \in pinned => t \in pinned')
    /\ Finishing(t)' = Finishing(t)

LEMMA PushStays ==
    ASSUME NEW t, PushInv(t), SameHandler(t), SameFiles(t), WireRange,
           NEW s \in {0, 1}, WireShifts(t, s)
    PROVE  PushInv(t)'
<1> USE DEF PushInv, SameHandler, SameFiles
<1>1. /\ OnWire(t, "write") = {} => OnWire(t, "write")' = {}
      /\ OnWire(t, "abort") = {} <=> OnWire(t, "abort")' = {}
  BY DEF WireShifts, Ops
<1>2. Taken(t)' <=> Taken(t)
  BY DEF Taken
<1>3. Place(t)' /\ StillUnsent(t)'
  BY <1>1, <1>2 DEF Place, StillUnsent
<1>4. OnItsWay(t)'
  <2> SUFFICES ASSUME NEW i \in OnWire(t, "write")'
               PROVE  /\ xfer[t].pc \in {"waiting", "abort", "aborting", "done"}
                      /\ wireToAgent'[i].index = xfer[t].index
                      /\ xfer[t].pc = "waiting" =>
                            xfer[t].asked = wireToAgent'[i] /\ answer[t] = {}
                      /\ IsLast(t) => xfer[t].pc = "waiting" \/ verdict[t] = "unknown"
                      /\ ~Taken(t)
                      /\ \A j \in OnWire(t, "write")' : i = j
                      /\ \A j \in OnWire(t, "abort")' : i < j
    BY <1>2 DEF OnItsWay, IsLast
  <2>1. /\ i + s \in OnWire(t, "write") /\ wireToAgent'[i] = wireToAgent[i + s]
        /\ \A j \in OnWire(t, "write")' : j + s \in OnWire(t, "write")
        /\ \A j \in OnWire(t, "abort")' : j + s \in OnWire(t, "abort")
    BY DEF WireShifts, Ops
  <2>2. \A op, j : j \in OnWire(t, op)' => j \in Int
    BY DEF OnWire
  <2>3. /\ xfer[t].pc \in {"waiting", "abort", "aborting", "done"}
        /\ wireToAgent'[i].index = xfer[t].index
        /\ xfer[t].pc = "waiting" =>
              xfer[t].asked = wireToAgent'[i] /\ answer[t] = {}
        /\ IsLast(t) => xfer[t].pc = "waiting" \/ verdict[t] = "unknown"
        /\ ~Taken(t)
    BY <2>1 DEF OnItsWay
  <2>4. ASSUME NEW j \in OnWire(t, "write")' PROVE i = j
    <3>1. i + s = j + s
      BY <2>1 DEF OnItsWay
    <3>2. i \in Int /\ j \in Int /\ s \in Int
      BY <2>2
    <3>3. \A x, y, z \in Int : x + z = y + z => x = y
      OBVIOUS
    <3> QED BY <3>1, <3>2, <3>3
  <2>5. \A j \in OnWire(t, "abort")' : i < j
    BY <2>1, <2>2 DEF OnItsWay
  <2> QED BY <2>3, <2>4, <2>5
<1>5. TakenOnce(t)'
  BY <1>2 DEF TakenOnce, IsLast
<1>6. RightlyAnswered(t)' /\ Tidy(t)'
  BY <1>1 DEF RightlyAnswered, Tidy, IsLast
<1> QED BY <1>3, <1>4, <1>5, <1>6

LEMMA PullStays ==
    ASSUME NEW t, PullInv(t), SameHandler(t), parts'[t] \in {parts[t], Absent}
    PROVE  PullInv(t)'
BY DEF PullInv, SameHandler

LEMMA InitTransferInv == TransferInit => TransferInv
<1> SUFFICES ASSUME TransferInit PROVE TransferInv
  OBVIOUS
<1>1. PICK p \in TransferPlans :
         xfer = [t \in Transfers |-> IF t \in p.pushes \cup p.pulls THEN Idle
                                      ELSE [Idle EXCEPT !.pc = "unused"]]
  BY DEF TransferInit
<1>2. /\ Idle \in Xfers /\ [Idle EXCEPT !.pc = "unused"] \in Xfers
      /\ Idle.pc = "idle" /\ Idle.asked = NoRequest
      /\ [Idle EXCEPT !.pc = "unused"].pc = "unused"
      /\ [Idle EXCEPT !.pc = "unused"].asked = NoRequest
  <2>1. 1 \in 1 .. PullAttempts /\ <<>> \in Seq(Pieces)
    BY DataFacts, TransferAssumption DEF TransferAssumption
  <2>2. NoRequest \in Requests \cup {NoRequest} /\ 0 \in Nat /\ 1 \in Nat \ {0}
    OBVIOUS
  <2>3. \A pc \in Places :
           [pc |-> pc, index |-> 1, attempt |-> 1, asked |-> NoRequest,
            size |-> 0, hash |-> <<>>, data |-> <<>>] \in Xfers
    BY <2>1, <2>2 DEF Xfers
  <2>4. [Idle EXCEPT !.pc = "unused"] =
           [pc |-> "unused", index |-> 1, attempt |-> 1, asked |-> NoRequest,
            size |-> 0, hash |-> <<>>, data |-> <<>>]
    BY DEF Idle
  <2>5. "idle" \in Places /\ "unused" \in Places
    BY DEF Places
  <2> QED BY <2>3, <2>4, <2>5 DEF Idle
<1> HIDE DEF Idle
<1>3. \A t \in Transfers : /\ xfer[t] \in Xfers /\ xfer[t].pc \in {"idle", "unused"}
                           /\ xfer[t].asked = NoRequest
  BY <1>1, <1>2
<1>4. /\ local \in Whole /\ remote \in Whole
      /\ parts = [t \in Transfers |-> Absent]
      /\ channelUp = TRUE /\ wireToAgent = <<>> /\ tasks = {}
      /\ answer = [t \in Transfers |-> {}] /\ recent = FALSE
      /\ verdict = [t \in Transfers |-> "none"]
      /\ swapped = {} /\ confirmed = {} /\ pinned = {} /\ spoiled = {} /\ unheard = {}
  BY DataFacts, TransferAssumption DEF TransferInit, TransferAssumption
<1>5. FilesRange
  BY <1>4, DataFacts DEF FilesRange
<1>6. HandlersRange
  BY <1>1, <1>3, <1>4 DEF HandlersRange, Verdicts
<1>7. WireRange
  BY <1>4 DEF WireRange
<1>8. \A t, op : OnWire(t, op) = {} /\ ~Taken(t) /\ Finishing(t) = {}
  BY <1>4 DEF OnWire, Taken, Finishing
<1>9. ASSUME NEW t \in Transfers PROVE PushInv(t) /\ PullInv(t)
  <2>1. Place(t) /\ StillUnsent(t)
    BY <1>3, <1>4, <1>8 DEF Place, StillUnsent, NoRequest
  <2>2. OnItsWay(t) /\ TakenOnce(t) /\ RightlyAnswered(t) /\ Tidy(t)
    BY <1>3, <1>4, <1>8 DEF OnItsWay, TakenOnce, RightlyAnswered, Tidy
  <2>3. PullInv(t)
    BY <1>3, <1>4 DEF PullInv, NoRequest
  <2> QED BY <2>1, <2>2, <2>3 DEF PushInv
<1> QED BY <1>5, <1>6, <1>7, <1>9 DEF TransferInv

-----------------------------------------------------------------------------
(* Steps of a handler.                                                     *)

(* What a handler leaves alone, and what it may do to the rest.            *)
HandlerMay(t) ==
    /\ xfer' \in [Transfers -> Xfers] /\ verdict' \in [Transfers -> Verdicts]
    /\ \A u \in Transfers \ {t} : xfer'[u] = xfer[u] /\ verdict'[u] = verdict[u]
    /\ answer' \in {answer, [answer EXCEPT ![t] = {}]}
    /\ ~Waiting(t)' => answer'[t] = {}
    /\ local' \in Whole
    /\ UNCHANGED <<remote, recent, parts, swapped, confirmed, pinned, channelUp, tasks, spoiled>>
    /\ unheard \subseteq unheard'

SaysNothing == UNCHANGED wireToAgent

PutsOnWire(t, r) ==
    /\ r \in Requests /\ r.of = t /\ (r.op \in {"write", "abort"} <=> Pushing(t))
    /\ wireToAgent' = Append(wireToAgent, r)

LEMMA HandlerMoves ==
    ASSUME TransferInv, NEW t \in Transfers, HandlerMay(t),
           SaysNothing \/ \E r : PutsOnWire(t, r),
           IF Pushing(t) THEN PushInv(t)' ELSE PullInv(t)'
    PROVE  TransferInv'
<1> USE DEF TransferInv
<1>1. FilesRange'
  BY DEF HandlerMay, FilesRange
<1>2. \A u \in Transfers \ {t} : answer'[u] = answer[u]
  BY DEF HandlerMay, HandlersRange
<1>3. HandlersRange'
  <2>1. answer' \in [Transfers -> SUBSET TransferReplies]
    BY DEF HandlerMay, HandlersRange
  <2>2. ASSUME NEW u \in Transfers
        PROVE  /\ \A a, b \in answer'[u] : a = b
               /\ ~Waiting(u)' => answer'[u] = {}
    <3>1. answer'[u] \in {answer[u], {}}
      BY DEF HandlerMay, HandlersRange
    <3> QED BY <1>2, <3>1 DEF HandlerMay, HandlersRange, Waiting
  <2> QED BY <2>1, <2>2 DEF HandlerMay, HandlersRange
<1>4. WireRange'
  <2>1. CASE SaysNothing
    BY <2>1 DEF WireRange, HandlerMay, SaysNothing
  <2>2. ASSUME NEW r, PutsOnWire(t, r) PROVE WireRange'
    <3> DEFINE n == Len(wireToAgent)
    <3>1. /\ wireToAgent' \in Seq(Requests) /\ Len(wireToAgent') = n + 1
          /\ \A i \in 1 .. n : wireToAgent'[i] = wireToAgent[i]
          /\ wireToAgent'[n + 1] = r /\ n \in Nat
      BY <2>2, WireAppends DEF PutsOnWire, WireRange
    <3> HIDE DEF n
    <3>2. \A i \in 1 .. Len(wireToAgent') :
             wireToAgent'[i].op \in {"write", "abort"} <=> Pushing(wireToAgent'[i].of)
      <4> SUFFICES ASSUME NEW i \in 1 .. n + 1
                   PROVE  wireToAgent'[i].op \in {"write", "abort"}
                             <=> Pushing(wireToAgent'[i].of)
        BY <3>1
      <4>1. CASE i = n + 1
        BY <2>2, <3>1, <4>1 DEF PutsOnWire
      <4>2. CASE i \in 1 .. n
        BY <3>1, <4>2 DEF WireRange, n
      <4> QED BY <4>1, <4>2, <3>1
    <3> QED BY <3>1, <3>2 DEF WireRange, HandlerMay
  <2> QED BY <2>1, <2>2
<1>5. ASSUME NEW u \in Transfers \ {t}
      PROVE  IF Pushing(u) THEN PushInv(u)' ELSE PullInv(u)'
  <2>1. SameHandler(u) /\ SameFiles(u)
    BY <1>2 DEF SameHandler, SameFiles, HandlerMay, Finishing
  <2>2. PICK s \in {0, 1} : WireShifts(u, s)
    BY Carried DEF SaysNothing, PutsOnWire
  <2>3. CASE Pushing(u)
    BY <2>1, <2>2, <2>3, PushStays
  <2>4. CASE ~Pushing(u)
    BY <2>1, <2>4, PullStays DEF SameFiles
  <2> QED BY <2>3, <2>4
<1> QED BY <1>1, <1>3, <1>4, <1>5

(* What a handler writes of itself.                                        *)
LEMMA SetsPlace ==
    ASSUME HandlersRange, NEW t \in Transfers, NEW pc \in Places,
           xfer' = [xfer EXCEPT ![t].pc = pc]
    PROVE  /\ xfer' \in [Transfers -> Xfers]
           /\ \A u \in Transfers \ {t} : xfer'[u] = xfer[u]
           /\ xfer'[t].pc = pc /\ xfer'[t].index = xfer[t].index
           /\ xfer'[t].asked = xfer[t].asked /\ xfer'[t].hash = xfer[t].hash
           /\ xfer'[t].data = xfer[t].data
<1> DEFINE x == [xfer[t] EXCEPT !.pc = pc]
<1>1. xfer[t] \in Xfers
  BY DEF HandlersRange
<1>2. /\ x \in Xfers /\ x.pc = pc /\ x.index = xfer[t].index
      /\ x.asked = xfer[t].asked /\ x.hash = xfer[t].hash /\ x.data = xfer[t].data
  BY <1>1 DEF Xfers
<1>3. xfer' = [xfer EXCEPT ![t] = x]
  OBVIOUS
<1> HIDE DEF x
<1> QED BY <1>2, <1>3 DEF HandlersRange

LEMMA SetsVerdict ==
    ASSUME HandlersRange, NEW t \in Transfers, NEW v \in Verdicts,
           verdict' = [verdict EXCEPT ![t] = v]
    PROVE  /\ verdict' \in [Transfers -> Verdicts]
           /\ \A u \in Transfers \ {t} : verdict'[u] = verdict[u]
           /\ verdict'[t] = v
BY DEF HandlersRange

Asked(t, op) == [of |-> t, op |-> op, index |-> xfer[t].index,
                 attempt |-> xfer[t].attempt]

LEMMA SetsAsked ==
    ASSUME HandlersRange, NEW t \in Transfers, NEW op \in Ops, NEW pc \in Places,
           Asks(t, op, pc)
    PROVE  /\ xfer' \in [Transfers -> Xfers]
           /\ \A u \in Transfers \ {t} : xfer'[u] = xfer[u]
           /\ xfer'[t].pc = pc /\ xfer'[t].asked = Asked(t, op)
           /\ xfer'[t].index = xfer[t].index /\ xfer'[t].hash = xfer[t].hash
           /\ xfer'[t].data = xfer[t].data
           /\ wireToAgent' = Append(wireToAgent, Asked(t, op))
           /\ Asked(t, op) \in Requests
           /\ Asked(t, op).of = t /\ Asked(t, op).op = op
           /\ Asked(t, op).index = xfer[t].index
<1> DEFINE r == Asked(t, op)
           x == [xfer[t] EXCEPT !.pc = pc, !.asked = r]
<1>1. xfer[t] \in Xfers
  BY DEF HandlersRange
<1>2. /\ r \in Requests /\ r.of = t /\ r.op = op /\ r.index = xfer[t].index
  BY <1>1 DEF Xfers, Requests, Asked
<1>3. wireToAgent' = Append(wireToAgent, r) /\ xfer' = [xfer EXCEPT ![t] = x]
  BY DEF Asks, Asked
<1> HIDE DEF r
<1>4. /\ x \in Xfers /\ x.pc = pc /\ x.asked = r /\ x.index = xfer[t].index
      /\ x.hash = xfer[t].hash /\ x.data = xfer[t].data
  BY <1>1, <1>2 DEF Xfers
<1> HIDE DEF x
<1>5. /\ xfer' \in [Transfers -> Xfers] /\ xfer'[t] = x
      /\ \A u \in Transfers \ {t} : xfer'[u] = xfer[u]
  BY <1>3, <1>4 DEF HandlersRange
<1> QED BY <1>2, <1>3, <1>4, <1>5 DEF r

(* What a handler's step leaves of what is on the way.                     *)
LEMMA StillOnTheWay ==
    ASSUME SaysNothing, NEW t
    PROVE  /\ \A op : OnWire(t, op)' = OnWire(t, op)
           /\ wireToAgent' = wireToAgent
BY DEF SaysNothing, OnWire

LEMMA PutOnTheWay ==
    ASSUME WireRange, NEW t, NEW r, PutsOnWire(t, r)
    PROVE  /\ OnWire(t, r.op)' = OnWire(t, r.op) \cup {Len(wireToAgent) + 1}
           /\ \A op : op # r.op => OnWire(t, op)' = OnWire(t, op)
           /\ \A op : \A i \in OnWire(t, op) :
                 i < Len(wireToAgent) + 1 /\ wireToAgent'[i] = wireToAgent[i]
           /\ wireToAgent'[Len(wireToAgent) + 1] = r
<1> DEFINE n == Len(wireToAgent)
           w == wireToAgent'
<1>1. /\ Len(w) = n + 1 /\ n \in Nat /\ w[n + 1] = r /\ r.of = t
      /\ \A i \in 1 .. n : w[i] = wireToAgent[i]
  BY WireAppends DEF PutsOnWire, WireRange
<1>2. \A op : OnWire(t, op) = {i \in 1 .. n : wireToAgent[i].of = t /\ wireToAgent[i].op = op}
  BY DEF OnWire
<1>3. \A op : OnWire(t, op)' = {i \in 1 .. Len(w) : w[i].of = t /\ w[i].op = op}
  BY DEF OnWire
<1> HIDE DEF n, w
<1>4. 1 .. Len(w) = (1 .. n) \cup {n + 1}
  BY <1>1
<1>5. \A op : OnWire(t, op)' = OnWire(t, op) \cup (IF r.op = op THEN {n + 1} ELSE {})
  BY <1>1, <1>2, <1>3, <1>4
<1>6. \A op : \A i \in OnWire(t, op) : i < n + 1 /\ w[i] = wireToAgent[i]
  BY <1>1, <1>2
<1>7. OnWire(t, r.op)' = OnWire(t, r.op) \cup {n + 1}
  BY <1>5
<1>8. ASSUME NEW op, op # r.op PROVE OnWire(t, op)' = OnWire(t, op)
  <2>1. OnWire(t, op)' = OnWire(t, op) \cup {}
    BY <1>5, <1>8
  <2> QED BY <2>1
<1> QED BY <1>1, <1>6, <1>7, <1>8 DEF n, w

-----------------------------------------------------------------------------
(* The handler of a push.                                                  *)

(* A push that ends without having asked for anything more.                *)
LEMMA PushMoves ==
    ASSUME TransferInv, NEW t \in Transfers, Pushing(t), HandlerMay(t),
           SaysNothing, xfer'[t].index = xfer[t].index,
           xfer'[t].asked = xfer[t].asked,
           xfer'[t].pc \in {"ready", "abort", "done"},
           xfer[t].pc \in {"idle", "ready", "waiting", "abort", "aborting"},
           xfer'[t].pc = "ready" => xfer[t].pc = "idle" /\ verdict'[t] = "none",
           xfer'[t].pc = "abort" =>
              /\ xfer[t].pc \in {"ready", "waiting"}
              /\ verdict'[t] \in {"untouched", "rejected"},
           xfer[t].pc = "idle" => verdict'[t] \in {"none", "failed"},
           \* what is said of the destination
           xfer[t].pc = "waiting" /\ verdict'[t] = "untouched" => ~IsLast(t),
           xfer[t].pc = "waiting" /\ verdict'[t] = "rejected" =>
              IsLast(t) /\ \E reply \in answer[t] : ~reply.ok,
           xfer[t].pc = "waiting" /\ xfer'[t].pc = "done" =>
              \/ verdict'[t] = "unknown"
              \/ /\ IsLast(t) /\ verdict'[t] \in {"ok", "unverified"}
                 /\ \E reply \in answer[t] :
                       reply.ok /\ (verdict'[t] = "ok" => reply.data = Content(t)),
           xfer[t].pc = "ready" => xfer'[t].pc = "abort",
           xfer[t].pc \in {"abort", "aborting"} => verdict'[t] = verdict[t],
           xfer[t].pc = "abort" => t \in unheard'
    PROVE  TransferInv'
<1> DEFINE before == xfer[t].pc
           after == xfer'[t].pc
<1>1. /\ PushInv(t) /\ WireRange
      /\ UNCHANGED <<parts, swapped, confirmed, pinned, tasks, spoiled>>
      /\ unheard \subseteq unheard' /\ (~Waiting(t)' => answer'[t] = {})
  BY DEF TransferInv, HandlerMay
<1>2. /\ OnWire(t, "write")' = OnWire(t, "write") /\ OnWire(t, "abort")' = OnWire(t, "abort")
      /\ wireToAgent' = wireToAgent
  BY StillOnTheWay
<1>3. (Taken(t)' <=> Taken(t)) /\ Finishing(t)' = Finishing(t) /\ IsLast(t)' = IsLast(t)
  BY <1>1 DEF Taken, Finishing, IsLast
<1>4. Place(t)'
  BY <1>1 DEF PushInv, Place
<1>5. StillUnsent(t)'
  BY <1>1, <1>2, <1>3 DEF PushInv, StillUnsent
<1>6. OnItsWay(t)'
  BY <1>1, <1>2, <1>3 DEF PushInv, OnItsWay, StillUnsent
<1>7. TakenOnce(t)'
  BY <1>1, <1>2, <1>3 DEF PushInv, TakenOnce, StillUnsent
<1>8. RightlyAnswered(t)'
  BY <1>1, <1>3 DEF PushInv, RightlyAnswered, Place
<1>9. Tidy(t)'
  <2> SUFFICES ASSUME after = "done"
               PROVE  \/ verdict'[t] = "unknown" \/ t \in unheard' \cup pinned
                      \/ OnWire(t, "abort") # {}
                      \/ OnWire(t, "write") = {} /\ parts[t] = Absent
    BY <1>1, <1>2 DEF Tidy
  <2>1. CASE before = "idle"
    BY <1>1, <2>1 DEF PushInv, StillUnsent
  <2>2. CASE before = "waiting"
    BY <1>1, <2>2 DEF PushInv, OnItsWay, RightlyAnswered
  <2>3. CASE before = "aborting"
    BY <1>1, <2>3 DEF PushInv, Tidy
  <2> QED BY <2>1, <2>2, <2>3
<1>10. PushInv(t)'
  BY <1>4, <1>5, <1>6, <1>7, <1>8, <1>9 DEF PushInv
<1> QED BY <1>10, HandlerMoves

(* A push that asks.                                                       *)
LEMMA PushSays ==
    ASSUME TransferInv, NEW t \in Transfers, Pushing(t), HandlerMay(t),
           NEW r, PutsOnWire(t, r), r.index = xfer[t].index,
           xfer'[t].index = xfer[t].index, xfer'[t].asked = r,
           UNCHANGED <<verdict, answer>>,
           \/ xfer[t].pc = "ready" /\ xfer'[t].pc = "waiting" /\ r.op = "write"
           \/ xfer[t].pc = "abort" /\ xfer'[t].pc = "aborting" /\ r.op = "abort"
    PROVE  TransferInv'
<1> DEFINE before == xfer[t].pc
           after == xfer'[t].pc
           n == Len(wireToAgent) + 1
<1>1. /\ PushInv(t) /\ WireRange
      /\ UNCHANGED <<parts, swapped, confirmed, pinned, tasks, spoiled>>
      /\ unheard \subseteq unheard'
  BY DEF TransferInv, HandlerMay
<1>2. /\ OnWire(t, r.op)' = OnWire(t, r.op) \cup {n}
      /\ \A op : op # r.op => OnWire(t, op)' = OnWire(t, op)
      /\ \A op : \A i \in OnWire(t, op) : i < n /\ wireToAgent'[i] = wireToAgent[i]
      /\ wireToAgent'[n] = r
  BY <1>1, PutOnTheWay
<1> HIDE DEF n
<1>3. (Taken(t)' <=> Taken(t)) /\ Finishing(t)' = Finishing(t) /\ IsLast(t)' = IsLast(t)
  BY <1>1 DEF Taken, Finishing, IsLast
<1>4. answer[t] = {}
  BY DEF TransferInv, HandlersRange, Waiting
<1>5. CASE before = "ready"
  <2>1. /\ after = "waiting" /\ r.op = "write"
        /\ OnWire(t, "write") = {} /\ OnWire(t, "abort") = {} /\ ~Taken(t)
        /\ verdict[t] = "none"
    BY <1>1, <1>5 DEF PushInv, StillUnsent, Place
  <2>2. OnWire(t, "write")' = {n} /\ OnWire(t, "abort")' = {}
    BY <1>2, <2>1
  <2>3. Place(t)' /\ StillUnsent(t)'
    BY <2>1, <2>2 DEF Place, StillUnsent
  <2>4. OnItsWay(t)'
    BY <1>2, <1>3, <1>4, <2>1, <2>2 DEF OnItsWay
  <2>5. TakenOnce(t)'
    BY <1>1, <1>3, <2>1 DEF PushInv, TakenOnce
  <2>6. RightlyAnswered(t)' /\ Tidy(t)'
    BY <1>4, <2>1 DEF RightlyAnswered, Tidy
  <2>7. PushInv(t)'
    BY <2>3, <2>4, <2>5, <2>6 DEF PushInv
  <2> QED BY <2>7, HandlerMoves
<1>6. CASE before = "abort"
  <2>1. /\ after = "aborting" /\ r.op = "abort"
        /\ OnWire(t, "abort") = {} /\ verdict[t] \in {"untouched", "rejected"}
    BY <1>1, <1>6 DEF PushInv, StillUnsent, Place
  <2>2. OnWire(t, "write")' = OnWire(t, "write") /\ OnWire(t, "abort")' = {n}
    BY <1>2, <2>1
  <2>3. Place(t)' /\ StillUnsent(t)'
    BY <2>1, <2>2 DEF Place, StillUnsent
  <2>4. OnItsWay(t)'
    BY <1>1, <1>2, <1>3, <1>6, <2>1, <2>2 DEF OnItsWay, PushInv
  <2>5. TakenOnce(t)'
    BY <1>1, <1>3, <1>6, <2>1 DEF PushInv, TakenOnce
  <2>6. RightlyAnswered(t)' /\ Tidy(t)'
    BY <2>1, <2>2 DEF RightlyAnswered, Tidy
  <2>7. PushInv(t)'
    BY <2>3, <2>4, <2>5, <2>6 DEF PushInv
  <2> QED BY <2>7, HandlerMoves
<1> QED BY <1>5, <1>6

(* push_failure_advice and what follows.                                   *)
LEMMA PushFailsFacts ==
    ASSUME HandlersRange, NEW t \in Transfers, NEW indeterminate \in BOOLEAN,
           PushFails(t, indeterminate)
    PROVE  /\ xfer' \in [Transfers -> Xfers] /\ verdict' \in [Transfers -> Verdicts]
           /\ \A u \in Transfers \ {t} : xfer'[u] = xfer[u] /\ verdict'[u] = verdict[u]
           /\ xfer'[t].index = xfer[t].index /\ xfer'[t].asked = xfer[t].asked
           /\ IF IsLast(t) /\ indeterminate
              THEN xfer'[t].pc = "done" /\ verdict'[t] = "unknown"
              ELSE /\ xfer'[t].pc = "abort"
                   /\ verdict'[t] = IF IsLast(t) THEN "rejected" ELSE "untouched"
<1> DEFINE pc == IF IsLast(t) /\ indeterminate THEN "done" ELSE "abort"
           v == PushAdvice(IsLast(t), indeterminate)
<1>1. pc \in Places /\ v \in Verdicts
  BY DEF Places, Verdicts, PushAdvice
<1>2. xfer' = [xfer EXCEPT ![t].pc = pc] /\ verdict' = [verdict EXCEPT ![t] = v]
  BY DEF PushFails
<1>3. v = IF ~IsLast(t) THEN "untouched" ELSE IF indeterminate THEN "unknown" ELSE "rejected"
  BY DEF PushAdvice
<1> HIDE DEF pc, v
<1>4. /\ xfer' \in [Transfers -> Xfers]
      /\ \A u \in Transfers \ {t} : xfer'[u] = xfer[u]
      /\ xfer'[t].pc = pc /\ xfer'[t].index = xfer[t].index
      /\ xfer'[t].asked = xfer[t].asked
  BY <1>1, <1>2, SetsPlace
<1>5. /\ verdict' \in [Transfers -> Verdicts] /\ verdict'[t] = v
      /\ \A u \in Transfers \ {t} : verdict'[u] = verdict[u]
  BY <1>1, <1>2, SetsVerdict
<1> QED BY <1>3, <1>4, <1>5 DEF pc

LEMMA EndsFacts ==
    ASSUME HandlersRange, NEW t \in Transfers, NEW v \in Verdicts, Ends(t, v)
    PROVE  /\ xfer' \in [Transfers -> Xfers] /\ verdict' \in [Transfers -> Verdicts]
           /\ \A u \in Transfers \ {t} : xfer'[u] = xfer[u] /\ verdict'[u] = verdict[u]
           /\ xfer'[t].pc = "done" /\ xfer'[t].index = xfer[t].index
           /\ xfer'[t].asked = xfer[t].asked /\ xfer'[t].hash = xfer[t].hash
           /\ xfer'[t].data = xfer[t].data /\ verdict'[t] = v
<1>1. "done" \in Places
  BY DEF Places
<1> QED BY <1>1, SetsPlace, SetsVerdict DEF Ends

LEMMA FilesRest ==
    ASSUME UNCHANGED filesVars
    PROVE  UNCHANGED <<remote, recent, parts, swapped, confirmed, pinned>>
BY DEF filesVars

LEMMA ChannelRests ==
    ASSUME UNCHANGED channelVars
    PROVE  UNCHANGED <<channelUp, wireToAgent, tasks, spoiled, unheard>>
BY DEF channelVars

LEMMA NoAnswerYet ==
    ASSUME TransferInv, NEW t \in Transfers
    PROVE  /\ HandlersRange /\ local \in Whole
           /\ ~Waiting(t) => answer[t] = {}
           /\ [answer EXCEPT ![t] = {}][t] = {}
BY DEF TransferInv, HandlersRange, FilesRange

LEMMA TransferBeginsKeeps ==
    ASSUME TransferInv, NEW t \in Transfers, TransferBegins(t)
    PROVE  TransferInv'
<1>1. /\ xfer[t].pc = "idle"
      /\ UNCHANGED <<remote, recent, parts, swapped, confirmed, pinned, channelUp, wireToAgent,
                     tasks, spoiled, unheard, local, answer>>
  BY FilesRest, ChannelRests DEF TransferBegins
<1>2. /\ HandlersRange /\ local \in Whole /\ answer[t] = {} /\ verdict[t] \in Verdicts
      /\ verdict \in [Transfers -> Verdicts]
  BY <1>1, NoAnswerYet DEF Waiting, HandlersRange
<1>3. /\ xfer' \in [Transfers -> Xfers] /\ verdict' \in [Transfers -> Verdicts]
      /\ \A u \in Transfers \ {t} : xfer'[u] = xfer[u] /\ verdict'[u] = verdict[u]
      /\ xfer'[t].index = xfer[t].index /\ xfer'[t].asked = xfer[t].asked
      /\ \/ xfer'[t].pc = "ready" /\ verdict'[t] = verdict[t]
         \/ xfer'[t].pc = "done" /\ verdict'[t] = "failed"
  <2>1. CASE xfer' = [xfer EXCEPT ![t].pc = "ready"] /\ UNCHANGED verdict
    <3>1. "ready" \in Places
      BY DEF Places
    <3> QED BY <1>2, <2>1, <3>1, SetsPlace
  <2>2. CASE Ends(t, "failed")
    <3>1. "failed" \in Verdicts
      BY DEF Verdicts
    <3> QED BY <1>2, <2>2, <3>1, EndsFacts
  <2> QED BY <2>1, <2>2 DEF TransferBegins
<1>4. HandlerMay(t)
  BY <1>1, <1>2, <1>3 DEF HandlerMay
<1>5. CASE Pushing(t)
  <2>1. verdict[t] = "none"
    BY <1>1, <1>5 DEF TransferInv, PushInv, Place
  <2> QED BY <1>1, <1>2, <1>3, <1>4, <1>5, <2>1, PushMoves DEF SaysNothing
<1>6. CASE ~Pushing(t)
  <2>1. PullInv(t)'
    BY <1>1, <1>2, <1>3, <1>6 DEF TransferInv, PullInv, NoRequest
  <2> QED BY <1>1, <1>4, <1>6, <2>1, HandlerMoves DEF SaysNothing
<1> QED BY <1>5, <1>6

LEMMA PushAsksKeeps ==
    ASSUME TransferInv, NEW t \in Transfers, PushAsks(t)
    PROVE  TransferInv'
<1>1. /\ xfer[t].pc = "ready" /\ Pushing(t)
      /\ UNCHANGED <<remote, recent, parts, swapped, confirmed, pinned, channelUp,
                     tasks, spoiled, unheard, local, answer>>
  BY FilesRest DEF PushAsks
<1>2. /\ HandlersRange /\ local \in Whole /\ answer[t] = {}
      /\ verdict \in [Transfers -> Verdicts]
  BY <1>1, NoAnswerYet DEF Waiting, HandlersRange
<1>3. CASE Asks(t, "write", "waiting") /\ UNCHANGED verdict
  <2> DEFINE r == Asked(t, "write")
  <2>1. "write" \in Ops /\ "waiting" \in Places
    BY DEF Ops, Places
  <2>2. /\ xfer' \in [Transfers -> Xfers]
        /\ \A u \in Transfers \ {t} : xfer'[u] = xfer[u]
        /\ xfer'[t].pc = "waiting" /\ xfer'[t].asked = r
        /\ xfer'[t].index = xfer[t].index
        /\ wireToAgent' = Append(wireToAgent, r)
        /\ r \in Requests /\ r.of = t /\ r.op = "write" /\ r.index = xfer[t].index
    BY <1>2, <1>3, <2>1, SetsAsked
  <2> HIDE DEF r
  <2>3. HandlerMay(t) /\ PutsOnWire(t, r)
    BY <1>1, <1>2, <1>3, <2>2 DEF HandlerMay, PutsOnWire
  <2> QED BY <1>1, <1>3, <2>2, <2>3, PushSays
<1>4. CASE PushFails(t, FALSE) /\ UNCHANGED wireToAgent
  <2>1. /\ xfer' \in [Transfers -> Xfers] /\ verdict' \in [Transfers -> Verdicts]
        /\ \A u \in Transfers \ {t} : xfer'[u] = xfer[u] /\ verdict'[u] = verdict[u]
        /\ xfer'[t].index = xfer[t].index /\ xfer'[t].asked = xfer[t].asked
        /\ xfer'[t].pc = "abort" /\ verdict'[t] \in {"rejected", "untouched"}
    BY <1>2, <1>4, PushFailsFacts
  <2>2. HandlerMay(t)
    BY <1>1, <1>2, <2>1 DEF HandlerMay
  <2> QED BY <1>1, <1>4, <2>1, <2>2, PushMoves DEF SaysNothing
<1> QED BY <1>3, <1>4 DEF PushAsks

LEMMA PushRunsOutKeeps ==
    ASSUME TransferInv, NEW t \in Transfers, PushRunsOut(t)
    PROVE  TransferInv'
<1>1. /\ xfer[t].pc = "ready" /\ Pushing(t)
      /\ UNCHANGED <<remote, recent, parts, swapped, confirmed, pinned, channelUp, wireToAgent,
                     tasks, spoiled, unheard, local, answer>>
  BY FilesRest, ChannelRests DEF PushRunsOut
<1>2. HandlersRange /\ local \in Whole /\ answer[t] = {}
  BY <1>1, NoAnswerYet DEF Waiting
<1>3. /\ xfer' \in [Transfers -> Xfers]
      /\ \A u \in Transfers \ {t} : xfer'[u] = xfer[u]
      /\ xfer'[t].pc = "abort" /\ xfer'[t].index = xfer[t].index
      /\ xfer'[t].asked = xfer[t].asked
  <2>1. "abort" \in Places
    BY DEF Places
  <2> QED BY <1>2, <2>1, SetsPlace DEF PushRunsOut
<1>4. /\ verdict' \in [Transfers -> Verdicts] /\ verdict'[t] = "untouched"
      /\ \A u \in Transfers \ {t} : verdict'[u] = verdict[u]
  <2>1. "untouched" \in Verdicts
    BY DEF Verdicts
  <2> QED BY <1>2, <2>1, SetsVerdict DEF PushRunsOut
<1>5. HandlerMay(t)
  BY <1>1, <1>2, <1>3, <1>4 DEF HandlerMay
<1> QED BY <1>1, <1>3, <1>4, <1>5, PushMoves DEF SaysNothing

LEMMA PushAnsweredKeeps ==
    ASSUME TransferInv, NEW t \in Transfers, PushAnswered(t)
    PROVE  TransferInv'
<1>1. /\ xfer[t].pc = "waiting" /\ Pushing(t)
      /\ UNCHANGED <<remote, recent, parts, swapped, confirmed, pinned, channelUp, wireToAgent,
                     tasks, spoiled, unheard, local>>
      /\ answer' = [answer EXCEPT ![t] = {}]
  BY FilesRest, ChannelRests DEF PushAnswered
<1>2. /\ HandlersRange /\ local \in Whole /\ answer'[t] = {}
      /\ verdict \in [Transfers -> Verdicts]
  BY <1>1, NoAnswerYet DEF HandlersRange
<1>3. verdict[t] = "none"
  BY <1>1 DEF TransferInv, PushInv, Place
<1>4. PICK reply \in answer[t] :
         IF ~reply.ok THEN PushFails(t, FALSE)
         ELSE IF ~IsLast(t)
         THEN xfer' = [xfer EXCEPT ![t].pc = "ready", ![t].index = @ + 1] /\ UNCHANGED verdict
         ELSE Ends(t, IF VerifyPush(t, reply) THEN "ok" ELSE "unverified")
  BY DEF PushAnswered
<1>5. CASE ~reply.ok
  <2>1. /\ xfer' \in [Transfers -> Xfers] /\ verdict' \in [Transfers -> Verdicts]
        /\ \A u \in Transfers \ {t} : xfer'[u] = xfer[u] /\ verdict'[u] = verdict[u]
        /\ xfer'[t].index = xfer[t].index /\ xfer'[t].asked = xfer[t].asked
        /\ xfer'[t].pc = "abort"
        /\ verdict'[t] = IF IsLast(t) THEN "rejected" ELSE "untouched"
    BY <1>2, <1>4, <1>5, PushFailsFacts
  <2>2. HandlerMay(t)
    BY <1>1, <1>2, <2>1 DEF HandlerMay
  <2> QED BY <1>1, <1>4, <1>5, <2>1, <2>2, PushMoves DEF SaysNothing
<1>6. CASE reply.ok /\ IsLast(t)
  <2> DEFINE v == IF VerifyPush(t, reply) THEN "ok" ELSE "unverified"
  <2>1. v \in Verdicts /\ v \in {"ok", "unverified"} /\ (v = "ok" => reply.data = Content(t))
    BY DEF Verdicts, VerifyPush
  <2>2. Ends(t, v)
    BY <1>4, <1>6
  <2> HIDE DEF v
  <2>3. /\ xfer' \in [Transfers -> Xfers] /\ verdict' \in [Transfers -> Verdicts]
        /\ \A u \in Transfers \ {t} : xfer'[u] = xfer[u] /\ verdict'[u] = verdict[u]
        /\ xfer'[t].index = xfer[t].index /\ xfer'[t].asked = xfer[t].asked
        /\ xfer'[t].pc = "done" /\ verdict'[t] = v
    BY <1>2, <2>1, <2>2, EndsFacts
  <2>4. HandlerMay(t)
    BY <1>1, <1>2, <2>3 DEF HandlerMay
  <2>5. \E a \in answer[t] : a.ok /\ (verdict'[t] = "ok" => a.data = Content(t))
    BY <1>6, <2>1, <2>3
  <2> QED BY <1>1, <1>6, <2>1, <2>3, <2>4, <2>5, PushMoves DEF SaysNothing
<1>7. CASE reply.ok /\ ~IsLast(t)
  <2> DEFINE x == [xfer[t] EXCEPT !.pc = "ready", !.index = @ + 1]
  <2>1. xfer[t] \in Xfers
    BY <1>2 DEF HandlersRange
  <2>2. xfer' = [xfer EXCEPT ![t] = x] /\ UNCHANGED verdict
    BY <1>4, <1>7
  <2>3. x \in Xfers /\ x.pc = "ready" /\ x.asked = xfer[t].asked
    <3>1. "ready" \in Places /\ xfer[t].index + 1 \in Nat \ {0}
      BY <2>1 DEF Places, Xfers
    <3> QED BY <2>1, <3>1 DEF Xfers
  <2> HIDE DEF x
  <2>4. /\ xfer' \in [Transfers -> Xfers] /\ xfer'[t] = x
        /\ \A u \in Transfers \ {t} : xfer'[u] = xfer[u]
    BY <1>2, <2>2, <2>3 DEF HandlersRange
  <2>5. HandlerMay(t)
    BY <1>1, <1>2, <2>2, <2>3, <2>4 DEF HandlerMay
  <2>6. PushInv(t) /\ UNCHANGED <<parts, swapped, confirmed, tasks, spoiled, unheard>>
    BY <1>1 DEF TransferInv
  <2>7. /\ OnWire(t, "write") = {} /\ OnWire(t, "write")' = {}
        /\ OnWire(t, "abort") = {} /\ OnWire(t, "abort")' = {}
    <3>1. OnWire(t, "write") = {} /\ OnWire(t, "abort") = {}
      BY <1>1, <1>4, <2>6 DEF PushInv, OnItsWay, StillUnsent
    <3> QED BY <1>1, <3>1, StillOnTheWay DEF SaysNothing
  <2>8. ~Taken(t) /\ ~Taken(t)' /\ Finishing(t) = {} /\ Finishing(t)' = {}
    BY <1>7, <2>6 DEF PushInv, TakenOnce, Taken, Finishing
  <2>9. Place(t)' /\ StillUnsent(t)' /\ OnItsWay(t)' /\ TakenOnce(t)' /\ RightlyAnswered(t)' /\ Tidy(t)'
    BY <1>3, <2>2, <2>3, <2>4, <2>6, <2>7, <2>8
       DEF PushInv, Place, StillUnsent, OnItsWay, TakenOnce, RightlyAnswered, Tidy
  <2> QED BY <1>1, <2>5, <2>9, HandlerMoves DEF PushInv, SaysNothing
<1> QED BY <1>5, <1>6, <1>7

LEMMA PushTimesOutKeeps ==
    ASSUME TransferInv, NEW t \in Transfers, PushTimesOut(t)
    PROVE  TransferInv'
<1>1. /\ xfer[t].pc = "waiting" /\ Pushing(t) /\ answer[t] = {}
      /\ UNCHANGED <<remote, recent, parts, swapped, confirmed, pinned, channelUp, wireToAgent,
                     tasks, spoiled, unheard, local, answer>>
  BY FilesRest, ChannelRests DEF PushTimesOut
<1>2. HandlersRange /\ local \in Whole
  BY NoAnswerYet
<1>3. /\ xfer' \in [Transfers -> Xfers] /\ verdict' \in [Transfers -> Verdicts]
      /\ \A u \in Transfers \ {t} : xfer'[u] = xfer[u] /\ verdict'[u] = verdict[u]
      /\ xfer'[t].index = xfer[t].index /\ xfer'[t].asked = xfer[t].asked
      /\ IF IsLast(t)
         THEN xfer'[t].pc = "done" /\ verdict'[t] = "unknown"
         ELSE xfer'[t].pc = "abort" /\ verdict'[t] = "untouched"
  BY <1>2, PushFailsFacts DEF PushTimesOut
<1>4. HandlerMay(t)
  BY <1>1, <1>2, <1>3 DEF HandlerMay
<1> QED BY <1>1, <1>3, <1>4, PushMoves DEF SaysNothing

LEMMA PushAbortsKeeps ==
    ASSUME TransferInv, NEW t \in Transfers, PushAborts(t)
    PROVE  TransferInv'
<1>1. /\ xfer[t].pc = "abort"
      /\ UNCHANGED <<remote, recent, parts, swapped, confirmed, pinned, channelUp,
                     tasks, spoiled, local, answer, verdict>>
  BY FilesRest DEF PushAborts
<1>2. /\ HandlersRange /\ local \in Whole /\ answer[t] = {}
      /\ verdict \in [Transfers -> Verdicts]
  BY <1>1, NoAnswerYet DEF Waiting, HandlersRange
<1>3. Pushing(t) /\ verdict[t] \in {"untouched", "rejected"}
  BY <1>1 DEF TransferInv, PullInv, PushInv, Place
<1>4. CASE Asks(t, "abort", "aborting") /\ UNCHANGED unheard
  <2> DEFINE r == Asked(t, "abort")
  <2>1. "abort" \in Ops /\ "aborting" \in Places
    BY DEF Ops, Places
  <2>2. /\ xfer' \in [Transfers -> Xfers]
        /\ \A u \in Transfers \ {t} : xfer'[u] = xfer[u]
        /\ xfer'[t].pc = "aborting" /\ xfer'[t].asked = r
        /\ xfer'[t].index = xfer[t].index
        /\ wireToAgent' = Append(wireToAgent, r)
        /\ r \in Requests /\ r.of = t /\ r.op = "abort" /\ r.index = xfer[t].index
    BY <1>2, <1>4, <2>1, SetsAsked
  <2> HIDE DEF r
  <2>3. HandlerMay(t) /\ PutsOnWire(t, r)
    BY <1>1, <1>2, <1>3, <1>4, <2>2 DEF HandlerMay, PutsOnWire
  <2> QED BY <1>1, <1>3, <2>2, <2>3, PushSays
<1>5. CASE /\ xfer' = [xfer EXCEPT ![t].pc = "done"]
           /\ unheard' = unheard \cup {t} /\ UNCHANGED wireToAgent
  <2>1. "done" \in Places
    BY DEF Places
  <2>2. /\ xfer' \in [Transfers -> Xfers]
        /\ \A u \in Transfers \ {t} : xfer'[u] = xfer[u]
        /\ xfer'[t].pc = "done" /\ xfer'[t].index = xfer[t].index
        /\ xfer'[t].asked = xfer[t].asked
    BY <1>2, <1>5, <2>1, SetsPlace
  <2>3. HandlerMay(t)
    BY <1>1, <1>2, <1>5, <2>2 DEF HandlerMay
  <2> QED BY <1>1, <1>3, <1>5, <2>2, <2>3, PushMoves DEF SaysNothing
<1> QED BY <1>4, <1>5 DEF PushAborts

LEMMA AbortEndsKeeps ==
    ASSUME TransferInv, NEW t \in Transfers, AbortEnds(t)
    PROVE  TransferInv'
<1>1. /\ xfer[t].pc = "aborting"
      /\ UNCHANGED <<remote, recent, parts, swapped, confirmed, pinned, channelUp, wireToAgent,
                     tasks, spoiled, unheard, local, verdict>>
      /\ answer' = [answer EXCEPT ![t] = {}]
  BY FilesRest, ChannelRests DEF AbortEnds
<1>2. /\ HandlersRange /\ local \in Whole /\ answer'[t] = {}
      /\ verdict \in [Transfers -> Verdicts]
  BY <1>1, NoAnswerYet DEF HandlersRange
<1>3. Pushing(t)
  BY <1>1 DEF TransferInv, PullInv
<1>4. /\ xfer' \in [Transfers -> Xfers]
      /\ \A u \in Transfers \ {t} : xfer'[u] = xfer[u]
      /\ xfer'[t].pc = "done" /\ xfer'[t].index = xfer[t].index
      /\ xfer'[t].asked = xfer[t].asked
  <2>1. "done" \in Places
    BY DEF Places
  <2> QED BY <1>2, <2>1, SetsPlace DEF AbortEnds
<1>5. HandlerMay(t)
  BY <1>1, <1>2, <1>4 DEF HandlerMay
<1> QED BY <1>1, <1>3, <1>4, <1>5, PushMoves DEF SaysNothing

-----------------------------------------------------------------------------
(* The handler of a pull.                                                  *)

LEMMA PullAsksKeeps ==
    ASSUME TransferInv, NEW t \in Transfers, PullAsks(t)
    PROVE  TransferInv'
<1>1. /\ xfer[t].pc = "ready" /\ ~Pushing(t)
      /\ UNCHANGED <<remote, recent, parts, swapped, confirmed, pinned, channelUp,
                     tasks, spoiled, unheard, local, answer>>
  BY FilesRest DEF PullAsks
<1>2. /\ HandlersRange /\ local \in Whole /\ answer[t] = {} /\ PullInv(t)
      /\ verdict \in [Transfers -> Verdicts]
  BY <1>1, NoAnswerYet DEF Waiting, HandlersRange, TransferInv
<1> DEFINE op == IF Reading(t) THEN "read" ELSE "stat"
           r == Asked(t, op)
<1>3. CASE Asks(t, op, "waiting") /\ UNCHANGED verdict
  <2>1. op \in Ops /\ "waiting" \in Places
    BY DEF Ops, Places
  <2>2. op \in {"read", "stat"} /\ (op = "read" => xfer[t].hash \in Whole \ {Absent})
    BY <1>1, <1>2 DEF PullInv, Reading
  <2> HIDE DEF op
  <2>3. /\ xfer' \in [Transfers -> Xfers]
        /\ \A u \in Transfers \ {t} : xfer'[u] = xfer[u]
        /\ xfer'[t].pc = "waiting" /\ xfer'[t].asked = r
        /\ xfer'[t].hash = xfer[t].hash /\ xfer'[t].data = xfer[t].data
        /\ wireToAgent' = Append(wireToAgent, r)
        /\ r \in Requests /\ r.of = t /\ r.op = op
    BY <1>2, <1>3, <2>1, SetsAsked
  <2> HIDE DEF r
  <2>4. HandlerMay(t) /\ PutsOnWire(t, r)
    BY <1>1, <1>2, <1>3, <2>2, <2>3 DEF HandlerMay, PutsOnWire
  <2>5. PullInv(t)'
    BY <1>1, <1>2, <1>3, <2>2, <2>3 DEF PullInv
  <2> QED BY <1>1, <2>4, <2>5, HandlerMoves
<1>4. CASE Ends(t, "failed") /\ UNCHANGED wireToAgent
  <2>1. "failed" \in Verdicts
    BY DEF Verdicts
  <2>2. /\ xfer' \in [Transfers -> Xfers] /\ verdict' \in [Transfers -> Verdicts]
        /\ \A u \in Transfers \ {t} : xfer'[u] = xfer[u] /\ verdict'[u] = verdict[u]
        /\ xfer'[t].pc = "done" /\ xfer'[t].asked = xfer[t].asked
        /\ xfer'[t].hash = xfer[t].hash /\ verdict'[t] = "failed"
    BY <1>2, <1>4, <2>1, EndsFacts
  <2>3. HandlerMay(t)
    BY <1>1, <1>2, <2>2 DEF HandlerMay
  <2>4. PullInv(t)'
    BY <1>1, <1>2, <2>2 DEF PullInv
  <2> QED BY <1>1, <1>4, <2>3, <2>4, HandlerMoves DEF SaysNothing
<1> QED BY <1>3, <1>4 DEF PullAsks

(* A pull that takes in an answer, gives up or ends, given what becomes of *)
(* it.                                                                     *)
LEMMA PullMoves ==
    ASSUME TransferInv, NEW t \in Transfers, ~Pushing(t),
           xfer' \in [Transfers -> Xfers], verdict' \in [Transfers -> Verdicts],
           \A u \in Transfers \ {t} : xfer'[u] = xfer[u] /\ verdict'[u] = verdict[u],
           answer' = [answer EXCEPT ![t] = {}] \/ (UNCHANGED answer /\ answer[t] = {}),
           UNCHANGED <<remote, recent, parts, swapped, confirmed, pinned, channelUp,
                       wireToAgent, tasks, spoiled, unheard>>,
           local' \in Whole, PullInv(t)'
    PROVE  TransferInv'
<1>1. answer'[t] = {}
  BY NoAnswerYet
<1>2. HandlerMay(t)
  BY <1>1 DEF HandlerMay
<1> QED BY <1>2, HandlerMoves DEF SaysNothing

LEMMA PullGivesUpKeeps ==
    ASSUME TransferInv, NEW t \in Transfers, PullGivesUp(t)
    PROVE  TransferInv'
<1>1. /\ ~Pushing(t) /\ answer[t] = {}
      /\ UNCHANGED <<remote, recent, parts, swapped, confirmed, pinned, channelUp, wireToAgent,
                     tasks, spoiled, unheard, local, answer>>
  BY FilesRest, ChannelRests DEF PullGivesUp
<1>2. HandlersRange /\ local \in Whole /\ PullInv(t)
  BY <1>1, NoAnswerYet DEF TransferInv
<1>3. "failed" \in Verdicts
  BY DEF Verdicts
<1>4. /\ xfer' \in [Transfers -> Xfers] /\ verdict' \in [Transfers -> Verdicts]
      /\ \A u \in Transfers \ {t} : xfer'[u] = xfer[u] /\ verdict'[u] = verdict[u]
      /\ xfer'[t].pc = "done" /\ xfer'[t].asked = xfer[t].asked
      /\ xfer'[t].hash = xfer[t].hash /\ verdict'[t] = "failed"
  BY <1>2, <1>3, EndsFacts DEF PullGivesUp
<1>5. PullInv(t)'
  BY <1>1, <1>2, <1>4 DEF PullInv
<1> QED BY <1>1, <1>2, <1>4, <1>5, PullMoves

LEMMA ComparesFacts ==
    ASSUME TransferInv, NEW t \in Transfers, ~Pushing(t),
           NEW hash \in Whole \ {Absent}, NEW data \in Seq(Pieces),
           Compares(t, hash, data), xfer[t].pc = "waiting",
           parts' = parts, answer'[t] = {}
    PROVE  /\ xfer' \in [Transfers -> Xfers] /\ verdict' \in [Transfers -> Verdicts]
           /\ \A u \in Transfers \ {t} : xfer'[u] = xfer[u] /\ verdict'[u] = verdict[u]
           /\ PullInv(t)'
<1>1. /\ HandlersRange /\ xfer[t] \in Xfers /\ PullInv(t)
      /\ verdict \in [Transfers -> Verdicts] /\ verdict[t] # "ok"
  BY DEF TransferInv, HandlersRange, PullInv
<1>2. CASE /\ data = hash /\ UNCHANGED verdict
           /\ xfer' = [xfer EXCEPT ![t].pc = "write", ![t].data = data]
  <2> DEFINE x == [xfer[t] EXCEPT !.pc = "write", !.data = data]
  <2>1. xfer' = [xfer EXCEPT ![t] = x]
    BY <1>2
  <2>2. x \in Xfers /\ x.pc = "write" /\ x.data = data /\ x.asked = xfer[t].asked
        /\ x.hash = xfer[t].hash
    BY <1>1 DEF Xfers, Places
  <2> HIDE DEF x
  <2>3. /\ xfer' \in [Transfers -> Xfers] /\ xfer'[t] = x
        /\ \A u \in Transfers \ {t} : xfer'[u] = xfer[u]
    BY <1>1, <2>1, <2>2 DEF HandlersRange
  <2>4. PullInv(t)'
    BY <1>1, <1>2, <2>2, <2>3 DEF PullInv
  <2> QED BY <1>1, <1>2, <2>3, <2>4
<1>3. CASE /\ xfer[t].attempt < PullAttempts /\ UNCHANGED verdict
           /\ xfer' = [xfer EXCEPT ![t] = [Idle EXCEPT !.pc = "ready",
                                              !.attempt = xfer[t].attempt + 1]]
  <2> DEFINE x == [Idle EXCEPT !.pc = "ready", !.attempt = xfer[t].attempt + 1]
  <2>1. xfer[t].attempt + 1 \in 1 .. PullAttempts
    BY <1>1, <1>3, TransferAssumption DEF Xfers, TransferAssumption
  <2>2. Idle \in Xfers /\ Idle.asked = NoRequest
    <3>1. NoRequest \in Requests \cup {NoRequest} /\ <<>> \in Seq(Pieces)
          /\ "idle" \in Places /\ 1 \in Nat \ {0} /\ 0 \in Nat /\ 1 \in 1 .. PullAttempts
      BY DataFacts, TransferAssumption DEF Places, TransferAssumption
    <3> QED BY <3>1 DEF Idle, Xfers
  <2>3. "ready" \in Places
    BY DEF Places
  <2>4. x \in Xfers /\ x.pc = "ready" /\ x.asked = NoRequest
    BY <2>1, <2>2, <2>3 DEF Xfers
  <2> HIDE DEF x
  <2>5. xfer' = [xfer EXCEPT ![t] = x]
    BY <1>3 DEF x
  <2>6. /\ xfer' \in [Transfers -> Xfers] /\ xfer'[t] = x
        /\ \A u \in Transfers \ {t} : xfer'[u] = xfer[u]
    BY <1>1, <2>4, <2>5 DEF HandlersRange
  <2>7. PullInv(t)'
    <3>1. NoRequest.op = "none"
      BY DEF NoRequest
    <3>2. xfer'[t].pc = "ready" /\ xfer'[t].asked.op = "none" /\ verdict'[t] # "ok"
      BY <1>1, <1>3, <2>4, <2>6, <3>1
    <3> QED BY <1>1, <3>2 DEF PullInv
  <2> QED BY <1>1, <1>3, <2>6, <2>7
<1>4. CASE Ends(t, "changed")
  <2>1. "changed" \in Verdicts
    BY DEF Verdicts
  <2>2. /\ xfer' \in [Transfers -> Xfers] /\ verdict' \in [Transfers -> Verdicts]
        /\ \A u \in Transfers \ {t} : xfer'[u] = xfer[u] /\ verdict'[u] = verdict[u]
        /\ xfer'[t].pc = "done" /\ xfer'[t].asked = xfer[t].asked
        /\ xfer'[t].hash = xfer[t].hash /\ verdict'[t] = "changed"
    BY <1>1, <1>4, <2>1, EndsFacts
  <2>3. PullInv(t)'
    BY <1>1, <2>2 DEF PullInv
  <2> QED BY <2>2, <2>3
<1> QED BY <1>2, <1>3, <1>4 DEF Compares

LEMMA PullEnds ==
    ASSUME TransferInv, NEW t \in Transfers, ~Pushing(t), xfer[t].pc = "waiting",
           NEW v \in {"failed", "stale"}, Ends(t, v), parts' = parts, answer'[t] = {}
    PROVE  /\ xfer' \in [Transfers -> Xfers] /\ verdict' \in [Transfers -> Verdicts]
           /\ \A u \in Transfers \ {t} : xfer'[u] = xfer[u] /\ verdict'[u] = verdict[u]
           /\ PullInv(t)'
<1>1. v \in Verdicts
  BY DEF Verdicts
<1>2. HandlersRange /\ PullInv(t)
  BY DEF TransferInv
<1>3. /\ xfer' \in [Transfers -> Xfers] /\ verdict' \in [Transfers -> Verdicts]
      /\ \A u \in Transfers \ {t} : xfer'[u] = xfer[u] /\ verdict'[u] = verdict[u]
      /\ xfer'[t].pc = "done" /\ xfer'[t].asked = xfer[t].asked
      /\ xfer'[t].hash = xfer[t].hash /\ verdict'[t] = v
  BY <1>1, <1>2, EndsFacts
<1>4. PullInv(t)'
  BY <1>2, <1>3 DEF PullInv
<1> QED BY <1>3, <1>4

LEMMA PullStattedKeeps ==
    ASSUME TransferInv, NEW t \in Transfers, PullStatted(t)
    PROVE  TransferInv'
<1>1. /\ xfer[t].pc = "waiting" /\ xfer[t].asked.op = "stat"
      /\ UNCHANGED <<remote, recent, parts, swapped, confirmed, pinned, channelUp, wireToAgent,
                     tasks, spoiled, unheard, local>>
      /\ answer' = [answer EXCEPT ![t] = {}]
  BY FilesRest, ChannelRests DEF PullStatted
<1>2. /\ HandlersRange /\ local \in Whole /\ answer'[t] = {} /\ xfer[t] \in Xfers
      /\ verdict \in [Transfers -> Verdicts]
  BY <1>1, NoAnswerYet DEF HandlersRange
<1>3. ~Pushing(t)
  BY <1>1 DEF TransferInv, PushInv, Place
<1>4. PullInv(t)
  BY <1>3 DEF TransferInv
<1>5. PICK reply \in answer[t] :
         IF ~reply.ok \/ reply.data = Absent THEN Ends(t, "failed")
         ELSE IF mishaps.maxAge /\ ~reply.recent THEN Ends(t, "stale")
         ELSE IF reply.size = 0 THEN Compares(t, reply.data, <<>>)
         ELSE /\ xfer' = [xfer EXCEPT ![t].pc = "ready", ![t].hash = reply.data,
                                      ![t].size = reply.size]
              /\ UNCHANGED verdict
  BY DEF PullStatted
<1>6. reply \in TransferReplies /\ (reply.ok => reply.data \in Whole)
  BY <1>1, <1>2, <1>4 DEF HandlersRange, PullInv
<1> SUFFICES /\ xfer' \in [Transfers -> Xfers] /\ verdict' \in [Transfers -> Verdicts]
             /\ \A u \in Transfers \ {t} : xfer'[u] = xfer[u] /\ verdict'[u] = verdict[u]
             /\ PullInv(t)'
  BY <1>1, <1>2, <1>3, PullMoves
<1>7. CASE Ends(t, "failed") \/ Ends(t, "stale")
  BY <1>1, <1>2, <1>3, <1>7, PullEnds
<1>8. CASE Compares(t, reply.data, <<>>) /\ reply.ok /\ reply.data # Absent
  <2>1. <<>> \in Seq(Pieces) /\ reply.data \in Whole \ {Absent}
    BY <1>6, <1>8, DataFacts
  <2> QED BY <1>1, <1>2, <1>3, <1>8, <2>1, ComparesFacts
<1>9. CASE /\ reply.ok /\ reply.data # Absent /\ UNCHANGED verdict
           /\ xfer' = [xfer EXCEPT ![t].pc = "ready", ![t].hash = reply.data,
                                   ![t].size = reply.size]
  <2> DEFINE x == [xfer[t] EXCEPT !.pc = "ready", !.hash = reply.data,
                                  !.size = reply.size]
  <2>1. xfer' = [xfer EXCEPT ![t] = x]
    BY <1>9
  <2>2. "ready" \in Places /\ reply.data \in Seq(Pieces) /\ reply.size \in Nat
    BY <1>6 DEF Places, TransferReplies
  <2>3. x \in Xfers /\ x.pc = "ready" /\ x.asked = xfer[t].asked /\ x.hash = reply.data
    BY <1>2, <2>2 DEF Xfers
  <2> HIDE DEF x
  <2>4. /\ xfer' \in [Transfers -> Xfers] /\ xfer'[t] = x
        /\ \A u \in Transfers \ {t} : xfer'[u] = xfer[u]
    BY <1>2, <2>1, <2>3 DEF HandlersRange
  <2>5. PullInv(t)'
    BY <1>1, <1>4, <1>6, <1>9, <2>3, <2>4 DEF PullInv
  <2> QED BY <1>2, <1>9, <2>4, <2>5
<1> QED BY <1>5, <1>7, <1>8, <1>9

LEMMA PullReadKeeps ==
    ASSUME TransferInv, NEW t \in Transfers, PullRead(t)
    PROVE  TransferInv'
<1>1. /\ xfer[t].pc = "waiting" /\ xfer[t].asked.op = "read"
      /\ UNCHANGED <<remote, recent, parts, swapped, confirmed, pinned, channelUp, wireToAgent,
                     tasks, spoiled, unheard, local>>
      /\ answer' = [answer EXCEPT ![t] = {}]
  BY FilesRest, ChannelRests DEF PullRead
<1>2. /\ HandlersRange /\ local \in Whole /\ answer'[t] = {} /\ xfer[t] \in Xfers
      /\ verdict \in [Transfers -> Verdicts]
  BY <1>1, NoAnswerYet DEF HandlersRange
<1>3. ~Pushing(t)
  BY <1>1 DEF TransferInv, PushInv, Place
<1>4. PullInv(t) /\ xfer[t].hash \in Whole \ {Absent}
  BY <1>1, <1>3 DEF TransferInv, PullInv
<1>5. PICK reply \in answer[t] :
         IF ~reply.ok THEN Ends(t, "failed")
         ELSE IF \/ reply.data = <<>>
                 \/ Len(xfer[t].data \o reply.data) >= xfer[t].size
         THEN Compares(t, xfer[t].hash, xfer[t].data \o reply.data)
         ELSE /\ xfer' = [xfer EXCEPT ![t].pc = "ready", ![t].index = @ + 1,
                                      ![t].data = xfer[t].data \o reply.data]
              /\ UNCHANGED verdict
  BY DEF PullRead
<1> DEFINE data == xfer[t].data \o reply.data
<1>6. data \in Seq(Pieces)
  BY <1>2 DEF HandlersRange, Xfers, TransferReplies
<1> SUFFICES /\ xfer' \in [Transfers -> Xfers] /\ verdict' \in [Transfers -> Verdicts]
             /\ \A u \in Transfers \ {t} : xfer'[u] = xfer[u] /\ verdict'[u] = verdict[u]
             /\ PullInv(t)'
  BY <1>1, <1>2, <1>3, PullMoves
<1>7. CASE Ends(t, "failed")
  BY <1>1, <1>2, <1>3, <1>7, PullEnds
<1>8. CASE Compares(t, xfer[t].hash, data)
  <2> HIDE DEF data
  <2> QED BY <1>1, <1>2, <1>3, <1>4, <1>6, <1>8, ComparesFacts
<1>9. CASE /\ UNCHANGED verdict
           /\ xfer' = [xfer EXCEPT ![t].pc = "ready", ![t].index = @ + 1,
                                   ![t].data = data]
  <2> HIDE DEF data
  <2> DEFINE x == [xfer[t] EXCEPT !.pc = "ready", !.index = @ + 1, !.data = data]
  <2>1. xfer' = [xfer EXCEPT ![t] = x]
    BY <1>9
  <2>2. "ready" \in Places /\ xfer[t].index + 1 \in Nat \ {0}
    BY <1>2 DEF Places, Xfers
  <2>3. x \in Xfers /\ x.pc = "ready" /\ x.asked = xfer[t].asked /\ x.hash = xfer[t].hash
    BY <1>2, <1>6, <2>2 DEF Xfers
  <2> HIDE DEF x
  <2>4. /\ xfer' \in [Transfers -> Xfers] /\ xfer'[t] = x
        /\ \A u \in Transfers \ {t} : xfer'[u] = xfer[u]
    BY <1>2, <2>1, <2>3 DEF HandlersRange
  <2>5. PullInv(t)'
    BY <1>1, <1>4, <1>9, <2>3, <2>4 DEF PullInv
  <2> QED BY <1>2, <1>9, <2>4, <2>5
<1> QED BY <1>5, <1>7, <1>8, <1>9

LEMMA WritesLocallyKeeps ==
    ASSUME TransferInv, NEW t \in Transfers, WritesLocally(t)
    PROVE  TransferInv'
<1>1. /\ xfer[t].pc = "write"
      /\ UNCHANGED <<remote, recent, parts, swapped, confirmed, pinned, channelUp, wireToAgent,
                     tasks, spoiled, unheard, answer>>
  BY FilesRest, ChannelRests DEF WritesLocally
<1>2. HandlersRange /\ local \in Whole /\ answer[t] = {}
  BY <1>1, NoAnswerYet DEF Waiting
<1>3. ~Pushing(t)
  BY <1>1 DEF TransferInv, PushInv, Place
<1>4. PullInv(t) /\ xfer[t].data \in Whole \ {Absent}
  BY <1>1, <1>3 DEF TransferInv, PullInv
<1>5. PICK v \in {"ok", "failed"} :
         Ends(t, v) /\ (local' = local \/ local' = xfer[t].data)
  BY DEF WritesLocally
<1>6. v \in Verdicts
  BY DEF Verdicts
<1>7. /\ xfer' \in [Transfers -> Xfers] /\ verdict' \in [Transfers -> Verdicts]
      /\ \A u \in Transfers \ {t} : xfer'[u] = xfer[u] /\ verdict'[u] = verdict[u]
      /\ xfer'[t].pc = "done" /\ xfer'[t].asked = xfer[t].asked
      /\ xfer'[t].hash = xfer[t].hash /\ xfer'[t].data = xfer[t].data
  BY <1>2, <1>5, <1>6, EndsFacts
<1>8. PullInv(t)'
  BY <1>1, <1>2, <1>4, <1>7 DEF PullInv
<1>9. local' \in Whole
  BY <1>2, <1>4, <1>5
<1> QED BY <1>1, <1>2, <1>3, <1>7, <1>8, <1>9, PullMoves

-----------------------------------------------------------------------------
(* Steps of the agent, of the channel and of the remote machine.           *)

(* What such a step may do to the transfers it does not concern.           *)
Spares(t) ==
    /\ UNCHANGED <<xfer, verdict, local>>
    /\ unheard \subseteq unheard'
    /\ spoiled \subseteq spoiled' /\ spoiled' \subseteq spoiled \cup {t}
    /\ pinned' \subseteq Contents
    /\ t \in pinned => t \in pinned' \/ parts'[t] = Absent
    /\ remote' \in Whole /\ recent' \in BOOLEAN
    /\ parts' \in [Transfers -> Seq(Pieces)]
    /\ answer' \in [Transfers -> SUBSET TransferReplies]
    /\ swapped \subseteq swapped' /\ swapped' \subseteq Contents
    /\ confirmed \subseteq confirmed' /\ confirmed' \subseteq swapped'
    /\ \A a, b \in answer'[t] : a = b
    /\ ~Waiting(t) => answer'[t] = {}
    /\ \A u \in Transfers \ {t} :
          /\ answer'[u] = answer[u] /\ parts'[u] \in {parts[u], Absent}
          /\ (u \in swapped' <=> u \in swapped) /\ Finishing(u)' = Finishing(u)
          /\ u \in pinned => u \in pinned'
    /\ WireRange'

TakesRequest(t) ==
    /\ wireToAgent # <<>> /\ wireToAgent' = Tail(wireToAgent)
    /\ Head(wireToAgent).of = t

LEMMA OthersMove ==
    ASSUME TransferInv, NEW t \in Transfers, Spares(t),
           UNCHANGED wireToAgent \/ TakesRequest(t),
           IF Pushing(t) THEN PushInv(t)' ELSE PullInv(t)'
    PROVE  TransferInv'
<1> USE DEF TransferInv
<1>1. FilesRange'
  BY DEF Spares, FilesRange
<1>2. HandlersRange'
  <2>1. ASSUME NEW u \in Transfers
        PROVE  /\ \A a, b \in answer'[u] : a = b
               /\ ~Waiting(u)' => answer'[u] = {}
    BY DEF Spares, HandlersRange, Waiting
  <2> QED BY <2>1 DEF Spares, HandlersRange
<1>3. ASSUME NEW u \in Transfers \ {t}
      PROVE  IF Pushing(u) THEN PushInv(u)' ELSE PullInv(u)'
  <2>1. SameHandler(u) /\ SameFiles(u)
    BY DEF SameHandler, SameFiles, Spares
  <2>2. PICK s \in {0, 1} : WireShifts(u, s)
    BY Carried DEF TakesRequest
  <2>3. CASE Pushing(u)
    BY <2>1, <2>2, <2>3, PushStays
  <2>4. CASE ~Pushing(u)
    BY <2>1, <2>4, PullStays DEF SameFiles
  <2> QED BY <2>3, <2>4
<1> QED BY <1>1, <1>2, <1>3 DEF Spares

LEMMA AnswersFacts ==
    ASSUME HandlersRange, NEW t \in Transfers, NEW r, r.of = t, NEW reply \in TransferReplies,
           NEW orphan \in BOOLEAN, Answers(r, reply, orphan)
    PROVE  /\ answer' \in [Transfers -> SUBSET TransferReplies]
           /\ \A u \in Transfers \ {t} : answer'[u] = answer[u]
           /\ \A a, b \in answer'[t] : a = b
           /\ ~Waiting(t) => answer'[t] = {}
           /\ \/ answer'[t] = answer[t]
              \/ answer'[t] = {reply} /\ Waiting(t) /\ xfer[t].asked = r
<1>1. CASE answer' = answer
  BY <1>1 DEF HandlersRange
<1>2. CASE /\ answer' = [answer EXCEPT ![t] = {reply}]
           /\ Waiting(t) /\ xfer[t].asked = r
  <2>1. {reply} \in SUBSET TransferReplies
    OBVIOUS
  <2> DEFINE one == {reply}
  <2>2. \A a, b \in one : a = b
    OBVIOUS
  <2> HIDE DEF one
  <2>3. answer' = [answer EXCEPT ![t] = one] /\ one \in SUBSET TransferReplies
    BY <1>2, <2>1 DEF one
  <2>4. /\ answer' \in [Transfers -> SUBSET TransferReplies] /\ answer'[t] = one
        /\ \A u \in Transfers \ {t} : answer'[u] = answer[u]
    BY <2>3 DEF HandlersRange
  <2>5. answer'[t] = {reply}
    BY <2>4 DEF one
  <2> QED BY <1>2, <2>2, <2>4, <2>5
<1> QED BY <1>1, <1>2 DEF Answers

LEMMA ReplyTypes ==
    /\ Refusal \in TransferReplies /\ ~Refusal.ok
    /\ \A data \in Seq(Pieces), size \in Nat, rec \in BOOLEAN :
          /\ Reply(TRUE, data, size, rec) \in TransferReplies
          /\ Reply(TRUE, data, size, rec).ok
          /\ Reply(TRUE, data, size, rec).data = data
<1>1. <<>> \in Seq(Pieces) /\ 0 \in Nat
  BY DataFacts
<1> QED BY <1>1 DEF Refusal, Reply, TransferReplies

(* The wire after a step that puts nothing on it.                          *)
LEMMA WireKept ==
    ASSUME WireRange, channelUp' \in BOOLEAN, tasks' \subseteq Tasks,
           \/ UNCHANGED wireToAgent
           \/ wireToAgent # <<>> /\ wireToAgent' = Tail(wireToAgent),
           \A k \in tasks' :
              IF PastRead(k)
              THEN /\ Pushing(k.req.of) /\ k.req.op = "write"
                   /\ k.req.index = TotalChunks(k.req.of)
              ELSE ~Pushing(k.req.of) /\ k.req.op = "stat",
           \A k, l \in tasks' : ~k.orphan /\ ~l.orphan => k = l
    PROVE  WireRange'
<1>1. /\ wireToAgent' \in Seq(Requests)
      /\ \A i \in 1 .. Len(wireToAgent') :
            wireToAgent'[i].op \in {"write", "abort"} <=> Pushing(wireToAgent'[i].of)
  <2>1. CASE UNCHANGED wireToAgent
    BY <2>1 DEF WireRange
  <2>2. CASE wireToAgent # <<>> /\ wireToAgent' = Tail(wireToAgent)
    <3> DEFINE n == Len(wireToAgent)
               w == wireToAgent'
    <3>1. /\ w \in Seq(Requests) /\ Len(w) = n - 1 /\ n \in Nat \ {0}
          /\ \A i \in 1 .. Len(w) : w[i] = wireToAgent[i + 1]
      BY <2>2, WireTails
    <3>2. \A j \in 1 .. n :
             wireToAgent[j].op \in {"write", "abort"} <=> Pushing(wireToAgent[j].of)
      BY DEF WireRange
    <3> HIDE DEF n, w
    <3>3. \A i \in 1 .. Len(w) : i + 1 \in 1 .. n
      BY <3>1
    <3>4. \A i \in 1 .. Len(w) : w[i].op \in {"write", "abort"} <=> Pushing(w[i].of)
      BY <3>1, <3>2, <3>3
    <3> QED BY <3>1, <3>4 DEF w
  <2> QED BY <2>1, <2>2
<1> QED BY <1>1 DEF WireRange

(* The agent is at one request at a time.                                  *)
LEMMA HeadFacts ==
    ASSUME WireRange, wireToAgent # <<>>
    PROVE  /\ Head(wireToAgent) \in Requests
           /\ Head(wireToAgent).of \in Transfers
           /\ Head(wireToAgent).op \in {"write", "abort"}
                 <=> Pushing(Head(wireToAgent).of)
<1>1. Head(wireToAgent) = wireToAgent[1] /\ 1 \in 1 .. Len(wireToAgent)
  BY DEF WireRange
<1>2. /\ wireToAgent[1] \in Requests
      /\ wireToAgent[1].op \in {"write", "abort"} <=> Pushing(wireToAgent[1].of)
  BY <1>1 DEF WireRange
<1>3. wireToAgent[1].of \in Transfers
  BY <1>2 DEF Requests
<1> QED BY <1>1, <1>2, <1>3

(* A chunk of a push has left the wire, whatever became of it.             *)
LEMMA ChunkGone ==
    ASSUME TransferInv, NEW t \in Transfers, Pushing(t), TakesRequest(t), Spares(t),
           Head(wireToAgent).op = "write"
    PROVE  /\ ~Taken(t) /\ PushInv(t) /\ WireRange
           /\ OnWire(t, "write")' = {}
           /\ OnWire(t, "abort")' = {} <=> OnWire(t, "abort") = {}
           /\ xfer[t].pc \in {"waiting", "abort", "aborting", "done"}
           /\ Head(wireToAgent).index = xfer[t].index
           /\ xfer[t].pc = "waiting" => answer[t] = {} /\ verdict[t] = "none"
           /\ IsLast(t) => xfer[t].pc = "waiting" \/ verdict[t] = "unknown"
           /\ IsLast(t)' = IsLast(t)
           /\ Place(t)' /\ OnItsWay(t)'
           /\ ~Taken(t)' => StillUnsent(t)'
           /\ verdict[t] = "ok" => t \in confirmed'
<1>1. PushInv(t) /\ WireRange /\ UNCHANGED <<xfer, verdict>>
  BY DEF TransferInv, Spares
<1>2. /\ 1 \in OnWire(t, "write") /\ wireToAgent[1] = Head(wireToAgent)
      /\ \A i \in OnWire(t, "write")' : i + 1 \in OnWire(t, "write")
      /\ \A i \in OnWire(t, "abort")' : i + 1 \in OnWire(t, "abort")
      /\ \A j \in OnWire(t, "abort") : j - 1 \in OnWire(t, "abort")'
  BY <1>1, HeadGone, WireTails DEF TakesRequest, Ops
<1>3. OnWire(t, "write")' = {}
  <2> SUFFICES ASSUME NEW i \in OnWire(t, "write")' PROVE FALSE
    OBVIOUS
  <2>1. i + 1 = 1
    BY <1>1, <1>2 DEF PushInv, OnItsWay
  <2>2. i \in 1 .. Len(wireToAgent')
    BY DEF OnWire
  <2> QED BY <2>1, <2>2
<1>4. OnWire(t, "abort")' = {} <=> OnWire(t, "abort") = {}
  BY <1>2
<1>5. /\ ~Taken(t) /\ xfer[t].pc \in {"waiting", "abort", "aborting", "done"}
      /\ Head(wireToAgent).index = xfer[t].index
      /\ xfer[t].pc = "waiting" => answer[t] = {}
      /\ IsLast(t) => xfer[t].pc = "waiting" \/ verdict[t] = "unknown"
  BY <1>1, <1>2 DEF PushInv, OnItsWay
<1>6. IsLast(t)' = IsLast(t) /\ Place(t)' /\ OnItsWay(t)'
  BY <1>1, <1>3 DEF PushInv, Place, OnItsWay, IsLast
<1>7. ~Taken(t)' => StillUnsent(t)'
  BY <1>1, <1>3, <1>4, <1>5 DEF PushInv, StillUnsent
<1>8. xfer[t].pc = "waiting" => verdict[t] = "none"
  BY <1>1 DEF PushInv, Place
<1>9. verdict[t] = "ok" => t \in confirmed'
  BY <1>1 DEF PushInv, RightlyAnswered, Spares
<1> QED BY <1>1, <1>3, <1>4, <1>5, <1>6, <1>7, <1>8, <1>9

(* It was written to the sidecar, refused or lost.                         *)
LEMMA ChunkStaged ==
    ASSUME TransferInv, NEW t \in Transfers, Pushing(t), TakesRequest(t), Spares(t),
           Head(wireToAgent).op = "write", UNCHANGED <<tasks, swapped>>,
           \/ answer'[t] = answer[t] \/ ~IsLast(t)
           \/ \A reply \in answer'[t] : ~reply.ok
    PROVE  TransferInv'
<1>1. /\ ~Taken(t) /\ PushInv(t)
      /\ OnWire(t, "write")' = {}
      /\ OnWire(t, "abort")' = {} <=> OnWire(t, "abort") = {}
      /\ xfer[t].pc \in {"waiting", "abort", "aborting", "done"}
      /\ xfer[t].pc = "waiting" => answer[t] = {} /\ verdict[t] = "none"
      /\ IsLast(t)' = IsLast(t)
      /\ Place(t)' /\ OnItsWay(t)'
      /\ ~Taken(t)' => StillUnsent(t)'
      /\ verdict[t] = "ok" => t \in confirmed'
      /\ 1 \in OnWire(t, "write")
  BY ChunkGone, HeadGone DEF TakesRequest
<1>2. UNCHANGED <<xfer, verdict>> /\ unheard \subseteq unheard'
  BY DEF Spares
<1>3. (Taken(t)' <=> Taken(t)) /\ Finishing(t)' = {} /\ StillUnsent(t)'
  BY <1>1 DEF Taken, Finishing
<1>4. TakenOnce(t)'
  BY <1>1, <1>3 DEF TakenOnce
<1>5. RightlyAnswered(t)'
  BY <1>1, <1>2 DEF RightlyAnswered
<1>6. Tidy(t)'
  <2>1. t \in unheard \cup pinned => t \in (unheard \cup pinned)' \/ parts'[t] = Absent
    BY DEF Spares
  <2> QED BY <1>1, <1>2, <2>1 DEF Tidy, PushInv
<1>7. PushInv(t)'
  BY <1>1, <1>3, <1>4, <1>5, <1>6 DEF PushInv
<1> QED BY <1>7, OthersMove

(* What it does for the files, the agent does under a request.             *)
LEMMA AgentFacts ==
    ASSUME TransferInv, AgentReads
    PROVE  /\ HandlersRange /\ FilesRange /\ WireRange
           /\ wireToAgent # <<>> /\ wireToAgent' = Tail(wireToAgent)
           /\ Head(wireToAgent) \in Requests /\ Head(wireToAgent).of \in Transfers
           /\ Head(wireToAgent).op \in {"write", "abort"}
                 <=> Pushing(Head(wireToAgent).of)
           /\ TakesRequest(Head(wireToAgent).of)
           /\ (UNCHANGED <<channelUp, tasks>> => WireRange')
           /\ \A k \in tasks : k.orphan
<1>1. /\ HandlersRange /\ FilesRange /\ WireRange
      /\ wireToAgent # <<>> /\ wireToAgent' = Tail(wireToAgent)
      /\ \A k \in tasks : k.orphan
  BY DEF TransferInv, AgentReads
<1>2. ASSUME UNCHANGED <<channelUp, tasks>> PROVE WireRange'
  <2>1. WireRange
    BY <1>1
  <2>2. /\ channelUp' \in BOOLEAN /\ tasks' \subseteq Tasks
        /\ \A k \in tasks' :
              IF PastRead(k)
              THEN /\ Pushing(k.req.of) /\ k.req.op = "write"
                   /\ k.req.index = TotalChunks(k.req.of)
              ELSE ~Pushing(k.req.of) /\ k.req.op = "stat"
        /\ \A k, l \in tasks' : ~k.orphan /\ ~l.orphan => k = l
    BY <1>2, <2>1 DEF WireRange
  <2> QED BY <1>1, <2>2, WireKept
<1> QED BY <1>1, <1>2, HeadFacts DEF TakesRequest

LEMMA StagesFacts ==
    ASSUME FilesRange, HandlersRange, NEW r \in Requests, r.of \in Contents,
           NEW swept \in SUBSET Transfers, r.of \notin swept
    PROVE  /\ Staged(r) \in Seq(Pieces)
           /\ \A left \in Seq(Pieces) : SidecarsAre(r, swept, left) =>
                 /\ parts' \in [Transfers -> Seq(Pieces)] /\ parts'[r.of] = left
                 /\ \A u \in Transfers \ {r.of} : parts'[u] \in {parts[u], Absent}
<1>1. r.index \in Nat /\ <<r.of, r.index>> \in Pieces
  BY DEF Requests, Pieces
<1>2. \A t \in Transfers : parts[t] \in Seq(Pieces)
  BY DEF FilesRange
<1>3. FirstOf(r.of) \in Seq(Pieces) /\ Absent \in Seq(Pieces)
  BY DataFacts
<1>4. <<<<r.of, r.index>>>> \in Seq(Pieces)
  BY <1>1
<1>5. r.of \in Transfers /\ Append(parts[r.of], <<r.of, r.index>>) \in Seq(Pieces)
  BY <1>1, <1>2 DEF Requests
<1>6. Staged(r) \in Seq(Pieces)
  BY <1>3, <1>4, <1>5 DEF Staged
<1>7. ASSUME NEW left \in Seq(Pieces), SidecarsAre(r, swept, left)
      PROVE  /\ parts' \in [Transfers -> Seq(Pieces)] /\ parts'[r.of] = left
             /\ \A u \in Transfers \ {r.of} : parts'[u] \in {parts[u], Absent}
  <2>1. \A t \in Transfers : parts'[t] = IF t \in swept THEN Absent
                                        ELSE IF t = r.of THEN left ELSE parts[t]
    BY <1>7 DEF SidecarsAre
  <2>2. \A t \in Transfers : parts'[t] \in Seq(Pieces)
    BY ZenonT(30), <1>2, <1>3, <1>7, <2>1
  <2>3. DOMAIN parts' = Transfers /\ parts' = [t \in Transfers |-> parts'[t]]
    BY <1>7 DEF SidecarsAre
  <2> QED BY <1>5, <2>1, <2>2, <2>3
<1> QED BY <1>6, <1>7

(* A sidecar is gone, or known to be pinned.                               *)
Cleared(t) ==
    /\ parts' \in [Transfers -> Seq(Pieces)] /\ (parts'[t] = Absent \/ t \in pinned')
    /\ pinned' \subseteq Contents
    /\ \A u \in Transfers \ {t} : /\ parts'[u] \in {parts[u], Absent}
                                  /\ u \in pinned => u \in pinned'

LEMMA DiscardsFacts ==
    ASSUME FilesRange, NEW t \in Transfers, t \in Contents, Discards(t)
    PROVE  Cleared(t)
BY DataFacts DEF FilesRange, Discards, Cleared

LEMMA UnstagesFacts ==
    ASSUME FilesRange, HandlersRange, NEW r \in Requests, r.of \in Contents,
           NEW swept \in SUBSET Transfers, r.of \notin swept, Unstages(r, swept)
    PROVE  Cleared(r.of)
<1>1. Absent \in Seq(Pieces) /\ r.of \in Transfers
  BY DataFacts DEF Requests
<1>2. parts[r.of] \in Seq(Pieces)
  BY <1>1 DEF FilesRange
<1>3. CASE SidecarsAre(r, swept, Absent) /\ pinned' = pinned \ {r.of}
  BY <1>1, <1>3, StagesFacts DEF Cleared, FilesRange
<1>4. ASSUME NEW left \in {parts[r.of], Staged(r)} \ {Absent},
             SidecarsAre(r, swept, left), pinned' = pinned \cup {r.of}
      PROVE  Cleared(r.of)
  <2>1. left \in Seq(Pieces)
    BY <1>2, StagesFacts
  <2>2. /\ parts' \in [Transfers -> Seq(Pieces)]
        /\ \A u \in Transfers \ {r.of} : parts'[u] \in {parts[u], Absent}
    BY <1>4, <2>1, StagesFacts
  <2> QED BY <1>4, <2>2 DEF Cleared, FilesRange
<1> QED BY <1>3, <1>4 DEF Unstages

LEMMA SweptFacts ==
    ASSUME NEW r, NEW swept \in Swept(r)
    PROVE  swept \in SUBSET Transfers /\ r.of \notin swept
BY DEF Swept, Over

LEMMA WritesChunkKeeps ==
    ASSUME TransferInv, WritesChunk
    PROVE  TransferInv'
<1> DEFINE r == Head(wireToAgent)
           t == r.of
<1>1. /\ AgentReads /\ r.op = "write" /\ r.index < TotalChunks(t)
      /\ UNCHANGED <<recent, swapped, confirmed, channelUp, tasks, spoiled, unheard,
                     local, xfer, verdict>>
      /\ \/ /\ (\E swept \in Swept(r) : Stages(r, swept)) /\ UNCHANGED pinned
            /\ Answers(r, Reply(TRUE, <<>>, 0, FALSE), FALSE)
         \/ /\ (\E swept \in Swept(r) : Unstages(r, swept)) /\ UNCHANGED remote
            /\ Answers(r, Refusal, FALSE)
  BY DEF WritesChunk
<1>2. /\ HandlersRange /\ FilesRange /\ WireRange' /\ TakesRequest(t)
      /\ r \in Requests /\ t \in Transfers /\ Pushing(t)
  BY <1>1, AgentFacts
<1>3. /\ remote' = remote /\ parts' \in [Transfers -> Seq(Pieces)]
      /\ \A u \in Transfers \ {t} : parts'[u] \in {parts[u], Absent} /\ (u \in pinned => u \in pinned')
      /\ pinned' \subseteq Contents /\ (t \in pinned => t \in pinned' \/ parts'[t] = Absent)
  <2>1. ASSUME NEW swept \in Swept(r), Unstages(r, swept), UNCHANGED remote
        PROVE  <1>3
    <3>1. swept \in SUBSET Transfers /\ t \notin swept
      BY SweptFacts
    <3> QED BY <1>2, <2>1, <3>1, UnstagesFacts DEF Pushing, Cleared
  <2>2. ASSUME NEW swept \in Swept(r), Stages(r, swept), UNCHANGED pinned
        PROVE  <1>3
    <3>1. swept \in SUBSET Transfers /\ t \notin swept
      BY SweptFacts
    <3> QED BY <1>2, <2>2, <3>1, StagesFacts DEF Pushing, Stages, FilesRange
  <2> QED BY <1>1, <2>1, <2>2
<1>4. PICK reply \in TransferReplies : Answers(r, reply, FALSE)
  <2>1. <<>> \in Seq(Pieces) /\ 0 \in Nat /\ FALSE \in BOOLEAN
    BY DataFacts
  <2>2. Reply(TRUE, <<>>, 0, FALSE) \in TransferReplies /\ Refusal \in TransferReplies
    BY <2>1, ReplyTypes
  <2> QED BY <1>1, <2>2
<1>5. /\ answer' \in [Transfers -> SUBSET TransferReplies]
      /\ \A u \in Transfers \ {t} : answer'[u] = answer[u]
      /\ \A a, b \in answer'[t] : a = b
      /\ ~Waiting(t) => answer'[t] = {}
  BY <1>2, <1>4, AnswersFacts
<1>6. /\ unheard \subseteq unheard' /\ remote' \in Whole /\ recent' \in BOOLEAN
      /\ swapped' = swapped /\ swapped' \subseteq Contents
      /\ confirmed' = confirmed /\ confirmed' \subseteq swapped'
      /\ \A u : Finishing(u)' = Finishing(u)
  BY <1>1, <1>2, <1>3 DEF FilesRange, Finishing
<1> HIDE DEF r
<1>7. Spares(t)
  BY <1>1, <1>2, <1>3, <1>5, <1>6 DEF Spares
<1>8. ~IsLast(t)
  <2>1. r.index = xfer[t].index
    BY <1>1, <1>2, <1>7, ChunkGone DEF r
  <2>2. TotalChunks(t) \in Nat /\ r.index \in Nat
    BY <1>2, DataFacts DEF Pushing, Requests
  <2> QED BY <1>1, <2>1, <2>2 DEF IsLast
<1> QED BY <1>1, <1>2, <1>7, <1>8, ChunkStaged DEF r

(* A task the agent begins when it is at nothing else.                     *)
LEMMA TaskBegins ==
    ASSUME WireRange, FilesRange, NEW r \in Requests, NEW stage \in TaskStages,
           Busy(r, stage), \A k \in tasks : k.orphan,
           channelUp' = channelUp, wireToAgent # <<>>, wireToAgent' = Tail(wireToAgent),
           IF stage \in {"swap", "rehash"}
           THEN Pushing(r.of) /\ r.op = "write" /\ r.index = TotalChunks(r.of)
           ELSE ~Pushing(r.of) /\ r.op = "stat"
    PROVE  /\ WireRange'
           /\ \E l : /\ tasks' = tasks \cup {l} /\ l \in Tasks
                     /\ l.req = r /\ l.stage = stage /\ ~l.orphan
<1> DEFINE l == [req |-> r, stage |-> stage, orphan |-> FALSE,
                 size |-> Len(remote), recent |-> recent]
<1>1. Len(remote) \in Nat /\ recent \in BOOLEAN
  BY DataFacts DEF FilesRange
<1>2. l \in Tasks /\ l.req = r /\ l.stage = stage /\ ~l.orphan
  BY <1>1 DEF Tasks
<1>3. tasks' = tasks \cup {l}
  BY DEF Busy
<1> HIDE DEF l
<1>4. channelUp' \in BOOLEAN /\ tasks' \subseteq Tasks
  BY <1>2, <1>3 DEF WireRange
<1>5. \A k \in tasks' :
         IF PastRead(k)
         THEN /\ Pushing(k.req.of) /\ k.req.op = "write"
              /\ k.req.index = TotalChunks(k.req.of)
         ELSE ~Pushing(k.req.of) /\ k.req.op = "stat"
  <2>1. IF PastRead(l)
        THEN /\ Pushing(l.req.of) /\ l.req.op = "write"
             /\ l.req.index = TotalChunks(l.req.of)
        ELSE ~Pushing(l.req.of) /\ l.req.op = "stat"
    BY <1>2 DEF PastRead
  <2> QED BY <1>3, <2>1 DEF WireRange
<1>6. \A k, m \in tasks' : ~k.orphan /\ ~m.orphan => k = m
  BY <1>3
<1>7. WireRange'
  BY <1>4, <1>5, <1>6, WireKept
<1> QED BY <1>2, <1>3, <1>7

(* A task that is over, or goes on as another.                             *)
LEMMA TaskEnds ==
    ASSUME WireRange, NEW k \in tasks, UNCHANGED <<channelUp, wireToAgent>>,
           \/ tasks' = tasks \ {k}
           \/ \E l \in Tasks :
                 /\ tasks' = (tasks \ {k}) \cup {l}
                 /\ l.req = k.req /\ (PastRead(l) <=> PastRead(k))
                 /\ l.orphan = k.orphan
    PROVE  WireRange'
<1>1. k \in Tasks
  BY DEF WireRange
<1>2. CASE tasks' = tasks \ {k}
  <2>1. channelUp' \in BOOLEAN /\ tasks' \subseteq Tasks
    BY <1>2 DEF WireRange
  <2>2. \A m \in tasks' :
           IF PastRead(m)
           THEN /\ Pushing(m.req.of) /\ m.req.op = "write"
                /\ m.req.index = TotalChunks(m.req.of)
           ELSE ~Pushing(m.req.of) /\ m.req.op = "stat"
    BY <1>2 DEF WireRange
  <2>3. \A m, n \in tasks' : ~m.orphan /\ ~n.orphan => m = n
    BY <1>2 DEF WireRange
  <2> QED BY <2>1, <2>2, <2>3, WireKept
<1>3. ASSUME NEW l \in Tasks, tasks' = (tasks \ {k}) \cup {l},
             l.req = k.req, PastRead(l) <=> PastRead(k), l.orphan = k.orphan
      PROVE  WireRange'
  <2>1. channelUp' \in BOOLEAN /\ tasks' \subseteq Tasks
    BY <1>3 DEF WireRange
  <2>2. \A m \in tasks' :
           IF PastRead(m)
           THEN /\ Pushing(m.req.of) /\ m.req.op = "write"
                /\ m.req.index = TotalChunks(m.req.of)
           ELSE ~Pushing(m.req.of) /\ m.req.op = "stat"
    BY <1>3 DEF WireRange
  <2>3. \A m, n \in tasks' : ~m.orphan /\ ~n.orphan => m = n
    BY <1>3 DEF WireRange
  <2> QED BY <2>1, <2>2, <2>3, WireKept
<1> QED BY <1>2, <1>3

LEMMA WritesLastChunkKeeps ==
    ASSUME TransferInv, WritesLastChunk
    PROVE  TransferInv'
<1>0. PICK r : r = Head(wireToAgent)
  OBVIOUS
<1> DEFINE t == r.of
<1>1. /\ AgentReads /\ r.op = "write" /\ r.index = TotalChunks(t)
      /\ UNCHANGED <<recent, swapped, confirmed, channelUp, spoiled, unheard,
                     local, xfer, verdict>>
      /\ \/ /\ (\E swept \in Swept(r) : Stages(r, swept)) /\ UNCHANGED pinned
            /\ parts'[t] = Content(t)
            /\ Busy(r, "swap") /\ UNCHANGED answer
         \/ /\ (\E swept \in Swept(r) : Unstages(r, swept)) /\ UNCHANGED <<remote, tasks>>
            /\ Answers(r, Refusal, FALSE)
  BY <1>0 DEF WritesLastChunk
<1>2. /\ HandlersRange /\ FilesRange /\ WireRange /\ TakesRequest(t)
      /\ wireToAgent # <<>> /\ wireToAgent' = Tail(wireToAgent)
      /\ r \in Requests /\ t \in Transfers /\ Pushing(t)
      /\ (UNCHANGED <<channelUp, tasks>> => WireRange')
      /\ \A k \in tasks : k.orphan
  BY <1>0, <1>1, AgentFacts
<1>3. CASE /\ \E swept \in Swept(r) : Unstages(r, swept)
           /\ UNCHANGED <<remote, tasks>> /\ Answers(r, Refusal, FALSE)
  <2>1. Cleared(t)
    <3>1. PICK swept \in Swept(r) : Unstages(r, swept)
      BY <1>3
    <3>2. swept \in SUBSET Transfers /\ t \notin swept
      BY SweptFacts
    <3> QED BY <1>2, <3>1, <3>2, UnstagesFacts DEF Pushing
  <2>2. /\ answer' \in [Transfers -> SUBSET TransferReplies]
        /\ \A u \in Transfers \ {t} : answer'[u] = answer[u]
        /\ \A a, b \in answer'[t] : a = b
        /\ ~Waiting(t) => answer'[t] = {}
        /\ answer'[t] = answer[t] \/ answer'[t] = {Refusal}
    BY <1>2, <1>3, AnswersFacts, ReplyTypes
  <2>3. /\ unheard \subseteq unheard' /\ remote' \in Whole /\ recent' \in BOOLEAN
        /\ swapped' = swapped /\ swapped' \subseteq Contents
        /\ confirmed' = confirmed /\ confirmed' \subseteq swapped'
        /\ \A u : Finishing(u)' = Finishing(u)
    BY <1>1, <1>2, <1>3 DEF FilesRange, Finishing
  <2>4. Spares(t)
    BY <1>1, <1>2, <1>3, <2>1, <2>2, <2>3 DEF Spares, Cleared
  <2>5. answer'[t] = answer[t] \/ \A reply \in answer'[t] : ~reply.ok
    BY <2>2, ReplyTypes
  <2> QED BY <1>1, <1>2, <1>3, <2>4, <2>5, <1>0, ChunkStaged
<1>4. CASE /\ (\E swept \in Swept(r) : Stages(r, swept)) /\ UNCHANGED pinned
           /\ parts'[t] = Content(t)
           /\ Busy(r, "swap") /\ UNCHANGED answer
  <2>1. /\ remote' = remote /\ parts' \in [Transfers -> Seq(Pieces)]
        /\ \A u \in Transfers \ {t} : parts'[u] \in {parts[u], Absent}
    <3>1. PICK swept \in Swept(r) : Stages(r, swept)
      BY <1>4
    <3>2. swept \in SUBSET Transfers /\ t \notin swept
      BY SweptFacts
    <3> QED BY <1>2, <3>1, <3>2, StagesFacts DEF Pushing, Stages
  <2>0. r.of = t /\ Head(wireToAgent) = r
    BY <1>0
  <2> HIDE DEF t
  <2>2. /\ WireRange'
        /\ \E l : /\ tasks' = tasks \cup {l} /\ l \in Tasks
                  /\ l.req = r /\ l.stage = "swap" /\ ~l.orphan
    BY <1>1, <1>2, <1>4, <2>0, TaskBegins DEF TaskStages
  <2>3. PICK l : /\ tasks' = tasks \cup {l} /\ l \in Tasks
                 /\ l.req = r /\ l.stage = "swap" /\ ~l.orphan
    BY <2>2
  <2>4. /\ Finishing(t)' = Finishing(t) \cup {l}
        /\ \A u \in Transfers \ {t} : Finishing(u)' = Finishing(u)
    BY <2>0, <2>3 DEF Finishing, PastRead
  <2>5. Spares(t)
    <3>1. /\ unheard \subseteq unheard' /\ remote' \in Whole /\ recent' \in BOOLEAN
          /\ swapped' = swapped /\ swapped' \subseteq Contents
          /\ confirmed' = confirmed /\ confirmed' \subseteq swapped'
          /\ pinned' = pinned /\ pinned \subseteq Contents
      BY <1>1, <1>2, <1>4, <2>1 DEF FilesRange
    <3>2. /\ answer' = answer /\ answer \in [Transfers -> SUBSET TransferReplies]
          /\ \A a, b \in answer'[t] : a = b
          /\ ~Waiting(t) => answer'[t] = {}
      BY <1>2, <1>4 DEF HandlersRange
    <3> QED BY <1>1, <2>1, <2>2, <2>4, <3>1, <3>2 DEF Spares
  <2>6. /\ ~Taken(t) /\ PushInv(t) /\ OnWire(t, "write")' = {}
        /\ xfer[t].pc \in {"waiting", "abort", "aborting", "done"}
        /\ r.index = xfer[t].index
        /\ xfer[t].pc = "waiting" => answer[t] = {} /\ verdict[t] = "none"
        /\ IsLast(t) => xfer[t].pc = "waiting" \/ verdict[t] = "unknown"
        /\ IsLast(t)' = IsLast(t)
        /\ Place(t)' /\ OnItsWay(t)'
        /\ OnWire(t, "abort")' = {} <=> OnWire(t, "abort") = {}
        /\ verdict[t] = "ok" => t \in confirmed'
    BY <1>1, <1>2, <2>5, <2>0, ChunkGone
  <2>7. IsLast(t) /\ UNCHANGED <<xfer, verdict>> /\ answer' = answer
    BY <1>1, <1>4, <2>6 DEF IsLast
  <2>8. Finishing(t)' = {l} /\ t \notin swapped' /\ t \notin swapped
    BY <1>1, <2>4, <2>6 DEF Taken
  <2>9. StillUnsent(t)'
    BY <2>6, <2>7 DEF StillUnsent, PushInv
  <2>10. TakenOnce(t)'
    BY <1>4, <2>3, <2>6, <2>7, <2>8 DEF TakenOnce
  <2>11. RightlyAnswered(t)' /\ Tidy(t)'
    BY <2>6, <2>7 DEF RightlyAnswered, Tidy, PushInv, Place
  <2>12. PushInv(t)'
    BY <2>6, <2>9, <2>10, <2>11 DEF PushInv
  <2> QED BY <1>2, <2>5, <2>12, OthersMove
<1> QED BY <1>1, <1>3, <1>4

(* A push the agent is putting in place.                                   *)
LEMMA FinishingFacts ==
    ASSUME TransferInv, NEW k \in tasks, PastRead(k)
    PROVE  LET t == k.req.of
           IN  /\ t \in Transfers /\ Pushing(t) /\ PushInv(t) /\ k \in Finishing(t)
               /\ Finishing(t) = {k} /\ Taken(t) /\ OnWire(t, "write") = {}
               /\ \A u : u # t => k \notin Finishing(u)
               /\ k \in Tasks /\ k.req \in Requests /\ k.orphan \in BOOLEAN
<1> DEFINE t == k.req.of
<1>1. /\ k \in Tasks /\ k.req \in Requests /\ t \in Transfers /\ Pushing(t)
      /\ k.orphan \in BOOLEAN
  BY DEF TransferInv, WireRange, Tasks, Requests
<1>2. PushInv(t) /\ k \in Finishing(t) /\ Taken(t)
  BY <1>1 DEF TransferInv, Finishing, Taken
<1>3. Finishing(t) = {k} /\ OnWire(t, "write") = {}
  BY <1>2 DEF PushInv, TakenOnce, OnItsWay
<1> QED BY <1>1, <1>2, <1>3 DEF Finishing

LEMMA SwapsKeeps ==
    ASSUME TransferInv, Swaps
    PROVE  TransferInv'
<1>1. PICK k \in tasks :
         /\ k.stage = "swap"
         /\ \/ /\ parts[k.req.of] # Absent
               /\ parts' = [parts EXCEPT ![k.req.of] = Absent]
               /\ remote' = parts[k.req.of] /\ recent' = TRUE
               /\ swapped' = swapped \cup {k.req.of}
               /\ tasks' = (tasks \ {k}) \cup {[k EXCEPT !.stage = "rehash"]}
               /\ UNCHANGED <<answer, pinned>>
            \/ /\ Discards(k.req.of)
               /\ tasks' = tasks \ {k}
               /\ Answers(k.req, Refusal, k.orphan)
               /\ UNCHANGED <<remote, recent, swapped>>
  BY DEF Swaps
<1>2. UNCHANGED <<confirmed, channelUp, wireToAgent, spoiled, unheard, local, xfer, verdict>>
  BY DEF Swaps
<1> DEFINE t == k.req.of
<1>3. /\ t \in Transfers /\ Pushing(t) /\ PushInv(t)
      /\ Finishing(t) = {k} /\ Taken(t) /\ OnWire(t, "write") = {}
      /\ \A u : u # t => k \notin Finishing(u)
      /\ k \in Tasks /\ k.req \in Requests /\ k.orphan \in BOOLEAN /\ k.req.of = t
  BY <1>1, FinishingFacts DEF PastRead
<1>4. HandlersRange /\ FilesRange /\ WireRange
  BY DEF TransferInv
<1> HIDE DEF t
<1>5. t \notin swapped /\ parts[t] \in {Absent, Content(t)} /\ IsLast(t)
  BY <1>1, <1>3 DEF PushInv, TakenOnce
<1>6. /\ Cleared(t)
      /\ parts[t] # Absent /\ parts' = [parts EXCEPT ![t] = Absent] => parts'[t] = Absent
  <2>1. CASE Discards(t)
    BY <1>3, <1>4, <2>1, DiscardsFacts DEF Pushing, FilesRange
  <2>2. CASE parts' = [parts EXCEPT ![t] = Absent] /\ UNCHANGED pinned
    BY <1>3, <1>4, <2>2, DataFacts DEF FilesRange, Cleared
  <2> QED BY <1>1, <1>3, <2>1, <2>2
<1>7. /\ OnWire(t, "write")' = {} /\ OnWire(t, "abort")' = OnWire(t, "abort")
      /\ IsLast(t)' = IsLast(t)
  BY <1>2, <1>3 DEF OnWire, IsLast
<1>8. /\ xfer[t].pc \notin {"unused", "idle", "ready"}
      /\ Place(t)' /\ OnItsWay(t)' /\ Tidy(t)'
      /\ verdict[t] = "ok" => t \in confirmed'
  BY <1>2, <1>3, <1>6, <1>7
     DEF PushInv, Place, OnItsWay, StillUnsent, Tidy, RightlyAnswered, Cleared
<1>9. StillUnsent(t)'
  BY <1>2, <1>3, <1>7, <1>8 DEF PushInv, StillUnsent
<1>10. CASE /\ parts[t] # Absent
            /\ parts' = [parts EXCEPT ![t] = Absent]
            /\ remote' = parts[t] /\ recent' = TRUE
            /\ swapped' = swapped \cup {t}
            /\ tasks' = (tasks \ {k}) \cup {[k EXCEPT !.stage = "rehash"]}
            /\ UNCHANGED <<answer, pinned>>
  <2> DEFINE l == [k EXCEPT !.stage = "rehash"]
  <2>1. /\ l \in Tasks /\ l.stage = "rehash" /\ l.req = k.req /\ l.orphan = k.orphan
        /\ tasks' = (tasks \ {k}) \cup {l}
    BY <1>3, <1>10 DEF Tasks, TaskStages
  <2> HIDE DEF l
  <2>2. PastRead(l) /\ PastRead(k)
    BY <1>1, <2>1 DEF PastRead
  <2>3. WireRange'
    BY <1>2, <1>4, <2>1, <2>2, TaskEnds
  <2>4. /\ Finishing(t)' = {l}
        /\ \A u \in Transfers \ {t} : Finishing(u)' = Finishing(u)
    BY <1>3, <2>1, <2>2 DEF Finishing
  <2>5. t \in Contents /\ Content(t) \in Whole
    BY <1>3, DataFacts DEF Pushing
  <2>6. /\ answer' = answer /\ answer \in [Transfers -> SUBSET TransferReplies]
        /\ \A a, b \in answer'[t] : a = b
        /\ ~Waiting(t) => answer'[t] = {}
    BY <1>3, <1>4, <1>10 DEF HandlersRange
  <2>7. /\ remote' \in Whole /\ recent' \in BOOLEAN
        /\ swapped \subseteq swapped' /\ swapped' \subseteq Contents
        /\ confirmed' = confirmed /\ confirmed' \subseteq swapped'
        /\ \A u \in Transfers \ {t} : u \in swapped' <=> u \in swapped
    BY <1>2, <1>4, <1>5, <1>10, <2>5 DEF FilesRange
  <2>8. Spares(t)
    BY <1>2, <1>6, <2>3, <2>4, <2>6, <2>7 DEF Spares, Cleared
  <2>9. TakenOnce(t)'
    <3>1. t \in swapped'
      BY <1>10
    <3>2. \A a, b \in Finishing(t)' : a = b
      BY <2>4
    <3>3. \A a \in Finishing(t)' : a.stage = "rehash"
      BY <2>1, <2>4
    <3>4. /\ IsLast(t) /\ verdict'[t] # "untouched"
          /\ \/ verdict'[t] = "rejected"
             \/ xfer'[t].pc = "waiting" /\ \E reply \in answer'[t] : ~reply.ok
             => t \in spoiled'
      BY <1>2, <1>3, <2>6 DEF PushInv, TakenOnce
    <3> QED BY <1>6, <1>7, <1>10, <3>1, <3>2, <3>3, <3>4 DEF TakenOnce
  <2>10. RightlyAnswered(t)'
    BY <1>2, <1>3, <1>6, <1>7, <1>8, <1>10, <2>6 DEF RightlyAnswered, PushInv
  <2>11. PushInv(t)'
    BY <1>8, <1>9, <2>9, <2>10 DEF PushInv
  <2> QED BY <1>2, <1>3, <2>8, <2>11, OthersMove
<1>11. CASE /\ Discards(t)
            /\ tasks' = tasks \ {k}
            /\ Answers(k.req, Refusal, k.orphan)
            /\ UNCHANGED <<remote, recent, swapped>>
  <2>1. WireRange'
    BY <1>2, <1>4, <1>11, TaskEnds
  <2>2. /\ Finishing(t)' = {}
        /\ \A u \in Transfers \ {t} : Finishing(u)' = Finishing(u)
    BY <1>3, <1>11 DEF Finishing
  <2>3. /\ answer' \in [Transfers -> SUBSET TransferReplies]
        /\ \A u \in Transfers \ {t} : answer'[u] = answer[u]
        /\ \A a, b \in answer'[t] : a = b
        /\ ~Waiting(t) => answer'[t] = {}
        /\ answer'[t] = answer[t] \/ answer'[t] = {Refusal}
    BY <1>3, <1>4, <1>11, AnswersFacts, ReplyTypes
  <2>4. /\ remote' \in Whole /\ recent' \in BOOLEAN
        /\ swapped' = swapped /\ swapped' \subseteq Contents
        /\ confirmed' = confirmed /\ confirmed' \subseteq swapped'
    BY <1>2, <1>4, <1>11 DEF FilesRange
  <2>5. Spares(t)
    BY <1>2, <1>6, <2>1, <2>2, <2>3, <2>4 DEF Spares, Cleared
  <2>6. TakenOnce(t)'
    BY <1>5, <2>2, <2>4 DEF TakenOnce, Taken
  <2>7. RightlyAnswered(t)'
    <3>1. \A reply \in answer'[t] : reply.ok => reply \in answer[t]
      BY <2>3, ReplyTypes
    <3>2. parts[t] = Absent => parts'[t] = Absent
      BY <1>3, <1>4, <1>11 DEF Discards, FilesRange
    <3> QED BY <1>2, <1>3, <1>7, <1>8, <3>1, <3>2 DEF RightlyAnswered, PushInv
  <2>8. PushInv(t)'
    BY <1>8, <1>9, <2>6, <2>7 DEF PushInv
  <2> QED BY <1>2, <1>3, <2>5, <2>8, OthersMove
<1> QED BY <1>1, <1>3, <1>10, <1>11

LEMMA RehashesKeeps ==
    ASSUME TransferInv, Rehashes
    PROVE  TransferInv'
<1>1. PICK k \in tasks :
         /\ k.stage = "rehash" /\ tasks' = tasks \ {k}
         /\ \/ /\ confirmed' = IF remote = Content(k.req.of) THEN confirmed \cup {k.req.of}
                               ELSE confirmed
               /\ Answers(k.req, Reply(TRUE, remote, Len(remote), FALSE), k.orphan)
               /\ UNCHANGED spoiled
            \/ /\ Answers(k.req, Refusal, k.orphan)
               /\ spoiled' = spoiled \cup {k.req.of} /\ UNCHANGED confirmed
  BY DEF Rehashes
<1>2. UNCHANGED <<remote, recent, parts, swapped, pinned, channelUp, wireToAgent, unheard,
                  local, xfer, verdict>>
  BY DEF Rehashes
<1> DEFINE t == k.req.of
<1>3. /\ t \in Transfers /\ Pushing(t) /\ PushInv(t)
      /\ Finishing(t) = {k} /\ Taken(t) /\ OnWire(t, "write") = {}
      /\ \A u : u # t => k \notin Finishing(u)
      /\ k \in Tasks /\ k.req \in Requests /\ k.orphan \in BOOLEAN /\ k.req.of = t
  BY <1>1, FinishingFacts DEF PastRead
<1>4. HandlersRange /\ FilesRange /\ WireRange
  BY DEF TransferInv
<1>5. PICK reply \in TransferReplies :
         /\ Answers(k.req, reply, k.orphan)
         /\ confirmed \subseteq confirmed' /\ confirmed' \subseteq confirmed \cup {t}
         /\ spoiled \subseteq spoiled' /\ spoiled' \subseteq spoiled \cup {t}
         /\ IF reply.ok THEN reply.data = Content(t) => t \in confirmed'
            ELSE t \in spoiled'
  <2>1. remote \in Seq(Pieces) /\ Len(remote) \in Nat
    BY <1>4, DataFacts DEF FilesRange
  <2> QED BY <1>1, <2>1, ReplyTypes
<1> HIDE DEF t
<1>6. t \in swapped /\ parts[t] = Absent /\ IsLast(t)
  BY <1>1, <1>3 DEF PushInv, TakenOnce
<1>7. /\ OnWire(t, "write")' = {} /\ OnWire(t, "abort")' = OnWire(t, "abort")
      /\ IsLast(t)' = IsLast(t)
  BY <1>2, <1>3 DEF OnWire, IsLast
<1>8. /\ confirmed \subseteq confirmed' /\ confirmed' \subseteq swapped'
      /\ swapped' \subseteq Contents
  BY <1>2, <1>4, <1>5, <1>6 DEF FilesRange
<1>9. WireRange'
  BY <1>1, <1>2, <1>4, TaskEnds
<1>10. /\ Finishing(t)' = {}
       /\ \A u \in Transfers \ {t} : Finishing(u)' = Finishing(u)
  BY <1>1, <1>3 DEF Finishing
<1>11. /\ answer' \in [Transfers -> SUBSET TransferReplies]
       /\ \A u \in Transfers \ {t} : answer'[u] = answer[u]
       /\ \A a, b \in answer'[t] : a = b
       /\ ~Waiting(t) => answer'[t] = {}
       /\ answer'[t] = answer[t] \/ answer'[t] = {reply}
  BY <1>3, <1>4, <1>5, AnswersFacts
<1>12. Spares(t)
  <2>1. /\ remote' \in Whole /\ recent' \in BOOLEAN /\ swapped' = swapped
        /\ parts' = parts /\ parts \in [Transfers -> Seq(Pieces)]
        /\ pinned' = pinned /\ pinned \subseteq Contents
    BY <1>2, <1>4 DEF FilesRange
  <2> QED BY <1>2, <1>5, <1>8, <1>9, <1>10, <1>11, <2>1 DEF Spares
<1>13. Place(t)' /\ StillUnsent(t)' /\ OnItsWay(t)' /\ Tidy(t)'
  BY <1>2, <1>3, <1>6, <1>7 DEF PushInv, Place, OnItsWay, StillUnsent, Tidy
<1>14. TakenOnce(t)'
  <2>1. IsLast(t) /\ verdict[t] # "untouched"
    BY <1>3 DEF PushInv, TakenOnce
  <2>2. ASSUME \/ verdict[t] = "rejected"
               \/ xfer[t].pc = "waiting" /\ \E a \in answer'[t] : ~a.ok
        PROVE  t \in spoiled'
    <3>1. CASE verdict[t] = "rejected"
      BY <1>3, <1>5, <3>1 DEF PushInv, TakenOnce
    <3>2. CASE xfer[t].pc = "waiting" /\ \E a \in answer'[t] : ~a.ok
      <4>1. CASE answer'[t] = answer[t]
        BY <1>3, <1>5, <3>2, <4>1 DEF PushInv, TakenOnce
      <4>2. CASE answer'[t] = {reply}
        BY <1>5, <3>2, <4>2
      <4> QED BY <1>11, <4>1, <4>2
    <3> QED BY <2>2, <3>1, <3>2
  <2> QED BY <1>2, <1>7, <1>10, <2>1, <2>2 DEF TakenOnce
<1>15. RightlyAnswered(t)'
  <2>1. ASSUME NEW a \in answer'[t], a.ok, a.data = Content(t), xfer[t].pc = "waiting"
        PROVE  t \in confirmed'
    <3>1. CASE a = reply
      BY <1>5, <2>1, <3>1
    <3>2. CASE a \in answer[t]
      BY <1>3, <1>6, <1>8, <2>1, <3>2 DEF PushInv, RightlyAnswered
    <3> QED BY <1>11, <3>1, <3>2
  <2>2. verdict[t] = "ok" => t \in confirmed'
    BY <1>3, <1>8 DEF PushInv, RightlyAnswered
  <2> QED BY <1>2, <1>6, <2>1, <2>2 DEF RightlyAnswered
<1>16. PushInv(t)'
  BY <1>13, <1>14, <1>15 DEF PushInv
<1> QED BY <1>2, <1>3, <1>12, <1>16, OthersMove

LEMMA DiscardsSidecarKeeps ==
    ASSUME TransferInv, DiscardsSidecar
    PROVE  TransferInv'
<1>1. PICK r : r = Head(wireToAgent)
  OBVIOUS
<1> DEFINE t == r.of
<1>2. /\ AgentReads /\ r.op = "abort" /\ Discards(t)
      /\ Answers(r, Reply(TRUE, <<>>, 0, FALSE), FALSE)
      /\ UNCHANGED <<remote, recent, swapped, confirmed, channelUp, tasks, spoiled, unheard,
                     local, xfer, verdict>>
  BY <1>1 DEF DiscardsSidecar
<1>3. /\ HandlersRange /\ FilesRange /\ WireRange /\ WireRange' /\ TakesRequest(t)
      /\ r \in Requests /\ t \in Transfers /\ Pushing(t) /\ r.of = t
      /\ Head(wireToAgent) = r /\ wireToAgent # <<>> /\ wireToAgent' = Tail(wireToAgent)
  BY <1>1, <1>2, AgentFacts
<1> HIDE DEF t
<1>4. Cleared(t) /\ parts'[t] \in {parts[t], Absent}
  <2>1. t \in Contents /\ Discards(t)
    BY <1>2, <1>3 DEF Pushing, t
  <2> QED BY <1>3, <2>1, DiscardsFacts DEF Discards, FilesRange
<1>5. PICK reply \in TransferReplies : Answers(r, reply, FALSE)
  <2>1. <<>> \in Seq(Pieces) /\ 0 \in Nat /\ FALSE \in BOOLEAN
    BY DataFacts
  <2> QED BY <1>2, <2>1, ReplyTypes
<1>6. /\ answer' \in [Transfers -> SUBSET TransferReplies]
      /\ \A u \in Transfers \ {t} : answer'[u] = answer[u]
      /\ \A a, b \in answer'[t] : a = b
      /\ ~Waiting(t) => answer'[t] = {}
  BY <1>3, <1>5, AnswersFacts
<1>7. Spares(t)
  <2>1. /\ remote' \in Whole /\ recent' \in BOOLEAN
        /\ swapped' \subseteq Contents /\ confirmed' \subseteq swapped'
        /\ \A u : Finishing(u)' = Finishing(u)
    BY <1>2, <1>3 DEF FilesRange, Finishing
  <2> QED BY <1>2, <1>3, <1>4, <1>6, <2>1 DEF Spares, Cleared
<1>8. PushInv(t)
  BY <1>3 DEF TransferInv
<1>9. /\ 1 \in OnWire(t, "abort")
      /\ \A i \in OnWire(t, "write")' : i + 1 \in OnWire(t, "write")
  BY <1>2, <1>3, HeadGone DEF Ops
<1>10. OnWire(t, "write") = {} /\ OnWire(t, "write")' = {}
  <2>1. \A i \in OnWire(t, "write") : i < 1 /\ i \in 1 .. Len(wireToAgent)
    BY <1>8, <1>9 DEF PushInv, OnItsWay, OnWire
  <2> QED BY <1>9, <2>1
<1>11. xfer[t].pc \in {"aborting", "done"}
  <2>1. xfer[t].pc \in Places
    BY <1>3 DEF HandlersRange, Xfers
  <2> QED BY <1>8, <1>9, <2>1 DEF PushInv, StillUnsent, Place, Places
<1>12. (Taken(t)' <=> Taken(t)) /\ Finishing(t)' = Finishing(t) /\ IsLast(t)' = IsLast(t)
  BY <1>2 DEF Taken, Finishing, IsLast
<1>13. Place(t)' /\ StillUnsent(t)' /\ OnItsWay(t)' /\ Tidy(t)'
  BY <1>2, <1>4, <1>8, <1>10, <1>11
     DEF PushInv, Place, OnItsWay, StillUnsent, Tidy, Cleared
<1>14. TakenOnce(t)' /\ RightlyAnswered(t)'
  BY <1>2, <1>4, <1>8, <1>11, <1>12 DEF PushInv, TakenOnce, RightlyAnswered
<1>15. PushInv(t)'
  BY <1>13, <1>14 DEF PushInv
<1> QED BY <1>3, <1>7, <1>15, OthersMove

(* What the agent answers a pull.                                          *)
LEMMA PullAnswered ==
    ASSUME TransferInv, NEW r \in Requests, NEW orphan \in BOOLEAN, ~Pushing(r.of),
           NEW reply \in TransferReplies, Answers(r, reply, orphan),
           r.op = "stat" /\ reply.ok => reply.data \in Whole,
           UNCHANGED wireToAgent \/ TakesRequest(r.of), WireRange',
           \A k \in tasks : PastRead(k) => k \in tasks',
           \A k \in tasks' : PastRead(k) => k \in tasks,
           UNCHANGED <<filesVars, channelUp, spoiled, unheard, local, xfer, verdict>>
    PROVE  TransferInv'
<1> DEFINE t == r.of
<1>1. /\ HandlersRange /\ FilesRange /\ t \in Transfers /\ PullInv(t)
      /\ UNCHANGED <<remote, recent, parts, swapped, confirmed, pinned>>
  BY FilesRest DEF TransferInv, Requests
<1>2. /\ answer' \in [Transfers -> SUBSET TransferReplies]
      /\ \A u \in Transfers \ {t} : answer'[u] = answer[u]
      /\ \A a, b \in answer'[t] : a = b
      /\ ~Waiting(t) => answer'[t] = {}
      /\ \/ answer'[t] = answer[t]
         \/ answer'[t] = {reply} /\ xfer[t].asked = r
  BY <1>1, AnswersFacts
<1>3. \A u : Finishing(u)' = Finishing(u)
  BY DEF Finishing
<1>4. Spares(t)
  BY <1>1, <1>2, <1>3 DEF Spares, FilesRange
<1>5. PullInv(t)'
  BY <1>1, <1>2 DEF PullInv
<1> QED BY <1>1, <1>4, <1>5, OthersMove

LEMMA StatsKeeps ==
    ASSUME TransferInv, Stats
    PROVE  TransferInv'
<1>1. PICK r : r = Head(wireToAgent)
  OBVIOUS
<1> DEFINE t == r.of
<1>2. /\ AgentReads /\ r.op = "stat"
      /\ UNCHANGED <<filesVars, channelUp, spoiled, unheard, local, xfer, verdict>>
      /\ \/ Answers(r, Reply(TRUE, Absent, 0, FALSE), FALSE) /\ UNCHANGED tasks
         \/ Busy(r, "hash") /\ UNCHANGED answer
  BY <1>1 DEF Stats
<1>3. /\ HandlersRange /\ FilesRange /\ WireRange /\ TakesRequest(t)
      /\ r \in Requests /\ t \in Transfers /\ ~Pushing(t) /\ r.of = t
      /\ wireToAgent # <<>> /\ wireToAgent' = Tail(wireToAgent)
      /\ (UNCHANGED <<channelUp, tasks>> => WireRange')
      /\ \A k \in tasks : k.orphan
  BY <1>1, <1>2, AgentFacts
<1>4. CASE Answers(r, Reply(TRUE, Absent, 0, FALSE), FALSE) /\ UNCHANGED tasks
  <2>1. Absent \in Seq(Pieces) /\ Absent \in Whole /\ 0 \in Nat /\ FALSE \in BOOLEAN
    BY DataFacts
  <2>2. PICK reply \in TransferReplies : Answers(r, reply, FALSE) /\ reply.data \in Whole
    BY <1>4, <2>1, ReplyTypes
  <2> QED BY <1>2, <1>3, <1>4, <2>1, <2>2, PullAnswered
<1>5. CASE Busy(r, "hash") /\ UNCHANGED answer
  <2> HIDE DEF t
  <2>1. /\ WireRange'
        /\ \E l : /\ tasks' = tasks \cup {l} /\ l \in Tasks
                  /\ l.req = r /\ l.stage = "hash" /\ ~l.orphan
    BY <1>2, <1>3, <1>5, TaskBegins DEF TaskStages
  <2>2. \A u : Finishing(u)' = Finishing(u)
    BY <2>1 DEF Finishing, PastRead
  <2>3. UNCHANGED <<remote, recent, parts, swapped, confirmed, pinned>>
    BY <1>2, FilesRest
  <2>4. Spares(t)
    BY <1>2, <1>3, <1>5, <2>1, <2>2, <2>3 DEF Spares, FilesRange, HandlersRange
  <2>5. PullInv(t)'
    BY <1>2, <1>3, <1>5, <2>3 DEF TransferInv, PullInv
  <2> QED BY <1>3, <2>4, <2>5, OthersMove
<1> QED BY <1>2, <1>4, <1>5

LEMMA StatHashesKeeps ==
    ASSUME TransferInv, StatHashes
    PROVE  TransferInv'
<1>1. PICK k \in tasks :
         /\ k.stage = "hash" /\ tasks' = tasks \ {k}
         /\ Answers(k.req, Reply(TRUE, remote, k.size, k.recent), k.orphan)
  BY DEF StatHashes
<1>2. UNCHANGED <<filesVars, channelUp, wireToAgent, spoiled, unheard, local, xfer, verdict>>
  BY DEF StatHashes
<1>3. FilesRange /\ WireRange
  BY DEF TransferInv
<1>4. /\ k.req \in Requests /\ k.orphan \in BOOLEAN /\ ~Pushing(k.req.of) /\ ~PastRead(k)
      /\ k.size \in Nat /\ k.recent \in BOOLEAN
  BY <1>1, <1>3 DEF WireRange, Tasks, PastRead
<1>5. WireRange'
  BY <1>1, <1>2, <1>3, TaskEnds
<1>6. PICK reply \in TransferReplies :
         Answers(k.req, reply, k.orphan) /\ reply.data = remote
  <2>1. remote \in Seq(Pieces)
    BY <1>3, DataFacts DEF FilesRange
  <2> QED BY <1>1, <1>4, <2>1, ReplyTypes
<1>7. reply.data \in Whole
  BY <1>3, <1>6 DEF FilesRange
<1>8. /\ \A l \in tasks : PastRead(l) => l \in tasks'
      /\ \A l \in tasks' : PastRead(l) => l \in tasks
  BY <1>1, <1>4
<1> QED BY <1>2, <1>4, <1>5, <1>6, <1>7, <1>8, PullAnswered

LEMMA ReadsChunkKeeps ==
    ASSUME TransferInv, ReadsChunk
    PROVE  TransferInv'
<1>1. PICK r : r = Head(wireToAgent)
  OBVIOUS
<1>2. /\ AgentReads /\ r.op = "read"
      /\ UNCHANGED <<filesVars, channelUp, tasks, spoiled, unheard, local, xfer, verdict>>
      /\ Answers(r, IF remote = Absent THEN Refusal
                    ELSE Reply(TRUE, ChunkAt(r.index), 0, FALSE), FALSE)
  BY <1>1 DEF ReadsChunk
<1>3. /\ FilesRange /\ WireRange' /\ TakesRequest(r.of) /\ r \in Requests /\ ~Pushing(r.of)
  BY <1>1, <1>2, AgentFacts
<1>4. PICK reply \in TransferReplies : Answers(r, reply, FALSE)
  <2>1. ChunkAt(r.index) \in Seq(Pieces) /\ 0 \in Nat /\ FALSE \in BOOLEAN
    BY <1>3, ChunkAtType DEF FilesRange
  <2> QED BY <1>2, <2>1, ReplyTypes
<1>5. FALSE \in BOOLEAN /\ r.op # "stat"
  BY <1>2
<1> QED BY <1>2, <1>3, <1>4, <1>5, PullAnswered

(* The machine's other programs, and an agent that comes back.             *)
LEMMA QuietSteps ==
    ASSUME TransferInv, remote' \in Whole, recent' \in BOOLEAN, channelUp' \in BOOLEAN,
           UNCHANGED <<parts, swapped, confirmed, pinned, wireToAgent, tasks, spoiled, unheard,
                       local, answer, xfer, verdict>>
    PROVE  TransferInv'
<1> USE DEF TransferInv
<1>1. FilesRange'
  BY DEF FilesRange
<1>2. HandlersRange'
  BY DEF HandlersRange, Waiting
<1>3. WireRange'
  BY DEF WireRange
<1>4. ASSUME NEW u \in Transfers
      PROVE  IF Pushing(u) THEN PushInv(u)' ELSE PullInv(u)'
  <2>1. SameHandler(u) /\ SameFiles(u)
    BY DEF SameHandler, SameFiles, Finishing
  <2>2. PICK s \in {0, 1} : WireShifts(u, s)
    BY Carried
  <2>3. CASE Pushing(u)
    BY <2>1, <2>2, <2>3, PushStays
  <2>4. CASE ~Pushing(u)
    BY <2>1, <2>4, PullStays DEF SameFiles
  <2> QED BY <2>3, <2>4
<1> QED BY <1>1, <1>2, <1>3, <1>4

LEMMA RemoteWritesKeeps ==
    ASSUME TransferInv, NEW v \in Versions, RemoteWrites(v)
    PROVE  TransferInv'
<1>1. v \in Contents /\ Content(v) \in Whole
  BY TransferAssumption, DataFacts DEF TransferAssumption
<1>2. /\ remote' \in Whole /\ recent' \in BOOLEAN /\ channelUp' \in BOOLEAN
      /\ UNCHANGED <<parts, swapped, confirmed, pinned, wireToAgent, tasks, spoiled, unheard,
                     local, answer, xfer, verdict>>
  BY <1>1, ChannelRests DEF RemoteWrites, TransferInv, WireRange
<1> QED BY <1>2, QuietSteps

LEMMA AgentIsBackKeeps ==
    ASSUME TransferInv, AgentIsBack
    PROVE  TransferInv'
<1>1. /\ remote' \in Whole /\ recent' \in BOOLEAN /\ channelUp' \in BOOLEAN
      /\ UNCHANGED <<parts, swapped, confirmed, pinned, wireToAgent, tasks, spoiled, unheard,
                     local, answer, xfer, verdict>>
  BY FilesRest DEF AgentIsBack, TransferInv, FilesRange
<1> QED BY <1>1, QuietSteps

LEMMA RequestLostKeeps ==
    ASSUME TransferInv, RequestLost
    PROVE  TransferInv'
<1>1. PICK r : r = Head(wireToAgent)
  OBVIOUS
<1> DEFINE t == r.of
<1>2. /\ wireToAgent # <<>> /\ wireToAgent' = Tail(wireToAgent)
      /\ unheard' = unheard \cup Aborted(SubSeq(wireToAgent, 1, 1))
      /\ UNCHANGED <<remote, recent, parts, swapped, confirmed, pinned, channelUp, tasks, spoiled,
                     local, answer, xfer, verdict>>
  BY FilesRest DEF RequestLost
<1>3. /\ HandlersRange /\ FilesRange /\ WireRange /\ r \in Requests /\ t \in Transfers
      /\ r.op \in {"write", "abort"} <=> Pushing(t)
      /\ Head(wireToAgent) = r /\ wireToAgent[1] = r /\ TakesRequest(t)
  BY <1>1, <1>2, HeadFacts, WireTails DEF TransferInv, TakesRequest
<1>4. WireRange'
  BY <1>2, <1>3, WireKept DEF WireRange
<1> HIDE DEF t
<1>5. Spares(t)
  <2>1. /\ remote' \in Whole /\ recent' \in BOOLEAN
        /\ swapped' \subseteq Contents /\ confirmed' \subseteq swapped'
        /\ parts' \in [Transfers -> Seq(Pieces)]
        /\ pinned' = pinned /\ pinned \subseteq Contents
        /\ \A u : Finishing(u)' = Finishing(u)
    BY <1>2, <1>3 DEF FilesRange, Finishing
  <2>2. /\ answer' \in [Transfers -> SUBSET TransferReplies] /\ \A a, b \in answer'[t] : a = b
        /\ ~Waiting(t) => answer'[t] = {}
    BY <1>2, <1>3 DEF HandlersRange
  <2> QED BY <1>2, <1>4, <2>1, <2>2 DEF Spares
<1>6. CASE r.op = "write"
  <2>1. Pushing(t)
    BY <1>3, <1>6
  <2> QED BY <1>2, <1>3, <1>5, <1>6, <2>1, ChunkStaged
<1>7. CASE r.op = "abort"
  <2>1. Pushing(t) /\ PushInv(t)
    BY <1>3, <1>7 DEF TransferInv
  <2>2. t \in unheard'
    <3>1. /\ DOMAIN SubSeq(wireToAgent, 1, 1) = {1}
          /\ SubSeq(wireToAgent, 1, 1)[1] = r
      BY <1>2, <1>3 DEF WireRange
    <3> QED BY <1>2, <1>7, <3>1 DEF Aborted, t
  <2>3. /\ 1 \in OnWire(t, "abort")
        /\ \A i \in OnWire(t, "write")' : i + 1 \in OnWire(t, "write")
    BY <1>2, <1>3, <1>7, HeadGone DEF Ops, t
  <2>4. OnWire(t, "write") = {} /\ OnWire(t, "write")' = {}
    <3>1. \A i \in OnWire(t, "write") : i < 1 /\ i \in 1 .. Len(wireToAgent)
      BY <2>1, <2>3 DEF PushInv, OnItsWay, OnWire
    <3> QED BY <2>3, <3>1
  <2>5. xfer[t].pc \in {"aborting", "done"}
    <3>1. xfer[t].pc \in Places
      BY <1>3 DEF HandlersRange, Xfers
    <3> QED BY <2>1, <2>3, <3>1 DEF PushInv, StillUnsent, Place, Places
  <2>6. (Taken(t)' <=> Taken(t)) /\ Finishing(t)' = Finishing(t) /\ IsLast(t)' = IsLast(t)
    BY <1>2 DEF Taken, Finishing, IsLast
  <2>7. Place(t)' /\ StillUnsent(t)' /\ OnItsWay(t)' /\ Tidy(t)'
    BY <1>2, <2>1, <2>2, <2>4, <2>5 DEF PushInv, Place, OnItsWay, StillUnsent, Tidy
  <2>8. TakenOnce(t)' /\ RightlyAnswered(t)'
    BY <1>2, <2>1, <2>6 DEF PushInv, TakenOnce, RightlyAnswered
  <2>9. PushInv(t)'
    BY <2>7, <2>8 DEF PushInv
  <2> QED BY <1>3, <1>5, <2>1, <2>9, OthersMove
<1>8. CASE ~Pushing(t)
  <2>1. PullInv(t)'
    BY <1>2, <1>3, <1>8 DEF TransferInv, PullInv
  <2> QED BY <1>3, <1>5, <1>8, <2>1, OthersMove
<1> QED BY <1>3, <1>6, <1>7, <1>8

(* Every request on the wire is lost, every task orphaned or lost, and     *)
(* every handler that waits is answered.                                   *)
LEMMA FileChannelClosesKeeps ==
    ASSUME TransferInv, FileChannelCloses
    PROVE  TransferInv'
<1> DEFINE cut == {t \in Transfers : Waiting(t) /\ answer[t] = {}}
           left == {[k EXCEPT !.orphan = TRUE] : k \in tasks}
<1>1. /\ channelUp' = FALSE /\ wireToAgent' = <<>>
      /\ unheard' = unheard \cup Aborted(wireToAgent)
      /\ answer' = [t \in Transfers |-> IF t \in cut THEN {Refusal} ELSE answer[t]]
      /\ spoiled' = spoiled \cup cut
      /\ tasks' = {} \/ tasks' = left
      /\ UNCHANGED <<remote, recent, parts, swapped, confirmed, pinned, local, xfer, verdict>>
  BY FilesRest DEF FileChannelCloses
<1>2. HandlersRange /\ FilesRange /\ WireRange
  BY DEF TransferInv
<1>3. /\ cut \subseteq Transfers
      /\ \A t \in Transfers : t \in cut <=> Waiting(t) /\ answer[t] = {}
  OBVIOUS
<1>4. \A l \in tasks' : \E k \in tasks : /\ l.req = k.req /\ l.stage = k.stage /\ l.orphan
                                         /\ l \in Tasks
                                         /\ l = [k EXCEPT !.orphan = TRUE]
  <2> DEFINE Cut(k) == [k EXCEPT !.orphan = TRUE]
  <2>1. \A k \in tasks : /\ Cut(k).req = k.req /\ Cut(k).stage = k.stage
                         /\ Cut(k).orphan /\ Cut(k) \in Tasks
    BY <1>2 DEF WireRange, Tasks
  <2>2. \A l \in left : \E k \in tasks : l = Cut(k)
    OBVIOUS
  <2> HIDE DEF Cut
  <2>3. \A l \in left : \E k \in tasks : /\ l.req = k.req /\ l.stage = k.stage /\ l.orphan
                                         /\ l \in Tasks /\ l = Cut(k)
    BY <2>1, <2>2
  <2> HIDE DEF left
  <2>4. \A l \in tasks' : \E k \in tasks : /\ l.req = k.req /\ l.stage = k.stage /\ l.orphan
                                           /\ l \in Tasks /\ l = Cut(k)
    BY <1>1, <2>3
  <2> QED BY <2>4 DEF Cut
<1> HIDE DEF cut, left
<1>5. FilesRange'
  BY <1>1, <1>2 DEF FilesRange
<1>6. ASSUME NEW t \in Transfers
      PROVE  /\ answer'[t] = IF t \in cut THEN {Refusal} ELSE answer[t]
             /\ answer'[t] \in SUBSET TransferReplies
             /\ \A a, b \in answer'[t] : a = b
             /\ ~Waiting(t) => answer'[t] = {}
             /\ \A a \in answer'[t] : a.ok => a \in answer[t]
             /\ t \in cut => t \in spoiled'
             /\ t \notin cut => answer'[t] = answer[t]
  <2>1. answer'[t] = IF t \in cut THEN {Refusal} ELSE answer[t]
    BY <1>1
  <2> QED BY <1>1, <1>2, <1>3, <2>1, ReplyTypes DEF HandlersRange
<1>7. HandlersRange'
  <2>1. DOMAIN answer' = Transfers /\ answer' = [t \in Transfers |-> answer'[t]]
    BY <1>1
  <2>2. answer' \in [Transfers -> SUBSET TransferReplies]
    BY <1>6, <2>1
  <2>3. spoiled' \subseteq Transfers
    BY <1>1, <1>2, <1>3 DEF HandlersRange
  <2>4. \A t \in Transfers : Waiting(t)' = Waiting(t)
    BY <1>1 DEF Waiting
  <2> QED BY <1>1, <1>2, <1>6, <2>2, <2>3, <2>4 DEF HandlersRange
<1>8. WireRange'
  <2>1. tasks' \subseteq Tasks /\ \A l \in tasks' : l.orphan
    BY <1>4
  <2>2. \A l \in tasks' :
           IF PastRead(l)
           THEN /\ Pushing(l.req.of) /\ l.req.op = "write"
                /\ l.req.index = TotalChunks(l.req.of)
           ELSE ~Pushing(l.req.of) /\ l.req.op = "stat"
    BY <1>2, <1>4 DEF WireRange, PastRead
  <2>3. wireToAgent' \in Seq(Requests) /\ Len(wireToAgent') = 0
    BY <1>1
  <2>4. \A i \in 1 .. Len(wireToAgent') :
           wireToAgent'[i].op \in {"write", "abort"} <=> Pushing(wireToAgent'[i].of)
    BY <2>3
  <2>5. channelUp' \in BOOLEAN
    BY <1>1
  <2> QED BY <2>1, <2>2, <2>3, <2>4, <2>5 DEF WireRange
<1>9. ASSUME NEW t \in Transfers, Pushing(t) PROVE PushInv(t)'
  <2>1. PushInv(t) /\ IsLast(t)' = IsLast(t)
    BY <1>1, <1>9 DEF TransferInv, IsLast
  <2>2. \A op : OnWire(t, op)' = {}
    BY <1>1 DEF OnWire
  <2>3. \A l \in Finishing(t)' : \E k \in Finishing(t) :
           l.stage = k.stage /\ l = [k EXCEPT !.orphan = TRUE]
    BY <1>4 DEF Finishing, PastRead
  <2>4. Taken(t)' => Taken(t)
    BY <1>1, <2>3 DEF Taken
  <2>5. Place(t)' /\ StillUnsent(t)' /\ OnItsWay(t)'
    BY <1>1, <2>1, <2>2, <2>4 DEF PushInv, Place, StillUnsent, OnItsWay
  <2>6. TakenOnce(t)'
    <3>1. \A k, l \in Finishing(t)' : k = l
      BY <2>1, <2>3 DEF PushInv, TakenOnce
    <3>2. \A k \in Finishing(t)' :
             IF k.stage = "swap"
             THEN t \notin swapped' /\ parts'[t] \in {Absent, Content(t)}
             ELSE t \in swapped' /\ parts'[t] = Absent
      BY <1>1, <2>1, <2>3 DEF PushInv, TakenOnce
    <3>3. Taken(t)' =>
             /\ IsLast(t) /\ verdict'[t] # "untouched"
             /\ \/ verdict'[t] = "rejected"
                \/ xfer'[t].pc = "waiting" /\ \E reply \in answer'[t] : ~reply.ok
                => t \in spoiled'
      BY <1>1, <1>6, <2>1, <2>4 DEF PushInv, TakenOnce
    <3> QED BY <2>1, <3>1, <3>2, <3>3 DEF TakenOnce
  <2>7. RightlyAnswered(t)'
    BY <1>1, <1>6, <2>1 DEF PushInv, RightlyAnswered
  <2>8. Tidy(t)'
    <3>1. OnWire(t, "abort") # {} => t \in unheard'
      BY <1>1, <1>2 DEF OnWire, Aborted, WireRange
    <3> QED BY <1>1, <2>1, <2>2, <3>1 DEF PushInv, Tidy
  <2> QED BY <2>5, <2>6, <2>7, <2>8 DEF PushInv
<1>10. ASSUME NEW t \in Transfers, ~Pushing(t) PROVE PullInv(t)'
  BY <1>1, <1>6, <1>10 DEF TransferInv, PullInv
<1> QED BY <1>5, <1>7, <1>8, <1>9, <1>10 DEF TransferInv

-----------------------------------------------------------------------------
(* The theorems.                                                           *)

LEMMA TransferNextKeeps ==
    ASSUME TransferInv, [TransferNext]_transferVars
    PROVE  TransferInv'
<1>1. CASE UNCHANGED transferVars
  <2>1. /\ remote' \in Whole /\ recent' \in BOOLEAN /\ channelUp' \in BOOLEAN
        /\ UNCHANGED <<parts, swapped, confirmed, pinned, wireToAgent, tasks, spoiled, unheard,
                       local, answer, xfer, verdict>>
    BY <1>1 DEF transferVars, filesVars, channelVars, TransferInv, FilesRange, WireRange
  <2> QED BY <2>1, QuietSteps
<1>2. ASSUME NEW t \in Transfers, HandlerStep(t)
      PROVE  TransferInv'
  BY <1>2, TransferBeginsKeeps, PushAsksKeeps, PushRunsOutKeeps, PushAnsweredKeeps,
     PushTimesOutKeeps, PushAbortsKeeps, AbortEndsKeeps, PullAsksKeeps,
     PullGivesUpKeeps, PullStattedKeeps, PullReadKeeps, WritesLocallyKeeps
     DEF HandlerStep
<1>3. CASE FileAgentStep
  BY <1>3, WritesChunkKeeps, WritesLastChunkKeeps, SwapsKeeps, RehashesKeeps,
     DiscardsSidecarKeeps, StatsKeeps, StatHashesKeeps, ReadsChunkKeeps
     DEF FileAgentStep
<1>4. ASSUME NEW v \in Versions, RemoteWrites(v)
      PROVE  TransferInv'
  BY <1>4, RemoteWritesKeeps
<1>5. CASE RequestLost \/ FileChannelCloses \/ AgentIsBack
  BY <1>5, RequestLostKeeps, FileChannelClosesKeeps, AgentIsBackKeeps
<1> QED BY <1>1, <1>2, <1>3, <1>4, <1>5 DEF TransferNext

(* The inductive invariant holds in every state: what the agent has been   *)
(* sent, what it is at and what it has staged fit what each caller was     *)
(* told (handlers/file_transfer.rs, actions.ps1).                          *)
THEOREM TransferInvHolds == TransferSpec => []TransferInv
<1> QED BY InitTransferInv, TransferNextKeeps, PTL DEF TransferSpec

(* The transfers' variables have their types; a daemon task has one reply  *)
(* at most waiting for it, and an agent is at one request at most.         *)
THEOREM TransferTypeCorrect == TransferSpec => []TransferTypeOK
<1>1. ASSUME NEW S, \A a, b \in S : a = b
      PROVE  Cardinality(S) <= 1
  <2>1. CASE S = {}
    BY <2>1, FS_EmptySet
  <2>2. CASE \E x : S = {x}
    BY <2>2, FS_Singleton
  <2> QED BY <1>1, <2>1, <2>2
<1>2. TransferInv => TransferTypeOK
  <2> SUFFICES ASSUME TransferInv PROVE TransferTypeOK
    OBVIOUS
  <2>1. ASSUME NEW t \in Transfers
        PROVE  /\ xfer[t].pc \in Places /\ xfer[t].attempt \in 1 .. PullAttempts
               /\ Cardinality(answer[t]) <= 1
    BY <1>1 DEF TransferInv, HandlersRange, Xfers
  <2>2. Cardinality({k \in tasks : ~k.orphan}) <= 1
    <3> DEFINE S == {k \in tasks : ~k.orphan}
    <3>1. \A a, b \in S : a = b
      BY DEF TransferInv, WireRange
    <3> HIDE DEF S
    <3>2. Cardinality(S) <= 1
      BY <1>1, <3>1
    <3> QED BY <3>2 DEF S
  <2>3. /\ recent \in BOOLEAN /\ channelUp \in BOOLEAN
        /\ verdict \in [Transfers -> Verdicts]
        /\ swapped \subseteq Contents /\ confirmed \subseteq swapped
        /\ pinned \subseteq Contents /\ spoiled \subseteq Transfers
    BY DEF TransferInv, FilesRange, HandlersRange, WireRange
  <2> QED BY <2>1, <2>2, <2>3 DEF TransferTypeOK, Places
<1> QED BY <1>2, TransferInvHolds, PTL

(* No file is torn, on either side, whatever fails, overlaps or is late:   *)
(* the remote path, which Invoke-FileWriteChunk replaces only with what it *)
(* has staged and verified, and the local one, which a pull replaces only  *)
(* with what hashed as the stat said, hold whole files.                    *)
THEOREM FilesAreWhole == TransferSpec => []WholeFiles
<1>1. TransferInv => WholeFiles
  BY DEF TransferInv, FilesRange, PullInv, WholeFiles
<1> QED BY <1>1, TransferInvHolds, PTL

(* What push_failure_advice and verify_push tell a caller stays true, the  *)
(* late execution of what it gave up on included - but for a "rejected"    *)
(* that was no rejection, of a channel that closed or of a file that could *)
(* not be read back.                                                       *)
THEOREM PushVerdictsStayTrue == TransferSpec => []PushVerdictsHold
<1>1. TransferInv => PushVerdictsHold
  <2> SUFFICES ASSUME TransferInv, NEW t \in Transfers
               PROVE  /\ verdict[t] = "ok" /\ Pushing(t) => t \in confirmed
                      /\ verdict[t] = "untouched" => t \notin swapped
                      /\ verdict[t] = "rejected" /\ t \notin spoiled => t \notin swapped
    BY DEF PushVerdictsHold
  <2>1. CASE Pushing(t)
    BY <2>1 DEF TransferInv, PushInv, RightlyAnswered, TakenOnce, Taken
  <2>2. CASE ~Pushing(t)
    BY <2>2 DEF TransferInv, FilesRange, Pushing
  <2> QED BY <2>1, <2>2
<1> QED BY <1>1, TransferInvHolds, PTL

(* A push that has ended leaves no sidecar on the remote disk, once the    *)
(* agent has read what it was sent, unless abort_push did not get through, *)
(* the last reply never came, or the agent's latest attempt to remove it   *)
(* failed (Remove-Item is told to be silent).                              *)
THEOREM SidecarsAreCleared == TransferSpec => []SidecarsCleared
<1>1. TransferInv => SidecarsCleared
  <2> SUFFICES ASSUME TransferInv, wireToAgent = <<>>, NEW t \in Transfers,
                      xfer[t].pc = "done", parts[t] # Absent
               PROVE  verdict[t] = "unknown" \/ t \in unheard \cup pinned
    BY DEF SidecarsCleared
  <2>1. CASE Pushing(t)
    <3>1. OnWire(t, "abort") = {}
      BY DEF OnWire
    <3> QED BY <2>1, <3>1 DEF TransferInv, PushInv, Tidy
  <2>2. CASE ~Pushing(t)
    BY <2>2 DEF TransferInv, PullInv
  <2> QED BY <2>1, <2>2
<1> QED BY <1>1, TransferInvHolds, PTL
=============================================================================
