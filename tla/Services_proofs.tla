--------------------------- MODULE Services_proofs ---------------------------
(***************************************************************************)
(* Proofs about the services around the session: the stream to the viewers *)
(* (ViewerStream), for any set of viewers and any length of the channel;   *)
(* the clipboard (ClipboardChannel), for any handlers, copies and pastes;  *)
(* the mapped drives (DriveRedirection), for any drives, names, requests   *)
(* and number of open files; keyboard and mouse input (InputDelivery), for *)
(* any callers, operations and length of the queue; the commands that read *)
(* the screen (ScreenText), for any desktop, text boxes on it and          *)
(* requests; and the daemon processes behind all of them (DaemonProcess),  *)
(* for any command lines and number of daemons.                            *)
(***************************************************************************)
EXTENDS DriveRedirection, ViewerStream, ClipboardChannel, InputDelivery, ScreenText,
        DaemonProcess, SequenceTheorems, FiniteSetTheorems, TLAPS

-----------------------------------------------------------------------------
(* ViewerStream.                                                           *)

USE ViewerAssumption DEF ViewerAssumption, viewerVars

-----------------------------------------------------------------------------
(* The inductive invariant.                                                *)

ViewerRanges ==
  /\ painted \in 1 .. MaxPaintings
  /\ lastBroadcast \in 0 .. painted
  /\ tick \in {"idle", "generation", "read"} \X (0 .. painted) \X (0 .. painted)
  /\ viewer \in [Viewers -> {"away", "accepted", "registered", "streams"}]
  /\ channel \in [Viewers -> Seq(0 .. painted)]
  /\ shown \in [Viewers -> 0 .. painted]
  /\ passedOver \subseteq Subscribed

ChannelLimits == \A v \in Viewers : Len(channel[v]) <= Kept

(* The image a tick has read is no older than the generation it notes.     *)
ImageNotOlder == tick[1] = "read" => tick[2] <= tick[3]

(* Nothing is queued for a viewer that is away.                            *)
AwayHasNothing == \A v \in Viewers : viewer[v] = "away" => channel[v] = <<>>

(* The last image of s is p; s holds no image but p.                       *)
HasTail(s, p) ==
  \E i \in DOMAIN s : s[i] = p /\ \A j \in DOMAIN s : j > i => s[j] \in {Notice, p}

HoldsOnly(s, p) == \A i \in DOMAIN s : s[i] \in {Notice, p}

(* Once the current generation counts as broadcast, it is the last image a *)
(* viewer will have shown: the last in its channel, or the one on its      *)
(* screen if the channel holds nothing else.                               *)
UpToDate(v) ==
  lastBroadcast = painted =>
    \/ HasTail(channel[v], painted)
    \/ HoldsOnly(channel[v], painted) /\ (viewer[v] = "streams" => shown[v] = painted)

ViewerInv ==
  /\ ViewerRanges /\ ChannelLimits /\ ImageNotOlder /\ AwayHasNothing
  /\ \A v \in Viewers \ passedOver : UpToDate(v)

-----------------------------------------------------------------------------
(* What the first message of a channel takes with it.                      *)
LEMMA TailKeepsLast ==
  ASSUME NEW S, NEW s \in Seq(S), s # <<>>, NEW p
  PROVE  /\ Tail(s) \in Seq(S) /\ Len(Tail(s)) <= Len(s) /\ Head(s) \in S
         /\ HasTail(s, p) =>
              HasTail(Tail(s), p) \/ (Head(s) = p /\ HoldsOnly(Tail(s), p))
         /\ HoldsOnly(s, p) => Head(s) \in {Notice, p} /\ HoldsOnly(Tail(s), p)
<1> DEFINE t == Tail(s)
<1>1. /\ t \in Seq(S) /\ Head(s) \in S /\ Head(s) = s[1] /\ Len(t) = Len(s) - 1
      /\ Len(s) \in Nat \ {0} /\ Len(t) \in Nat
      /\ DOMAIN s = 1 .. Len(s) /\ DOMAIN t = 1 .. Len(t)
      /\ \A i \in 1 .. Len(t) : t[i] = s[i + 1]
  BY HeadTailProperties, EmptySeq, LenProperties
<1> HIDE DEF t
<1>2. ASSUME NEW i \in DOMAIN s, s[i] = p,
             \A j \in DOMAIN s : j > i => s[j] \in {Notice, p}
      PROVE  HasTail(t, p) \/ (Head(s) = p /\ HoldsOnly(t, p))
  <2>1. CASE i = 1
    <3>1. \A k \in DOMAIN t : k + 1 \in DOMAIN s /\ k + 1 > i
      BY <1>1, <2>1
    <3> QED BY <1>1, <1>2, <2>1, <3>1 DEF HoldsOnly
  <2>2. CASE i # 1
    <3>1. i - 1 \in DOMAIN t /\ t[i - 1] = p
      BY <1>1, <1>2, <2>2
    <3>2. \A k \in DOMAIN t : k > i - 1 => k + 1 \in DOMAIN s /\ k + 1 > i
      BY <1>1, <2>2
    <3>3. \A k \in DOMAIN t : k > i - 1 => t[k] \in {Notice, p}
      BY <1>1, <1>2, <3>2
    <3> QED BY <3>1, <3>3 DEF HasTail
  <2> QED BY <2>1, <2>2
<1>3. HoldsOnly(s, p) => Head(s) \in {Notice, p} /\ HoldsOnly(t, p)
  <2>1. \A k \in DOMAIN t : k + 1 \in DOMAIN s
    BY <1>1
  <2> QED BY <1>1, <2>1 DEF HoldsOnly
<1> QED BY <1>1, <1>2, <1>3 DEF HasTail, t

(* What the channel does with a new message: its capacity is kept, an      *)
(* image is the last one, and a notice pushes out no more than the last    *)
(* image, if all the others are out.                                       *)
LEMMA MessageQueued ==
  ASSUME NEW S, NEW p, p # Notice,
         NEW s \in Seq(S), NEW m \in S, Len(s) <= Kept,
         NEW t, t = LastOf(Append(s, m))
  PROVE  /\ t \in Seq(S) /\ Len(t) <= Kept
         /\ m = p => HasTail(t, p)
         /\ m = Notice =>
              /\ HoldsOnly(s, p) => HoldsOnly(t, p)
              /\ HasTail(s, p) =>
                   \/ HasTail(t, p)
                   \/ HoldsOnly(t, p) /\ Images(t) = {} /\ Images(s) # {}
<1> DEFINE a == Append(s, m)
<1>1. /\ a \in Seq(S) /\ a # <<>> /\ Len(a) = Len(s) + 1 /\ a[Len(a)] = m
      /\ Len(s) \in Nat /\ DOMAIN a = 1 .. Len(a) /\ DOMAIN s = 1 .. Len(s)
      /\ \A i \in DOMAIN s : a[i] = s[i]
  OBVIOUS
<1> HIDE DEF a
<1>2. m = p => HasTail(a, p) /\ ~(Len(s) = 0 /\ Len(a) > Kept)
  BY <1>1 DEF HasTail
<1>3. m = Notice => /\ HoldsOnly(s, p) => HoldsOnly(a, p)
                    /\ HasTail(s, p) => HasTail(a, p) /\ Images(s) # {}
  <2>1. ASSUME m = Notice, HoldsOnly(s, p) PROVE HoldsOnly(a, p)
    <3>1. \A j \in DOMAIN a : j \in DOMAIN s \/ j = Len(a)
      BY <1>1
    <3> QED BY <1>1, <2>1, <3>1 DEF HoldsOnly
  <2>2. ASSUME m = Notice, HasTail(s, p) PROVE HasTail(a, p) /\ Images(s) # {}
    <3>1. PICK i \in DOMAIN s :
             s[i] = p /\ \A j \in DOMAIN s : j > i => s[j] \in {Notice, p}
      BY <2>2 DEF HasTail
    <3>2. \A j \in DOMAIN a : j > i => a[j] \in {Notice, p}
      <4>1. \A j \in DOMAIN a : j \in DOMAIN s \/ j = Len(a)
        BY <1>1
      <4> QED BY <1>1, <2>2, <3>1, <4>1
    <3>3. i \in DOMAIN a /\ a[i] = p
      BY <1>1, <3>1
    <3> QED BY <3>1, <3>2, <3>3 DEF HasTail, Images
  <2> QED BY <2>1, <2>2
<1>4. CASE ~(Len(a) > Kept)
  <2>1. t = a
    BY <1>4 DEF LastOf, a
  <2> QED BY <1>1, <1>2, <1>3, <1>4, <2>1
<1>5. CASE Len(a) > Kept
  <2>1. t = Tail(a)
    BY <1>5 DEF LastOf, a
  <2>2. t \in Seq(S) /\ Len(t) = Len(a) - 1
    BY <1>1, <2>1
  <2>3. /\ HasTail(a, p) => HasTail(t, p) \/ HoldsOnly(t, p)
        /\ HoldsOnly(a, p) => HoldsOnly(t, p)
    BY <1>1, <2>1, TailKeepsLast
  <2>4. HoldsOnly(t, p) => HasTail(t, p) \/ Images(t) = {}
    BY DEF HoldsOnly, HasTail, Images
  <2>5. m = p => t[Len(t)] = p /\ Len(t) \in DOMAIN t /\ \A j \in DOMAIN t : ~(j > Len(t))
    <3>1. Len(t) \in 1 .. Len(t) /\ Len(t) + 1 = Len(a) /\ DOMAIN t = 1 .. Len(t)
      BY <1>1, <1>5, <2>2
    <3>2. t[Len(t)] = a[Len(t) + 1]
      BY <1>1, <2>1, <3>1
    <3> QED BY <1>1, <3>1, <3>2
  <2>6. m = p => HasTail(t, p)
    BY <2>5 DEF HasTail
  <2>7. Len(t) <= Kept
    BY <1>1, <2>2
  <2> QED BY <1>3, <2>2, <2>3, <2>4, <2>6, <2>7
<1> QED BY <1>4, <1>5

-----------------------------------------------------------------------------
LEMMA InitViewerInv ==
  ASSUME ViewerInit
  PROVE  ViewerInv
BY DEF ViewerInit, ViewerInv, ViewerRanges, ChannelLimits, ImageNotOlder,
   AwayHasNothing, UpToDate,
       NoImage, Resting, Subscribed

(* A step that touches neither channels nor screens.                       *)
LEMMA QuietStep ==
  ASSUME ViewerInv,
         ReadsGeneration \/ ReadsImage \/ \E v \in Viewers : Accepts(v) \/ Registers(v)
  PROVE  ViewerInv'
<1>1. CASE ReadsGeneration
  BY <1>1 DEF ViewerInv, ViewerRanges, ChannelLimits, ImageNotOlder,
     AwayHasNothing, UpToDate, ReadsGeneration,
              Subscribed, Resting
<1>2. CASE ReadsImage
  BY <1>2 DEF ViewerInv, ViewerRanges, ChannelLimits, ImageNotOlder,
     AwayHasNothing, UpToDate, ReadsImage,
              Subscribed
<1>3. ASSUME NEW v \in Viewers, Accepts(v)
      PROVE  ViewerInv'
  <2>1. channel[v] = <<>> /\ v \notin passedOver
    BY <1>3 DEF ViewerInv, AwayHasNothing, ViewerRanges, Subscribed, Accepts
  <2> QED
    BY <1>3, <2>1 DEF ViewerInv, ViewerRanges, ChannelLimits, ImageNotOlder,
       AwayHasNothing, UpToDate, Accepts,
                      Subscribed
<1>4. ASSUME NEW v \in Viewers, Registers(v)
      PROVE  ViewerInv'
  BY <1>4 DEF ViewerInv, ViewerRanges, ChannelLimits, ImageNotOlder,
     AwayHasNothing, UpToDate, Registers,
              Subscribed
<1> QED
  BY <1>1, <1>2, <1>3, <1>4

(* A new picture is newer than anything broadcast.                         *)
LEMMA PaintStep ==
  ASSUME ViewerInv, Paints
  PROVE  ViewerInv'
<1>1. ViewerRanges'
  <2>1. \A v \in Viewers : channel[v] \in Seq(0 .. painted')
    <3> SUFFICES ASSUME NEW v \in Viewers
                 PROVE  channel[v] \in Seq(0 .. painted')
      OBVIOUS
    <3>1. channel[v] \in Seq(0 .. painted) /\ (0 .. painted) \subseteq (0 .. painted')
      BY DEF ViewerInv, ViewerRanges, Paints
    <3> QED
      BY <3>1, SeqMonotonic
  <2> QED
    BY <2>1 DEF ViewerInv, ViewerRanges, Paints, Subscribed
<1>2. lastBroadcast' # painted'
  BY DEF ViewerInv, ViewerRanges, Paints
<1> QED
  BY <1>1, <1>2 DEF ViewerInv, ChannelLimits, ImageNotOlder, AwayHasNothing,
     UpToDate, Paints

(* A message that goes to every subscriber.                                *)
LEMMA QueuesFacts ==
  ASSUME ViewerInv, NEW m \in 0 .. painted, Queues(m)
  PROVE  /\ channel' \in [Viewers -> Seq(0 .. painted)]
         /\ \A v \in Viewers : Len(channel'[v]) <= Kept
         /\ \A v \in Viewers : viewer[v] = "away" => channel'[v] = <<>>
         /\ \A v \in Subscribed : m = painted => HasTail(channel'[v], painted)
         /\ m = Notice =>
              /\ \A v \in Viewers :
                    HoldsOnly(channel[v], painted) => HoldsOnly(channel'[v], painted)
              /\ \A v \in Viewers : HasTail(channel[v], painted) =>
                    \/ HasTail(channel'[v], painted)
                    \/ /\ HoldsOnly(channel'[v], painted)
                       /\ Images(channel'[v]) = {} /\ Images(channel[v]) # {}
<1>1. painted # Notice /\ channel \in [Viewers -> Seq(0 .. painted)]
  BY DEF ViewerInv, ViewerRanges, Notice
<1>2. DOMAIN channel' = Viewers /\ channel' = [v \in Viewers |-> channel'[v]]
  BY DEF Queues
<1>3. ASSUME NEW v \in Viewers
      PROVE  /\ channel'[v] \in Seq(0 .. painted) /\ Len(channel'[v]) <= Kept
             /\ viewer[v] = "away" => channel'[v] = <<>>
             /\ v \in Subscribed /\ m = painted => HasTail(channel'[v], painted)
             /\ m = Notice =>
                  /\ HoldsOnly(channel[v], painted) => HoldsOnly(channel'[v], painted)
                  /\ HasTail(channel[v], painted) =>
                       \/ HasTail(channel'[v], painted)
                       \/ /\ HoldsOnly(channel'[v], painted)
                          /\ Images(channel'[v]) = {} /\ Images(channel[v]) # {}
  <2>1. channel[v] \in Seq(0 .. painted) /\ Len(channel[v]) <= Kept
    BY <1>1, <1>3 DEF ViewerInv, ChannelLimits
  <2>2. CASE v \in Subscribed
    <3>1. channel'[v] = LastOf(Append(channel[v], m)) /\ viewer[v] # "away"
      BY <1>3, <2>2 DEF Queues, Subscribed
    <3> DEFINE S == 0 .. painted
               s == channel[v]
               t == channel'[v]
    <3>2. s \in Seq(S) /\ Len(s) <= Kept /\ m \in S /\ t = LastOf(Append(s, m))
      BY <2>1, <3>1
    <3> HIDE DEF S, s, t
    <3> DEFINE Holds(T, p, x, y, z) ==
                 /\ z \in Seq(T) /\ Len(z) <= Kept
                 /\ y = p => HasTail(z, p)
                 /\ y = Notice =>
                      /\ HoldsOnly(x, p) => HoldsOnly(z, p)
                      /\ HasTail(x, p) =>
                           \/ HasTail(z, p)
                           \/ HoldsOnly(z, p) /\ Images(z) = {} /\ Images(x) # {}
    <3>4. \A T, p, x, y, z :
             p # Notice /\ x \in Seq(T) /\ y \in T /\ Len(x) <= Kept /\ z = LastOf(Append(x, y))
             => Holds(T, p, x, y, z)
      BY MessageQueued
    <3> HIDE DEF Holds
    <3>5. Holds(S, painted, s, m, t)
      BY <1>1, <3>2, <3>4
    <3>3. /\ t \in Seq(S) /\ Len(t) <= Kept
          /\ m = painted => HasTail(t, painted)
          /\ m = Notice =>
               /\ HoldsOnly(s, painted) => HoldsOnly(t, painted)
               /\ HasTail(s, painted) =>
                    \/ HasTail(t, painted)
                    \/ HoldsOnly(t, painted) /\ Images(t) = {} /\ Images(s) # {}
      BY <3>5 DEF Holds
    <3> QED BY <3>1, <3>3 DEF S, s, t
  <2>3. CASE v \notin Subscribed
    <3>1. channel'[v] = channel[v] /\ viewer[v] = "away"
      BY <1>3, <2>3 DEF Queues, Subscribed
    <3> QED BY <1>3, <2>1, <2>3, <3>1 DEF ViewerInv, AwayHasNothing
  <2> QED BY <2>2, <2>3
<1> QED BY <1>2, <1>3 DEF Subscribed

(* If what was broadcast is still current, so is the image that came with  *)
(* it, and it is now the last message of every viewer that can be blamed   *)
(* on the broadcast.                                                       *)
LEMMA BroadcastStep ==
  ASSUME ViewerInv, Broadcasts
  PROVE  ViewerInv'
<1> USE DEF Broadcasts, Sends
<1>1. tick[2] \in 0 .. painted /\ tick[3] \in 0 .. painted /\ tick[2] <= tick[3]
  BY DEF ViewerInv, ViewerRanges, ImageNotOlder
<1>2. CASE Registered # {} /\ Queues(tick[3]) /\ passedOver' = {}
  <2>1. /\ channel' \in [Viewers -> Seq(0 .. painted)]
        /\ \A v \in Viewers : Len(channel'[v]) <= Kept
        /\ \A v \in Viewers : viewer[v] = "away" => channel'[v] = <<>>
        /\ \A v \in Subscribed : tick[3] = painted => HasTail(channel'[v], painted)
    BY <1>1, <1>2, QueuesFacts
  <2>2. ASSUME NEW v \in Viewers PROVE UpToDate(v)'
    <3>1. CASE v \notin Subscribed
      BY <2>1, <3>1 DEF UpToDate, Subscribed, HoldsOnly
    <3>2. CASE tick[2] = painted /\ v \in Subscribed
      BY <1>1, <2>1, <3>2 DEF UpToDate, ViewerInv, ViewerRanges
    <3> QED BY <3>1, <3>2 DEF UpToDate
  <2>3. ViewerRanges'
    BY <1>1, <1>2, <2>1 DEF ViewerInv, ViewerRanges, Resting
  <2>4. ChannelLimits' /\ ImageNotOlder' /\ AwayHasNothing'
    BY <2>1 DEF ChannelLimits, ImageNotOlder, AwayHasNothing, Resting
  <2> QED BY <2>2, <2>3, <2>4 DEF ViewerInv
<1>3. CASE UNCHANGED channel /\ passedOver' = Subscribed
  <2>1. ASSUME NEW v \in Viewers \ passedOver' PROVE UpToDate(v)'
    BY <1>3, <2>1 DEF UpToDate, Subscribed, HoldsOnly, ViewerInv, AwayHasNothing
  <2>2. ViewerRanges'
    BY <1>1, <1>3 DEF ViewerInv, ViewerRanges, Resting, Subscribed
  <2>3. ChannelLimits' /\ ImageNotOlder' /\ AwayHasNothing'
    BY <1>3 DEF ViewerInv, ChannelLimits, ImageNotOlder, AwayHasNothing, Resting
  <2> QED BY <2>1, <2>2, <2>3 DEF ViewerInv
<1> QED BY <1>2, <1>3

(* A clipboard notice pushes an image out of a channel unseen only if no   *)
(* other is left in it.                                                    *)
LEMMA NoticeStep ==
  ASSUME ViewerInv, Notifies
  PROVE  ViewerInv'
<1>1. /\ Queues(Notice) /\ tick = Resting
      /\ passedOver' = passedOver \cup
             {v \in Viewers : viewer[v] = "streams" /\ Images(channel'[v]) = {}
                                                   /\ Images(channel[v]) # {}}
      /\ UNCHANGED <<painted, lastBroadcast, tick, viewer, shown>>
  BY DEF Notifies
<1>2. /\ painted \in Nat \ {0} /\ Notice \in 0 .. painted
  BY DEF ViewerInv, ViewerRanges, Notice
<1>3. /\ channel' \in [Viewers -> Seq(0 .. painted)]
      /\ \A v \in Viewers : Len(channel'[v]) <= Kept
      /\ \A v \in Viewers : viewer[v] = "away" => channel'[v] = <<>>
      /\ \A v \in Viewers : HoldsOnly(channel[v], painted) => HoldsOnly(channel'[v], painted)
      /\ \A v \in Viewers : HasTail(channel[v], painted) =>
            \/ HasTail(channel'[v], painted)
            \/ /\ HoldsOnly(channel'[v], painted)
               /\ Images(channel'[v]) = {} /\ Images(channel[v]) # {}
  BY <1>1, <1>2, QueuesFacts
<1>4. ASSUME NEW v \in Viewers \ passedOver' PROVE UpToDate(v)'
  <2>1. UpToDate(v)
    BY <1>1, <1>4 DEF ViewerInv
  <2> QED BY <1>1, <1>3, <1>4, <2>1 DEF UpToDate
<1>5. ViewerRanges'
  BY <1>1, <1>3 DEF ViewerInv, ViewerRanges, Subscribed
<1>6. ChannelLimits' /\ ImageNotOlder' /\ AwayHasNothing'
  BY <1>1, <1>3 DEF ViewerInv, ChannelLimits, ImageNotOlder, AwayHasNothing
<1> QED BY <1>4, <1>5, <1>6 DEF ViewerInv

LEMMA ViewerStep ==
  ASSUME ViewerInv, NEW v \in Viewers,
         FirstImage(v) \/ TakesMessage(v) \/ Leaves(v)
  PROVE  ViewerInv'
<1>1. CASE FirstImage(v)
  BY <1>1 DEF ViewerInv, ViewerRanges, ChannelLimits, ImageNotOlder,
     AwayHasNothing, UpToDate, FirstImage,
              Subscribed
<1>2. CASE TakesMessage(v)
  <2>1. channel[v] \in Seq(0 .. painted) /\ channel[v] # <<>>
    BY <1>2 DEF ViewerInv, ViewerRanges, TakesMessage
  <2>2. /\ Tail(channel[v]) \in Seq(0 .. painted) /\ Len(Tail(channel[v])) <= Len(channel[v])
        /\ Head(channel[v]) \in 0 .. painted
        /\ HasTail(channel[v], painted) =>
             \/ HasTail(Tail(channel[v]), painted)
             \/ Head(channel[v]) = painted /\ HoldsOnly(Tail(channel[v]), painted)
        /\ HoldsOnly(channel[v], painted) =>
             Head(channel[v]) \in {Notice, painted} /\ HoldsOnly(Tail(channel[v]), painted)
    BY <2>1, TailKeepsLast
  <2>3. /\ channel' = [channel EXCEPT ![v] = Tail(channel[v])]
        /\ shown' = IF Head(channel[v]) = Notice THEN shown
                    ELSE [shown EXCEPT ![v] = Head(channel[v])]
        /\ viewer[v] = "streams"
        /\ UNCHANGED <<painted, lastBroadcast, tick, viewer, passedOver>>
    BY <1>2 DEF TakesMessage
  <2>4. ViewerRanges' /\ ChannelLimits' /\ ImageNotOlder' /\ AwayHasNothing'
    <3>1. Len(Tail(channel[v])) <= Kept
      <4>1. Len(channel[v]) <= Kept /\ Len(Tail(channel[v])) \in Nat /\ Len(channel[v]) \in Nat
        BY <2>1, <2>2 DEF ViewerInv, ChannelLimits
      <4> QED
        BY <2>2, <4>1
    <3>2. ViewerRanges' /\ ImageNotOlder'
      BY <2>2, <2>3 DEF ViewerInv, ViewerRanges, ImageNotOlder, Subscribed
    <3>3. ChannelLimits' /\ AwayHasNothing'
      BY <2>1, <2>3, <3>1 DEF ViewerInv, ViewerRanges, ChannelLimits,
         AwayHasNothing
    <3> QED
      BY <3>2, <3>3
  <2>5. ASSUME NEW w \in Viewers \ passedOver
        PROVE  UpToDate(w)'
    <3>1. UpToDate(w)
      BY DEF ViewerInv
    <3>2. CASE w # v
      BY <2>3, <3>1, <3>2 DEF ViewerInv, ViewerRanges, UpToDate
    <3>3. CASE w = v
      <4>1. painted # Notice /\ shown \in [Viewers -> 0 .. painted]
            /\ channel'[v] = Tail(channel[v])
        BY <2>3 DEF ViewerInv, ViewerRanges, Notice
      <4>2. shown'[v] = IF Head(channel[v]) = Notice THEN shown[v] ELSE Head(channel[v])
        BY <2>3, <4>1
      <4> QED BY <2>2, <2>3, <3>1, <3>3, <4>1, <4>2 DEF UpToDate
    <3> QED
      BY <3>2, <3>3
  <2> QED
    BY <2>3, <2>4, <2>5 DEF ViewerInv
<1>3. CASE Leaves(v)
  <2>1. /\ viewer' = [viewer EXCEPT ![v] = "away"] /\ channel' = [channel EXCEPT ![v] = <<>>]
        /\ shown' = [shown EXCEPT ![v] = NoImage] /\ passedOver' = passedOver \ {v}
        /\ UNCHANGED <<painted, lastBroadcast, tick>>
    BY <1>3 DEF Leaves
  <2>2. ViewerRanges'
    BY <2>1 DEF ViewerInv, ViewerRanges, Subscribed, NoImage
  <2>3. ChannelLimits' /\ ImageNotOlder' /\ AwayHasNothing'
    BY <2>1 DEF ViewerInv, ViewerRanges, ChannelLimits, ImageNotOlder, AwayHasNothing
  <2>4. ASSUME NEW w \in Viewers \ passedOver' PROVE UpToDate(w)'
    <3>1. CASE w # v
      <4>1. UpToDate(w) /\ channel'[w] = channel[w] /\ viewer'[w] = viewer[w]
            /\ shown'[w] = shown[w]
        BY <2>1, <2>4, <3>1 DEF ViewerInv, ViewerRanges
      <4> QED BY <2>1, <4>1 DEF UpToDate
    <3>2. CASE w = v
      <4>1. channel'[v] = <<>> /\ viewer'[v] = "away"
        BY <2>1 DEF ViewerInv, ViewerRanges
      <4>2. HoldsOnly(<<>>, painted')
        BY DEF HoldsOnly
      <4> QED BY <3>2, <4>1, <4>2 DEF UpToDate
    <3> QED BY <3>1, <3>2
  <2> QED BY <2>2, <2>3, <2>4 DEF ViewerInv
<1> QED
  BY <1>1, <1>2, <1>3

LEMMA NextViewerInv == ViewerInv /\ [ViewerNext]_viewerVars => ViewerInv'
<1> SUFFICES ASSUME ViewerInv, [ViewerNext]_viewerVars
             PROVE  ViewerInv'
  OBVIOUS
<1>1. CASE UNCHANGED viewerVars
  <2>1. ViewerRanges'
    BY <1>1 DEF ViewerInv, ViewerRanges, Subscribed
  <2>2. ChannelLimits' /\ ImageNotOlder' /\ AwayHasNothing'
    BY <1>1 DEF ViewerInv, ChannelLimits, ImageNotOlder, AwayHasNothing
  <2>3. ASSUME NEW v \in Viewers \ passedOver' PROVE UpToDate(v)'
    <3>1. UpToDate(v) /\ UNCHANGED <<channel, viewer, shown, painted, lastBroadcast>>
      BY <1>1, <2>3 DEF ViewerInv
    <3> QED BY <3>1 DEF UpToDate
  <2> QED BY <2>1, <2>2, <2>3 DEF ViewerInv
<1>2. CASE ViewerNext
  BY <1>2, QuietStep, PaintStep, BroadcastStep, NoticeStep, ViewerStep DEF ViewerNext
<1> QED
  BY <1>1, <1>2

LEMMA ViewerInvHolds == ViewerSpec => []ViewerInv
<1>1. ViewerInit => ViewerInv
  BY InitViewerInv
<1> QED
  BY <1>1, NextViewerInv, PTL DEF ViewerSpec

-----------------------------------------------------------------------------
(* No subscriber's backlog in the broadcast channel exceeds its capacity,  *)
(* and no image shown or broadcast is one that was never painted           *)
(* (ws_server.rs, daemon.rs).                                              *)
THEOREM ViewerTypeCorrect == ViewerSpec => []ViewerTypeOK
<1>1. ViewerInv => ViewerTypeOK
  BY DEF ViewerInv, ViewerRanges, ChannelLimits, ViewerTypeOK
<1> QED
  BY <1>1, ViewerInvHolds, PTL

(* However many viewers come and go, and however the frame arm's reading   *)
(* of the generation, of the image and its broadcast fall between paints   *)
(* and clipboard notices, no viewer is left with an old picture of a quiet *)
(* desktop, but one that an image was lost to: dropped, or pushed out by   *)
(* notices (daemon.rs, ws_server.rs).                                      *)
THEOREM NobodyLeftBehind == ViewerSpec => []NoViewerLeftBehind
<1>1. ViewerInv => NoViewerLeftBehind
  <2> SUFFICES ASSUME ViewerInv, NEW v \in Viewers \ passedOver, viewer[v] = "streams",
                      lastBroadcast = painted
               PROVE  painted \in {shown[v]} \cup {channel[v][i] : i \in DOMAIN channel[v]}
    BY DEF NoViewerLeftBehind
  <2>1. UpToDate(v)
    BY DEF ViewerInv
  <2> QED BY <2>1 DEF UpToDate, HasTail
<1> QED
  BY <1>1, ViewerInvHolds, PTL

HIDE ViewerAssumption DEF ViewerAssumption, viewerVars


-----------------------------------------------------------------------------
(* ClipboardChannel.                                                       *)

USE ClipAssumption DEF ClipAssumption, Handlers, NoText, TheirText, OurText

-----------------------------------------------------------------------------
(* The slot of the pending get.                                            *)

ClipStages == {"waits", "asks", "done"}

(* One handler asks at a time, the one that holds the session's lock; its  *)
(* command is the last in the queue, or it is the pending one and nothing  *)
(* is queued behind it.  What is queued before is of handlers that have    *)
(* given up.                                                               *)
SlotRanges ==
    /\ clipPlan \in Seq({"get", "set"})
    /\ clipStage \in [Handlers -> ClipStages]
    /\ clipHolder \in Handlers \cup {ClipNobody}
    /\ commands \in Seq(Handlers)
    /\ pendingGet \in Handlers \cup {ClipNobody}

Queued ==
    \A i \in 1..Len(commands) :
        /\ clipStage[commands[i]] # "waits" /\ commands[i] # pendingGet
        /\ clipStage[commands[i]] = "asks" => i = Len(commands)
        /\ \A j \in 1..Len(commands) : commands[i] = commands[j] => i = j

Pending ==
    pendingGet # ClipNobody =>
        /\ clipStage[pendingGet] # "waits"
        /\ clipStage[pendingGet] = "asks" => Len(commands) = 0

SlotInv ==
    /\ SlotRanges /\ Queued /\ Pending
    /\ \A c \in Handlers : clipStage[c] = "asks" => clipHolder = c

LEMMA InitSlotInv == ClipInit => SlotInv
<1> SUFFICES ASSUME ClipInit
             PROVE  SlotInv
  OBVIOUS
<1>1. /\ clipPlan \in Seq({"get", "set"}) /\ clipHolder = ClipNobody /\ pendingGet = ClipNobody
      /\ clipStage = [c \in Handlers |-> "waits"]
      /\ commands \in Seq(Handlers) /\ Len(commands) = 0
  <2>1. <<>> \in Seq(Handlers) /\ Len(<<>>) = 0
    OBVIOUS
  <2> QED
    BY <2>1 DEF ClipInit
<1>2. SlotRanges
  BY <1>1 DEF SlotRanges, ClipStages
<1>3. Queued /\ Pending
  BY <1>1 DEF Queued, Pending
<1>4. \A c \in Handlers : clipStage[c] # "asks"
  BY <1>1
<1> QED
  BY <1>2, <1>3, <1>4 DEF SlotInv

LEMMA AsksSlotInv ==
    ASSUME SlotInv, NEW c \in Handlers, AsksClipboard(c)
    PROVE  SlotInv'
<1> USE DEF SlotInv, SlotRanges, ClipStages
<1>1. SlotRanges'
  BY DEF AsksClipboard, clipTexts
<1>2. /\ Len(commands') = Len(commands) + 1 /\ commands'[Len(commands')] = c
      /\ \A i \in 1..Len(commands) : commands'[i] = commands[i]
  BY DEF AsksClipboard
<1>3. \A e \in Handlers : clipStage[e] # "asks"
  BY SMTT(20) DEF AsksClipboard
<1>4. Queued'
  BY <1>1, <1>2, <1>3 DEF Queued, Pending, AsksClipboard, clipTexts
<1>5. Pending'
  BY <1>3 DEF Pending, AsksClipboard, clipTexts
<1> QED
  BY <1>1, <1>3, <1>4, <1>5 DEF AsksClipboard, clipTexts

(* Handlers have their answer or have given up, and ask no more.           *)
Calmer ==
    /\ clipStage' \in [Handlers -> ClipStages] /\ clipHolder' \in Handlers \cup {ClipNobody}
    /\ \A e \in Handlers :
         /\ clipStage'[e] = "asks" => clipStage[e] = "asks" /\ clipHolder' = e
         /\ clipStage[e] # "waits" => clipStage'[e] # "waits"

LEMMA FinishesCalmer ==
    ASSUME SlotInv, NEW c, Finishes(c) \/ UNCHANGED <<clipStage, clipHolder>>
    PROVE  Calmer
BY DEF SlotInv, SlotRanges, Finishes, Calmer, ClipStages

LEMMA CalmerSlotInv ==
    ASSUME SlotInv, Calmer, UNCHANGED <<clipPlan, commands>>,
           pendingGet' \in {pendingGet, ClipNobody}
    PROVE  SlotInv'
<1>1. SlotRanges'
  BY DEF SlotInv, SlotRanges, Calmer
<1>2. Queued' /\ Pending'
  BY DEF SlotInv, SlotRanges, Calmer, Queued, Pending
<1> QED
  BY <1>1, <1>2 DEF SlotInv, Calmer

(* The first command leaves the queue; if it is a get that the cache does  *)
(* not answer, its handler is the pending one from then on.                *)
LEMMA ShortenedSlotInv ==
    ASSUME SlotInv, NEW h \in Handlers, h = commands[1],
           Len(commands) \in Nat \ {0},
           commands' \in Seq(Handlers), Len(commands') = Len(commands) - 1,
           \A i \in 1..Len(commands') : commands'[i] = commands[i + 1],
           UNCHANGED clipPlan, Calmer, pendingGet' \in {pendingGet, h}
    PROVE  SlotInv'
<1> USE DEF SlotInv, SlotRanges, ClipStages, Calmer
<1>1. SlotRanges'
  OBVIOUS
<1>2. ASSUME NEW i \in 1..Len(commands')
      PROVE  /\ commands'[i] = commands[i + 1] /\ i + 1 \in 1..Len(commands) /\ commands[i + 1] # h
             /\ clipStage[commands[i + 1]] # "waits" /\ commands[i + 1] # pendingGet
             /\ clipStage[commands[i + 1]] = "asks" => i = Len(commands')
    <2>1. commands'[i] = commands[i + 1] /\ i + 1 \in 1..Len(commands) /\ 1 \in 1..Len(commands)
      OBVIOUS
    <2>2. commands[i + 1] # h
      BY <2>1 DEF Queued
    <2> QED
      BY <2>1, <2>2 DEF Queued
<1>3. ASSUME NEW i \in 1..Len(commands'), NEW j \in 1..Len(commands'), commands'[i] = commands'[j]
      PROVE  i = j
    <2>1. i + 1 \in 1..Len(commands) /\ j + 1 \in 1..Len(commands)
          /\ commands[i + 1] = commands[j + 1]
      BY <1>2, <1>3
    <2>2. \A k, m \in 1..Len(commands) : commands[k] = commands[m] => k = m
      BY DEF Queued
    <2>3. i + 1 = j + 1
      BY <2>1, <2>2
    <2> QED
      BY <2>3
<1>4. Queued'
    <2>1. \A i \in 1..Len(commands') : commands'[i] \in Handlers
      BY SMTT(20)
    <2>2. ASSUME NEW i \in 1..Len(commands')
          PROVE  /\ clipStage'[commands'[i]] # "waits" /\ commands'[i] # pendingGet'
                 /\ clipStage'[commands'[i]] = "asks" => i = Len(commands')
        <3>1. PICK e \in Handlers : e = commands'[i]
          BY <2>1
        <3>2. /\ e # h /\ e # pendingGet /\ clipStage[e] # "waits"
              /\ clipStage[e] = "asks" => i = Len(commands')
          BY ZenonT(30), <1>2, <3>1
        <3> HIDE DEF SlotInv
        <3>3. clipStage'[e] # "waits" /\ (clipStage'[e] = "asks" => clipStage[e] = "asks")
          BY <3>2 DEF Calmer
        <3> QED
          BY <3>1, <3>2, <3>3
    <2> QED
      BY <1>3, <2>2 DEF Queued
<1>5. Pending'
  BY DEF Queued, Pending
<1> QED
  BY <1>1, <1>4, <1>5

LEMMA TakenSlotInv ==
    ASSUME SlotInv, commands # <<>>, commands' = Tail(commands),
           UNCHANGED clipPlan, Calmer, pendingGet' \in {pendingGet, Head(commands)}
    PROVE  SlotInv'
<1>1. /\ Head(commands) = commands[1] /\ Len(commands) \in Nat \ {0}
      /\ Len(commands') = Len(commands) - 1 /\ commands' \in Seq(Handlers)
      /\ \A i \in 1..Len(commands') : commands'[i] = commands[i + 1]
  BY HeadTailProperties, EmptySeq, LenProperties DEF SlotInv, SlotRanges
<1>2. commands[1] \in Handlers
  BY <1>1 DEF SlotInv, SlotRanges
<1> QED
  BY <1>1, <1>2, ShortenedSlotInv

LEMMA StepSlotInv ==
    ASSUME SlotInv, [ClipNext]_clipVars
    PROVE  SlotInv'
<1>1. CASE \E c \in Handlers : AsksClipboard(c)
  BY <1>1, AsksSlotInv
<1>2. CASE \E c \in Handlers : GivesUp(c)
  BY <1>2, FinishesCalmer, CalmerSlotInv DEF GivesUp, clipTexts
<1>3. CASE ProcessesSet \/ ProcessesGet
  <2>1. Calmer
    BY <1>3, FinishesCalmer DEF ProcessesSet, ProcessesGet
  <2> QED
    BY <1>3, <2>1, TakenSlotInv DEF ProcessesSet, ProcessesGet
<1>4. CASE OnFormatDataResponse
  BY <1>4, FinishesCalmer, CalmerSlotInv DEF OnFormatDataResponse, Receives
<1>5. CASE UNCHANGED <<clipPlan, clipStage, clipHolder, commands, pendingGet>>
  BY <1>5, FinishesCalmer, CalmerSlotInv
<1> QED
  BY <1>1, <1>2, <1>3, <1>4, <1>5 DEF ClipNext, clipVars, clipTexts,
     SendsBackendMessage,
       OnRequestFormatList, OnRemoteCopy, OnFormatDataRequest, RemoteCopies, RemotePastes,
       RemoteTakes, Receives

LEMMA SlotInvariance == ClipSpec => []SlotInv
BY InitSlotInv, StepSlotInv, PTL DEF ClipSpec

(* There is one slot for a pending get, and a get that still waits in it   *)
(* is not overwritten by the next (rdp_session.rs pending_get): the        *)
(* handler holds the session's lock while it waits (handlers/clipboard.rs).*)
THEOREM GettersAreNotDropped == ClipSpec => GetterNotDropped
<1>1. SlotInv /\ [ClipNext]_clipVars =>
        [pendingGet # ClipNobody /\ pendingGet' # pendingGet =>
           \/ clipStage[pendingGet] # "asks"
           \/ clipStage'[pendingGet] = "done"]_clipVars
  <2> SUFFICES ASSUME SlotInv, ClipNext, pendingGet # ClipNobody, pendingGet' # pendingGet,
                      clipStage[pendingGet] = "asks"
               PROVE  clipStage'[pendingGet] = "done"
    BY DEF clipVars
  <2>1. CASE ProcessesGet
    BY <2>1, EmptySeq DEF ProcessesGet, SlotInv, SlotRanges, Pending
  <2>2. CASE OnFormatDataResponse
    BY <2>2 DEF OnFormatDataResponse, Finishes, SlotInv, SlotRanges
  <2> QED
    BY <2>1, <2>2 DEF ClipNext, clipTexts, AsksClipboard, GivesUp, ProcessesSet,
         SendsBackendMessage, OnRequestFormatList, OnRemoteCopy, OnFormatDataRequest,
         RemoteCopies, RemotePastes, RemoteTakes, Receives
<1> QED
  BY <1>1, SlotInvariance, PTL DEF ClipSpec, GetterNotDropped

-----------------------------------------------------------------------------
(* The cache.                                                              *)

ClipMessages == {"asks formats", "copy", "data", "request"}
RemoteTexts == {NoText} \cup ({"theirs"} \X (0..MaxCopies))
Positions   == 1..Len(toClient)

Copied(i)   == toClient[i][1] = "copy"
Responded(i) == toClient[i][1] = "data" /\ toClient[i][2] # NoText
Number(i)   == toClient[i][2][2]

CacheRanges ==
    /\ toClient \in Seq(ClipMessages \X RemoteTexts) /\ copies \in 0..MaxCopies
    /\ remoteClip \in {"theirs", "ours"} \X Nat /\ remoteText \in RemoteTexts

(* Up to position n of what is on its way to us, text t is that of the last*)
(* copy announced.                                                         *)
Preceded(t, n) ==
    \/ \E j \in 1..n : Copied(j) /\ toClient[j][2] = t
    \/ /\ \A j \in 1..n : ~Copied(j)
       /\ announced[1] = "theirs" => announced = t

(* The copies are announced in order, an answer comes after the copy it is *)
(* the text of and before the next; and the text the remote clipboard holds*)
(* is that of the last copy made there, announced or on its way.           *)
InOrder ==
    /\ \A i \in Positions : Copied(i) => toClient[i][2][1] = "theirs" /\ Number(i) <= copies
    /\ \A i, j \in Positions : Copied(i) /\ Copied(j) /\ i < j => Number(i) < Number(j)
    /\ \A i, j \in Positions : Copied(i) /\ Responded(j) /\ i < j => Number(i) <= Number(j)

CacheInv ==
    /\ CacheRanges /\ InOrder
    /\ \A i \in Positions : Responded(i) => Preceded(toClient[i][2], i)
    /\ remoteClip[1] = "theirs" =>
         remoteClip[2] = copies /\ Preceded(remoteClip, Len(toClient))
    /\ CacheIsAnnounced

LEMMA OneMessage ==
    ASSUME NEW S, NEW m \in S
    PROVE  <<m>> \in Seq(S) /\ Len(<<m>>) = 1 /\ <<m>>[1] = m
OBVIOUS

LEMMA InitCacheInv == ClipInit => CacheInv
<1> SUFFICES ASSUME ClipInit
             PROVE  CacheInv
  OBVIOUS
<1>1. /\ toClient \in Seq(ClipMessages \X RemoteTexts) /\ Len(toClient) = 1
      /\ ~Copied(1) /\ ~Responded(1)
  <2> DEFINE m == <<"asks formats", NoText>>
  <2>1. m \in ClipMessages \X RemoteTexts /\ m[1] = "asks formats" /\ toClient = <<m>>
    BY DEF ClipInit, ClipMessages, RemoteTexts
  <2> HIDE DEF m
  <2>2. <<m>> \in Seq(ClipMessages \X RemoteTexts) /\ Len(<<m>>) = 1 /\ <<m>>[1] = m
    BY <2>1, OneMessage, Zenon
  <2>3. toClient \in Seq(ClipMessages \X RemoteTexts) /\ Len(toClient) = 1 /\ toClient[1] = m
    BY <2>1, <2>2, Zenon
  <2>4. ~Copied(1) /\ ~Responded(1)
    BY <2>1, <2>3 DEF Copied, Responded
  <2> QED
    BY <2>3, <2>4
<1>2. /\ remoteClip = <<"theirs", 0>> /\ announced = remoteClip /\ copies = 0
      /\ remoteText = NoText
  BY DEF ClipInit
<1>3. CacheRanges
  <2>1. remoteClip \in {"theirs", "ours"} \X Nat /\ copies \in 0..MaxCopies /\ remoteText \in RemoteTexts
    BY <1>2 DEF RemoteTexts
  <2> QED
    BY <1>1, <2>1 DEF CacheRanges
<1>4. Positions = {1}
  BY <1>1 DEF Positions
<1>5. Preceded(remoteClip, Len(toClient))
  <2>1. 1..Len(toClient) = {1}
    BY <1>1
  <2> QED
    BY <1>1, <1>2, <2>1 DEF Preceded
<1> QED
  BY <1>1, <1>2, <1>3, <1>4, <1>5 DEF CacheInv, InOrder, CacheIsAnnounced

(* The head of the queue is taken: a copy is the one announced from then   *)
(* on, anything else leaves the order as it was.                           *)
Shorter ==
    /\ Len(toClient) \in Nat \ {0} /\ toClient' \in Seq(ClipMessages \X RemoteTexts)
    /\ Len(toClient') = Len(toClient) - 1
    /\ \A i \in 1..Len(toClient') : toClient'[i] = toClient[i + 1]
    /\ announced' = IF Copied(1) THEN toClient[1][2] ELSE announced

LEMMA ShorterPreceded ==
    ASSUME CacheInv, Shorter, NEW t, NEW n \in 0..(Len(toClient) - 1),
           Preceded(t, n + 1),
           \A j \in 1..(n + 1) : Copied(j) => Number(j) <= t[2]
    PROVE  Preceded(t, n)'
<1>1. \A j \in 1..n : j + 1 \in 1..(n + 1) /\ (Copied(j)' <=> Copied(j + 1))
                            /\ toClient'[j][2] = toClient[j + 1][2]
  <2> SUFFICES ASSUME NEW j \in 1..n
               PROVE  /\ j + 1 \in 1..(n + 1) /\ (Copied(j)' <=> Copied(j + 1))
                      /\ toClient'[j][2] = toClient[j + 1][2]
    OBVIOUS
  <2>1. j \in 1..Len(toClient') /\ j + 1 \in 1..(n + 1)
    BY DEF Shorter
  <2>2. toClient'[j] = toClient[j + 1]
    BY <2>1 DEF Shorter
  <2> QED
    BY <2>1, <2>2 DEF Copied
<1>2. CASE Copied(1)
  <2>1. PICK j \in 1..(n + 1) : Copied(j) /\ toClient[j][2] = t
    BY <1>2 DEF Preceded
  <2>2. CASE j = 1
    <3>1. announced' = t
      BY <1>2, <2>1, <2>2 DEF Shorter
    <3>2. ASSUME NEW k \in 2..(n + 1), Copied(k)
          PROVE  FALSE
      <4>1. 1 \in Positions /\ k \in Positions /\ 1 < k
        BY DEF Shorter, Positions
      <4>2. Number(1) < Number(k) /\ Number(k) <= Number(1)
        BY <1>2, <2>1, <2>2, <3>2, <4>1 DEF CacheInv, InOrder, Number
      <4>3. Number(1) \in Nat /\ Number(k) \in Nat
        BY <4>1 DEF CacheInv, CacheRanges, Number, RemoteTexts, Positions
      <4> QED
        BY <4>2, <4>3
    <3>3. \A k \in 1..n : ~Copied(k)'
      BY <1>1, <3>2
    <3> QED
      BY <3>1, <3>3 DEF Preceded
  <2>3. CASE j # 1
    <3>1. j - 1 \in 1..n /\ (j - 1) + 1 = j
      BY <2>3
    <3>2. Copied(j - 1)' /\ toClient'[j - 1][2] = t
      BY <1>1, <2>1, <3>1
    <3> QED
      BY <3>1, <3>2 DEF Preceded
  <2> QED
    BY <2>2, <2>3
<1>3. CASE ~Copied(1)
  <2>1. CASE \E j \in 1..(n + 1) : Copied(j) /\ toClient[j][2] = t
    <3>1. PICK j \in 1..(n + 1) : Copied(j) /\ toClient[j][2] = t
      BY <2>1
    <3>2. j - 1 \in 1..n /\ (j - 1) + 1 = j
      BY <1>3, <3>1
    <3>3. Copied(j - 1)' /\ toClient'[j - 1][2] = t
      BY <1>1, <3>1, <3>2
    <3> QED
      BY <3>2, <3>3 DEF Preceded
  <2>2. CASE (\A j \in 1..(n + 1) : ~Copied(j)) /\ (announced[1] = "theirs" => announced = t)
    <3>1. \A j \in 1..n : ~Copied(j)'
      BY <1>1, <2>2
    <3> QED
      BY <1>3, <2>2, <3>1 DEF Preceded, Shorter
  <2> QED
    BY <2>1, <2>2 DEF Preceded
<1> QED
  BY <1>2, <1>3

LEMMA ShorterCacheInv ==
    ASSUME CacheInv, Shorter, UNCHANGED <<copies, remoteClip>>,
           \/ Copied(1) /\ remoteText' = NoText
           \/ ~Copied(1) /\ remoteText' = remoteText
           \/ Responded(1) /\ remoteText' = toClient[1][2]
    PROVE  CacheInv'
<1>1. 1 \in Positions /\ (Responded(1) => ~Copied(1))
  BY DEF Shorter, Positions, Responded, Copied
<1>2. CacheRanges'
  BY <1>1 DEF CacheInv, CacheRanges, Shorter, Positions, RemoteTexts
<1>3. ASSUME NEW i \in Positions'
      PROVE  /\ i + 1 \in Positions /\ toClient'[i][2] = toClient[i + 1][2]
             /\ Copied(i)' <=> Copied(i + 1)
             /\ Responded(i)' <=> Responded(i + 1)
             /\ Number(i)' = Number(i + 1)
  <2>1. i \in 1..Len(toClient') /\ i + 1 \in Positions
    BY DEF Shorter, Positions
  <2>2. toClient'[i] = toClient[i + 1]
    BY <2>1 DEF Shorter
  <2> QED
    BY <2>1, <2>2 DEF Copied, Responded, Number
<1>4. Positions \subseteq Nat /\ Positions' \subseteq Nat
  BY DEF Shorter, Positions
<1>5. InOrder'
  <2>1. \A i \in Positions' : Copied(i)' => toClient'[i][2][1] = "theirs" /\ Number(i)' <= copies'
    BY <1>3 DEF CacheInv, InOrder
  <2>2. \A i, j \in Positions' : Copied(i)' /\ Copied(j)' /\ i < j => Number(i)' < Number(j)'
    BY <1>3, <1>4 DEF CacheInv, InOrder
  <2>3. \A i, j \in Positions' : Copied(i)' /\ Responded(j)' /\ i < j => Number(i)' <= Number(j)'
    BY <1>3, <1>4 DEF CacheInv, InOrder
  <2> QED
    BY <2>1, <2>2, <2>3 DEF InOrder
<1>6. ASSUME NEW i \in Positions', Responded(i)'
      PROVE  Preceded(toClient[i][2], i)'
  <2>1. PICK t : t = toClient[i + 1][2]
    OBVIOUS
  <2>2. t = toClient'[i][2] /\ Responded(i + 1) /\ i + 1 \in Positions
    BY <1>3, <1>6, <2>1
  <2>3. Preceded(t, i + 1)
    BY <2>1, <2>2 DEF CacheInv
  <2>4. i \in 0..(Len(toClient) - 1)
    BY DEF Shorter, Positions
  <2>5. \A j \in 1..(i + 1) : j \in Positions /\ (j = i + 1 \/ j < i + 1)
    BY <2>4 DEF Shorter, Positions
  <2>6. \A j \in 1..(i + 1) : Copied(j) => Number(j) <= t[2]
    <3>1. ~Copied(i + 1)
      BY <2>2 DEF Copied, Responded
    <3>2. Number(i + 1) = t[2]
      BY <2>1 DEF Number
    <3> QED
      BY <2>2, <2>5, <3>1, <3>2 DEF CacheInv, InOrder
  <2>7. Preceded(t, i)'
    BY <2>3, <2>4, <2>6, ShorterPreceded
  <2> QED
    BY <2>2, <2>7 DEF Preceded
<1>7. ASSUME remoteClip'[1] = "theirs"
      PROVE  remoteClip'[2] = copies' /\ Preceded(remoteClip, Len(toClient))'
  <2>1. PICK t : t = remoteClip
    OBVIOUS
  <2>2. t[2] = copies /\ Preceded(t, Len(toClient))
    BY <1>7, <2>1 DEF CacheInv
  <2>3. PICK n \in 0..(Len(toClient) - 1) : n + 1 = Len(toClient) /\ n = Len(toClient')
    BY DEF Shorter
  <2>4. \A j \in 1..(n + 1) : Copied(j) => Number(j) <= t[2]
    BY <2>2, <2>3 DEF CacheInv, InOrder, Positions
  <2>5. Preceded(t, n)'
    BY <2>2, <2>3, <2>4, ShorterPreceded
  <2> QED
    BY <2>1, <2>2, <2>3, <2>5 DEF Preceded
<1>8. CacheIsAnnounced'
  <2>1. CASE Copied(1) /\ remoteText' = NoText
    BY <2>1 DEF CacheIsAnnounced
  <2>2. CASE ~Copied(1) /\ remoteText' = remoteText
    BY <2>2 DEF CacheIsAnnounced, CacheInv, Shorter
  <2>3. CASE Responded(1) /\ remoteText' = toClient[1][2]
    <3>1. ~Copied(1) /\ Preceded(toClient[1][2], 1)
      BY <1>1, <2>3 DEF CacheInv
    <3>2. announced[1] = "theirs" => announced = toClient[1][2]
      BY <3>1 DEF Preceded
    <3> QED
      BY <2>3, <3>1, <3>2 DEF CacheIsAnnounced, Shorter
  <2> QED
    BY <2>1, <2>2, <2>3
<1> QED
  BY <1>2, <1>5, <1>6, <1>7, <1>8 DEF CacheInv

(* The remote sends: a copy it made, or anything else, an answer with what *)
(* it holds among it.                                                      *)
Longer(e) ==
    /\ toClient' \in Seq(ClipMessages \X RemoteTexts) /\ Len(toClient') = Len(toClient) + 1
    /\ toClient'[Len(toClient')] = e
    /\ \A i \in 1..Len(toClient) : toClient'[i] = toClient[i]
    /\ UNCHANGED <<announced, remoteText>>
    /\ \/ /\ e[1] = "copy" /\ e[2] = remoteClip'
          /\ copies' = copies + 1 /\ copies' \in 0..MaxCopies
          /\ remoteClip' = <<"theirs", copies'>>
       \/ /\ e[1] # "copy" /\ UNCHANGED <<copies, remoteClip>>
          /\ e[1] = "data" /\ e[2] # NoText => remoteClip[1] = "theirs" /\ e[2] = remoteClip

LEMMA LongerCacheInv ==
    ASSUME CacheInv, NEW e, Longer(e)
    PROVE  CacheInv'
<1>1. PICK l \in Nat : l = Len(toClient)
  BY DEF CacheInv, CacheRanges
<1>2. /\ Positions = 1..l /\ Len(toClient') = l + 1 /\ Positions' = 1..(l + 1)
      /\ l + 1 \in Positions'
      /\ \A i \in Positions' : i \in Positions \/ i = l + 1
      /\ \A i \in Positions : i \in Positions' /\ i < l + 1 /\ i \in Nat
  BY <1>1 DEF Positions, Longer
<1>3. \A i \in Positions : /\ toClient'[i] = toClient[i] /\ (Copied(i)' <=> Copied(i))
                           /\ (Responded(i)' <=> Responded(i)) /\ Number(i)' = Number(i)
  BY <1>2 DEF Longer, Positions, Copied, Responded, Number
<1>4. toClient'[l + 1] = e
  BY <1>1 DEF Longer
<1>5. CacheRanges'
  BY DEF CacheInv, CacheRanges, Longer
<1>6. \A t : \A n \in 0..l : Preceded(t, n) => Preceded(t, n)'
  BY <1>2, <1>3 DEF Preceded, Longer
<1>7. CASE e[1] = "copy"
  <2>1. /\ Copied(l + 1)' /\ ~Responded(l + 1)' /\ Number(l + 1)' = copies + 1
        /\ toClient'[l + 1][2] = remoteClip' /\ copies' = copies + 1 /\ copies \in Nat
        /\ remoteClip'[1] = "theirs" /\ remoteClip'[2] = copies'
    BY <1>4, <1>7 DEF Longer, Copied, Responded, Number, CacheInv, CacheRanges
  <2>2. \A i \in Positions : Copied(i) => Number(i) \in Nat /\ Number(i) <= copies
    BY DEF CacheInv, CacheRanges, InOrder, Number, Positions, RemoteTexts
  <2>3. InOrder'
    <3>1. \A i \in Positions' : Copied(i)' => toClient'[i][2][1] = "theirs" /\ Number(i)' <= copies'
      BY <1>2, <1>3, <2>1, <2>2 DEF CacheInv, InOrder
    <3>2. \A i, j \in Positions' : Copied(i)' /\ Copied(j)' /\ i < j => Number(i)' < Number(j)'
      BY <1>1, <1>2, <1>3, <2>1, <2>2 DEF CacheInv, InOrder
    <3>3. \A i, j \in Positions' : Copied(i)' /\ Responded(j)' /\ i < j => Number(i)' <= Number(j)'
      BY <1>1, <1>2, <1>3, <2>1 DEF CacheInv, InOrder
    <3> QED
      BY <3>1, <3>2, <3>3 DEF InOrder
  <2>4. \A i \in Positions' : Responded(i)' => Preceded(toClient[i][2], i)'
    BY SMTT(20), <1>2, <1>3, <1>6, <2>1 DEF CacheInv, Preceded
  <2>5. Preceded(remoteClip, Len(toClient))'
    BY <1>1, <1>2, <2>1 DEF Preceded
  <2>6. CacheIsAnnounced'
    BY DEF CacheInv, CacheIsAnnounced, Longer
  <2> QED
    BY <1>5, <2>1, <2>3, <2>4, <2>5, <2>6 DEF CacheInv
<1>8. CASE e[1] # "copy"
  <2>1. /\ ~Copied(l + 1)' /\ copies' = copies /\ remoteClip' = remoteClip
        /\ Responded(l + 1)' => /\ remoteClip[1] = "theirs" /\ toClient'[l + 1][2] = remoteClip
                               /\ Number(l + 1)' = copies
    BY <1>4, <1>8 DEF Longer, Copied, Responded, Number, CacheInv
  <2>2. InOrder'
    <3>1. \A i \in Positions' : Copied(i)' => toClient'[i][2][1] = "theirs" /\ Number(i)' <= copies'
      BY <1>2, <1>3, <2>1 DEF CacheInv, InOrder
    <3>2. \A i, j \in Positions' : Copied(i)' /\ Copied(j)' /\ i < j => Number(i)' < Number(j)'
      BY <1>1, <1>2, <1>3, <2>1 DEF CacheInv, InOrder
    <3>3. \A i, j \in Positions' : Copied(i)' /\ Responded(j)' /\ i < j => Number(i)' <= Number(j)'
      BY <1>1, <1>2, <1>3, <2>1 DEF CacheInv, InOrder
    <3> QED
      BY <3>1, <3>2, <3>3 DEF InOrder
  <2>3. ASSUME remoteClip[1] = "theirs"
        PROVE  Preceded(remoteClip, l + 1)'
    <3>1. Preceded(remoteClip, l)
      BY <1>1, <2>3 DEF CacheInv
    <3>2. \A j \in 1..(l + 1) : j \in Positions \/ j = l + 1
      BY <1>2
    <3>3. \A j \in 1..l : j \in 1..(l + 1) /\ j \in Positions
      BY <1>2
    <3> QED
      BY SMTT(20), <1>3, <2>1, <3>1, <3>2, <3>3 DEF Preceded, Longer
  <2>4. \A i \in Positions' : Responded(i)' => Preceded(toClient[i][2], i)'
    <3>1. \A i \in Positions : Responded(i)' => Preceded(toClient[i][2], i)'
      BY <1>2, <1>3, <1>6 DEF CacheInv, Preceded
    <3>2. Responded(l + 1)' => Preceded(toClient[l + 1][2], l + 1)'
      BY <2>1, <2>3 DEF Preceded
    <3> QED
      BY <1>2, <3>1, <3>2
  <2>5. remoteClip'[1] = "theirs" =>
          remoteClip'[2] = copies' /\ Preceded(remoteClip, Len(toClient))'
    BY <1>2, <2>1, <2>3 DEF CacheInv
  <2>6. CacheIsAnnounced'
    BY DEF CacheInv, CacheIsAnnounced, Longer
  <2> QED
    BY <1>5, <2>2, <2>4, <2>5, <2>6 DEF CacheInv
<1> QED
  BY <1>7, <1>8

(* Text set here replaces what was announced, and what the remote holds.   *)
LEMMA SetCacheInv ==
    ASSUME CacheInv, UNCHANGED <<toClient, copies, remoteText>>,
           announced' = announced \/ announced'[1] # "theirs",
           remoteClip' \in {"theirs", "ours"} \X Nat,
           remoteClip' = remoteClip \/ remoteClip'[1] # "theirs"
    PROVE  CacheInv'
<1> USE DEF CacheInv
<1>1. CacheRanges'
  BY DEF CacheRanges
<1>2. /\ Positions' = Positions
      /\ \A i : /\ toClient'[i] = toClient[i]
               /\ (Copied(i)' <=> Copied(i)) /\ (Responded(i)' <=> Responded(i))
               /\ Number(i)' = Number(i)
  BY DEF Positions, Responded, Copied, Number
<1>3. InOrder'
  <2>1. \A i \in Positions' : Copied(i)' => toClient'[i][2][1] = "theirs" /\ Number(i)' <= copies'
    BY <1>2 DEF InOrder
  <2>2. \A i, j \in Positions' : Copied(i)' /\ Copied(j)' /\ i < j => Number(i)' < Number(j)'
    BY <1>2 DEF InOrder
  <2>3. \A i, j \in Positions' : Copied(i)' /\ Responded(j)' /\ i < j => Number(i)' <= Number(j)'
    BY <1>2 DEF InOrder
  <2> QED
    BY <2>1, <2>2, <2>3 DEF InOrder
<1>4. ASSUME NEW t, NEW n, Preceded(t, n)
      PROVE  Preceded(t, n)'
  BY <1>2, <1>4 DEF Preceded
<1>6. \A i \in Positions' : Responded(i)' => Preceded(toClient[i][2], i)'
  BY <1>2, <1>4 DEF Preceded
<1>7. ASSUME remoteClip'[1] = "theirs"
      PROVE  remoteClip'[2] = copies' /\ Preceded(remoteClip, Len(toClient))'
  <2>1. PICK t, n : t = remoteClip /\ n = Len(toClient)
    OBVIOUS
  <2>2. remoteClip' = t /\ Len(toClient') = n /\ t[2] = copies /\ Preceded(t, n)
    BY <1>7, <2>1
  <2>3. Preceded(t, n)'
    BY <1>4, <2>2
  <2> QED
    BY <2>2, <2>3 DEF Preceded
<1>5. CacheIsAnnounced'
  BY DEF CacheInv, CacheIsAnnounced
<1> QED
  BY <1>1, <1>3, <1>5, <1>6, <1>7

LEMMA ReceivesShorter ==
    ASSUME CacheInv, NEW kind, Receives(kind),
           announced' = IF kind = "copy" THEN Head(toClient)[2] ELSE announced
    PROVE  /\ Shorter /\ UNCHANGED <<copies, remoteClip>>
           /\ toClient[1] = Head(toClient) /\ toClient[1][1] = kind
<1>1. /\ Head(toClient) = toClient[1] /\ Len(toClient) \in Nat \ {0}
      /\ Len(toClient') = Len(toClient) - 1 /\ toClient' \in Seq(ClipMessages \X RemoteTexts)
      /\ \A i \in 1..Len(toClient') : toClient'[i] = toClient[i + 1]
  BY HeadTailProperties, EmptySeq, LenProperties DEF Receives, CacheInv,
     CacheRanges
<1>2. toClient[1][1] = kind /\ UNCHANGED <<copies, remoteClip>>
  BY <1>1 DEF Receives, remoteSide
<1> QED
  BY <1>1, <1>2 DEF Shorter, Copied

LEMMA AppendsLonger ==
    ASSUME CacheInv, NEW e \in ClipMessages \X RemoteTexts,
           toClient' = Append(toClient, e)
    PROVE  /\ toClient' \in Seq(ClipMessages \X RemoteTexts) /\ Len(toClient') = Len(toClient) + 1
           /\ toClient'[Len(toClient')] = e
           /\ \A i \in 1..Len(toClient) : toClient'[i] = toClient[i]
BY AppendProperties DEF CacheInv, CacheRanges

LEMMA StepCacheInv ==
    ASSUME CacheInv, [ClipNext]_clipVars
    PROVE  CacheInv'
<1>1. CASE OnRemoteCopy
  <2>1. Shorter /\ UNCHANGED <<copies, remoteClip>> /\ Copied(1)
    BY <1>1, ReceivesShorter DEF OnRemoteCopy, Copied
  <2> QED
    BY <1>1, <2>1, ShorterCacheInv DEF OnRemoteCopy
<1>2. CASE OnRequestFormatList \/ OnFormatDataRequest
  <2>1. PICK kind \in {"asks formats", "request"} : Receives(kind)
    BY <1>2 DEF OnRequestFormatList, OnFormatDataRequest
  <2>2. Shorter /\ UNCHANGED <<copies, remoteClip>> /\ ~Copied(1)
    BY <1>2, <2>1, ReceivesShorter DEF OnRequestFormatList,
       OnFormatDataRequest, Copied
  <2> QED
    BY <1>2, <2>2, ShorterCacheInv DEF OnRequestFormatList, OnFormatDataRequest
<1>3. CASE OnFormatDataResponse
  <2>1. Shorter /\ UNCHANGED <<copies, remoteClip>> /\ ~Copied(1) /\ toClient[1] = Head(toClient)
        /\ toClient[1][1] = "data"
    BY <1>3, ReceivesShorter DEF OnFormatDataResponse, Copied
  <2>2. \/ remoteText' = remoteText
        \/ Responded(1) /\ remoteText' = toClient[1][2]
    BY <1>3, <2>1 DEF OnFormatDataResponse, Responded
  <2> QED
    BY <2>1, <2>2, ShorterCacheInv
<1>4. CASE RemoteCopies
  <2>1. PICK n \in 0..MaxCopies : n = copies + 1
    BY <1>4 DEF RemoteCopies, CacheInv, CacheRanges
  <2> DEFINE e == <<"copy", <<"theirs", n>>>>
  <2>2. e \in ClipMessages \X RemoteTexts /\ e[1] = "copy" /\ e[2] = <<"theirs", n>>
    BY DEF ClipMessages, RemoteTexts
  <2>3. /\ toClient' = Append(toClient, e) /\ copies' = n /\ remoteClip' = <<"theirs", n>>
        /\ UNCHANGED <<announced, remoteText>>
    BY <1>4, <2>1 DEF RemoteCopies, clipTexts
  <2> HIDE DEF e
  <2>4. Longer(e)
    BY <2>1, <2>2, <2>3, AppendsLonger DEF Longer
  <2> QED
    BY <2>4, LongerCacheInv
<1>5. CASE RemotePastes
  <2> DEFINE e == <<"request", <<"none", 0>>>>
  <2>1. e \in ClipMessages \X RemoteTexts /\ e[1] = "request" /\ toClient' = Append(toClient, e)
        /\ UNCHANGED <<announced, remoteText, copies, remoteClip>>
    BY <1>5 DEF RemotePastes, ClipMessages, RemoteTexts, clipTexts
  <2> HIDE DEF e
  <2>2. Longer(e)
    BY <2>1, AppendsLonger DEF Longer
  <2> QED
    BY <2>2, LongerCacheInv
<1>6. CASE RemoteTakes /\ UNCHANGED toClient
  <2>1. /\ UNCHANGED <<toClient, copies, remoteText, announced>>
        /\ remoteClip' = remoteClip \/ remoteClip' = <<"ours", 0>>
    BY <1>6 DEF RemoteTakes, clipTexts
  <2>2. remoteClip' \in {"theirs", "ours"} \X Nat /\ (remoteClip' = remoteClip \/ remoteClip'[1] # "theirs")
    BY <2>1 DEF CacheInv, CacheRanges
  <2> QED
    BY <2>1, <2>2, SetCacheInv
<1>7. CASE RemoteTakes /\ ~UNCHANGED toClient
  <2>1. PICK t \in RemoteTexts :
          /\ toClient' = Append(toClient, <<"data", t>>)
          /\ t # NoText => remoteClip[1] = "theirs" /\ t = remoteClip
    <3>1. remoteClip[1] = "theirs" => remoteClip \in RemoteTexts
      BY DEF CacheInv, CacheRanges, RemoteTexts
    <3>2. NoText \in RemoteTexts
      BY DEF RemoteTexts
    <3> QED
      BY <1>7, <3>1, <3>2 DEF RemoteTakes
  <2> DEFINE e == <<"data", t>>
  <2>2. e \in ClipMessages \X RemoteTexts /\ e[1] = "data" /\ e[2] = t /\ toClient' = Append(toClient, e)
    BY <2>1 DEF ClipMessages
  <2>3. UNCHANGED <<announced, remoteText, copies, remoteClip>>
    BY <1>7 DEF RemoteTakes, clipTexts
  <2> HIDE DEF e
  <2>4. Longer(e)
    BY <2>1, <2>2, <2>3, AppendsLonger DEF Longer
  <2> QED
    BY <2>4, LongerCacheInv
<1>8. CASE ProcessesSet
  <2>1. /\ UNCHANGED <<toClient, copies, remoteText, remoteClip>> /\ announced'[1] # "theirs"
    BY <1>8 DEF ProcessesSet, remoteSide
  <2> QED
    BY <2>1, SetCacheInv DEF CacheInv, CacheRanges
<1>9. CASE UNCHANGED <<toClient, copies, remoteText, announced, remoteClip>>
  BY <1>9, SetCacheInv DEF CacheInv, CacheRanges
<1> QED
  BY <1>1, <1>2, <1>3, <1>4, <1>5, <1>6, <1>7, <1>8, <1>9 DEF ClipNext,
     clipVars, clipTexts,
     remoteSide, AsksClipboard, GivesUp, ProcessesGet, SendsBackendMessage

(* A cached text is that of the last copy announced: the answer to a get   *)
(* whose handler is gone is not kept past the next announcement            *)
(* (clipboard.rs on_remote_copy, on_format_data_response), whatever the    *)
(* handlers set, and however answers and announcements interleave.         *)
THEOREM CachesAreAnnounced == ClipSpec => []CacheIsAnnounced
<1>1. CacheInv => CacheIsAnnounced
  BY DEF CacheInv
<1> QED
  BY <1>1, InitCacheInv, StepCacheInv, PTL DEF ClipSpec

-----------------------------------------------------------------------------
(* The texts that go round are ours or were copied there.                  *)

ClipRest ==
    /\ clipPlan \in ClipPlans /\ localText \in Texts /\ announced \in Texts
    /\ pastes \in 0 .. MaxPastes

LEMMA TextsFacts ==
    /\ NoText \in Texts /\ RemoteTexts \subseteq Texts /\ TheirText(0) \in Texts
    /\ \A c \in Handlers : OurText(c) \in Texts
<1>1. 0 \in 0 .. MaxCopies
  OBVIOUS
<1>2. {NoText} \cup ({"theirs"} \X (0 .. MaxCopies)) \subseteq Texts
  BY DEF Texts
<1> QED
  BY <1>1, <1>2 DEF Texts, RemoteTexts

LEMMA StepClipRest ==
    ASSUME ClipRest, SlotInv, CacheInv, [ClipNext]_clipVars
    PROVE  ClipRest'
<1>1. clipPlan' = clipPlan
  <2>1. CASE UNCHANGED clipVars
    BY <2>1 DEF clipVars
  <2>2. CASE \E c \in Handlers : AsksClipboard(c) \/ GivesUp(c)
    BY <2>2 DEF AsksClipboard, GivesUp
  <2>3. CASE ProcessesSet \/ ProcessesGet \/ SendsBackendMessage
    BY <2>3 DEF ProcessesSet, ProcessesGet, SendsBackendMessage
  <2>4. CASE OnRequestFormatList \/ OnRemoteCopy \/ OnFormatDataRequest \/ OnFormatDataResponse
    <3>1. ASSUME NEW kind, Receives(kind) PROVE clipPlan' = clipPlan
      BY <3>1 DEF Receives
    <3> QED
      BY <2>4, <3>1, Zenon DEF OnRequestFormatList, OnRemoteCopy, OnFormatDataRequest,
                        OnFormatDataResponse
  <2>5. CASE RemoteCopies \/ RemotePastes \/ RemoteTakes
    BY <2>5 DEF RemoteCopies, RemotePastes, RemoteTakes
  <2> QED
    BY <2>1, <2>2, <2>3, <2>4, <2>5 DEF ClipNext
<1>2. Texts' = Texts
  BY <1>1 DEF Texts
<1>3. CASE ProcessesSet
  <2>1. Head(commands) \in Handlers
    BY <1>3, EmptySeq DEF ProcessesSet, SlotInv, SlotRanges
  <2>2. localText' = OurText(Head(commands)) /\ announced' = OurText(Head(commands))
        /\ pastes' = pastes
    BY <1>3 DEF ProcessesSet, remoteSide
  <2>3. localText' \in Texts /\ announced' \in Texts
    BY <2>1, <2>2, TextsFacts
  <2> QED
    BY <1>1, <1>2, <2>2, <2>3 DEF ClipRest
<1>4. CASE OnRemoteCopy
  <2>1. /\ toClient # <<>> /\ toClient \in Seq(ClipMessages \X RemoteTexts)
        /\ announced' = Head(toClient)[2] /\ localText' = localText /\ pastes' = pastes
    BY <1>4 DEF OnRemoteCopy, Receives, remoteSide, CacheInv, CacheRanges
  <2>2. Head(toClient) \in ClipMessages \X RemoteTexts
    BY <2>1
  <2>3. announced' \in Texts
    BY <2>1, <2>2, TextsFacts
  <2> QED
    BY <1>1, <1>2, <2>1, <2>3 DEF ClipRest
<1>5. CASE RemotePastes
  <2>1. pastes' \in 0 .. MaxPastes /\ localText' = localText /\ announced' = announced
    BY <1>5 DEF RemotePastes, ClipRest, clipTexts
  <2> QED
    BY <1>1, <1>2, <2>1 DEF ClipRest
<1>6. ASSUME UNCHANGED <<localText, announced, pastes>>
      PROVE  ClipRest'
  BY <1>1, <1>2, <1>6 DEF ClipRest
<1>7. CASE UNCHANGED clipVars
  BY <1>6, <1>7 DEF clipVars
<1>8. CASE \E c \in Handlers : AsksClipboard(c) \/ GivesUp(c)
  BY <1>6, <1>8 DEF AsksClipboard, GivesUp, clipTexts, remoteSide
<1>9. CASE ProcessesGet \/ SendsBackendMessage
  BY <1>6, <1>9 DEF ProcessesGet, SendsBackendMessage, clipTexts, remoteSide
<1>10. CASE OnRequestFormatList \/ OnFormatDataRequest \/ OnFormatDataResponse
  <2>1. ASSUME NEW kind, Receives(kind) PROVE localText' = localText /\ pastes' = pastes
    BY <2>1 DEF Receives, remoteSide
  <2>2. localText' = localText /\ pastes' = pastes
    BY <1>10, <2>1, Zenon DEF OnRequestFormatList, OnFormatDataRequest, OnFormatDataResponse
  <2>3. announced' = announced
    BY <1>10, Zenon DEF OnRequestFormatList, OnFormatDataRequest, OnFormatDataResponse
  <2> QED
    BY <1>6, <2>2, <2>3
<1>11. CASE RemoteCopies \/ RemoteTakes
  BY <1>6, <1>11 DEF RemoteCopies, RemoteTakes, clipTexts
<1> QED
  BY <1>3, <1>4, <1>5, <1>7, <1>8, <1>9, <1>10, <1>11 DEF ClipNext

(* Type correctness: a text kept or announced is none, one of a handler or *)
(* a copy that was made.                                                   *)
THEOREM ClipTypeCorrect == ClipSpec => []ClipTypeOK
<1>1. ASSUME ClipInit PROVE ClipRest
  <2>1. clipPlan \in ClipPlans /\ localText = NoText /\ announced = TheirText(0)
        /\ pastes \in 0 .. MaxPastes
    <3>1. clipPlan \in ClipPlans /\ localText = NoText /\ announced = TheirText(0)
      BY <1>1, Zenon DEF ClipInit
    <3>2. pastes = 0
      BY <1>1, Zenon DEF ClipInit
    <3>3. pastes \in 0 .. MaxPastes
      BY <3>2
    <3> QED
      BY <3>1, <3>3, Zenon
  <2>2. localText \in Texts /\ announced \in Texts
    BY <2>1, TextsFacts
  <2> QED
    BY <2>1, <2>2 DEF ClipRest
<1>2. SlotInv /\ CacheInv /\ ClipRest => ClipTypeOK
  BY TextsFacts DEF SlotInv, SlotRanges, ClipStages, CacheInv, CacheRanges, ClipRest, ClipTypeOK
<1> QED
  BY <1>1, <1>2, InitSlotInv, StepSlotInv, InitCacheInv, StepCacheInv, StepClipRest, PTL
     DEF ClipSpec

HIDE ClipAssumption DEF ClipAssumption, Handlers, NoText, TheirText, OurText


-----------------------------------------------------------------------------
(* DriveRedirection.                                                       *)

-----------------------------------------------------------------------------
(* The tables of open files, as functions.                                 *)

LEMMA WithFacts ==
    ASSUME NEW f, NEW x, NEW v
    PROVE  /\ DOMAIN With(f, x, v) = DOMAIN f \cup {x}
           /\ With(f, x, v)[x] = v
           /\ \A y \in DOMAIN f : y # x => With(f, x, v)[y] = f[y]
BY DEF With

LEMMA WithType ==
    ASSUME NEW S, NEW T, NEW f \in [S -> T], NEW x, NEW v \in T
    PROVE  With(f, x, v) \in [S \cup {x} -> T]
BY DEF With

LEMMA WithoutFacts ==
    ASSUME NEW f, NEW x
    PROVE  /\ DOMAIN Without(f, x) = DOMAIN f \ {x}
           /\ \A y \in DOMAIN f : y # x => Without(f, x)[y] = f[y]
BY DEF Without, Restrict

LEMMA WithoutType ==
    ASSUME NEW S, NEW T, NEW f \in [S -> T], NEW x
    PROVE  Without(f, x) \in [S \ {x} -> T]
BY DEF Without, Restrict

-----------------------------------------------------------------------------
(* The inductive invariant.                                                *)

Nodes == {"file", "folder"} \X (Nat \ {0})

Listings == [drive : Drives, names : SUBSET Names, told : SUBSET Names, over : BOOLEAN]

FoldersOK ==
    /\ tree \in [Paths -> {Nothing} \cup Nodes]
    /\ written \subseteq {tree[p] : p \in Paths} \ {Nothing}
    /\ kept \in BOOLEAN

(* Every table has its range; a listing belongs to an open handle, which   *)
(* keeps an iterator for it; what is marked is what the remote asked.      *)
TablesOK ==
    /\ nextFileId \in Nat
    /\ Handles \subseteq 0 .. nextFileId - 1
    /\ pathMap \in [Handles -> Paths]
    /\ fileMap \in [Handles -> {"folder", "reads", "writes"}]
    /\ deviceMap \in [Handles -> Drives]
    /\ opened \in [Handles -> Nodes]
    /\ listing \in [DOMAIN listing -> Listings]
    /\ dirMap \in [DOMAIN dirMap -> SUBSET Names]
    /\ DOMAIN listing \subseteq DOMAIN dirMap /\ DOMAIN dirMap \subseteq Handles
    /\ deleteOnClose \subseteq Handles
    /\ wanted = deleteOnClose

(* A file has one name at most.                                            *)
OneName ==
    \A p, q \in Paths : tree[p] = tree[q] /\ IsFile(p) => p = q

(* The entries a listing was made of are there; those it has told and      *)
(* those it has still to return are all of them; and it ends when none is  *)
(* left.                                                                   *)
Accounted(h) ==
    /\ \A n \in listing[h].names : Exists(<<listing[h].drive, <<n>>>>)
    /\ IF listing[h].over THEN listing[h].names = listing[h].told
       ELSE listing[h].names = listing[h].told \cup dirMap[h]

ListingsAccounted == \A h \in DOMAIN listing : Accounted(h)

DriveInv == FoldersOK /\ TablesOK /\ OneName /\ PathNamesHandle /\ ListingsAccounted

LEMMA PathsFacts ==
    /\ \A d \in Drives : <<d, Root>> \in Paths
    /\ \A d \in Drives, n \in Names : <<d, <<n>>>> \in Paths
    /\ \A p \in Paths : p[1] \in Drives /\ Parent(p) \in Paths
    /\ \A p \in Paths : p[2] # Root => Parent(p) # p
    /\ \A p \in Paths : p = <<p[1], p[2]>>
BY DEF Paths, Root, Parent

LEMMA NodesFacts ==
    /\ Nothing \notin Nodes
    /\ \A x \in {Nothing} \cup Nodes :
          x # Nothing <=> x[1] \in {"file", "folder"}
BY DEF Nothing, Nodes

LEMMA ReachedPaths ==
    ASSUME NEW device, NEW r \in Requested, NEW p \in Reached(device, r)
    PROVE  p \in Paths
BY RequestAssumption DEF Reached, Paths

(* The next file's node is one nobody names or holds.                      *)
LEMMA PathsFinite == IsFiniteSet(Paths)
<1> DEFINE named == [n \in Names |-> <<n>>]
<1>1. named \in Surjection(Names, {<<n>> : n \in Names})
  BY DEF Surjection
<1>2. IsFiniteSet({<<n>> : n \in Names})
  BY <1>1, DriveAssumption, FS_Surjection DEF DriveAssumption
<1>3. IsFiniteSet({Root} \cup {<<n>> : n \in Names})
  BY <1>2, FS_Singleton, FS_Union
<1> QED BY <1>3, FS_Product, DriveAssumption DEF Paths, DriveAssumption

LEMMA IntervalSize ==
    ASSUME NEW n \in Nat
    PROVE  Cardinality(1 .. n + 2) = n + 2
<1>1. 1 \in Int /\ n + 2 \in Int
  OBVIOUS
<1>2. Cardinality(1 .. n + 2) = IF 1 > n + 2 THEN 0 ELSE n + 2 - 1 + 1
  BY <1>1, FS_Interval
<1> QED BY <1>2

LEMMA FreshFiles ==
    ASSUME FoldersOK, TablesOK, NEW kind \in {"file", "folder"}
    PROVE  /\ NewFile(kind) \in Nodes
           /\ \A p \in Paths : tree[p] # NewFile(kind)
           /\ \A i \in Unused(kind) :
                 /\ <<kind, i>> \in Nodes
                 /\ \A p \in Paths : tree[p] # <<kind, i>>
<1>1. IsFiniteSet(InUse) /\ Cardinality(InUse) \in Nat
  <2>1. tree \in Surjection(Paths, {tree[p] : p \in Paths})
    BY DEF FoldersOK, TablesOK, Surjection
  <2>2. IsFiniteSet({tree[p] : p \in Paths})
    BY <2>1, PathsFinite, FS_Surjection
  <2>3. opened \in Surjection(Handles, {opened[h] : h \in Handles})
    BY DEF FoldersOK, TablesOK, Surjection
  <2>4. IsFiniteSet(0 .. nextFileId - 1)
    <3>1. nextFileId - 1 \in Int BY DEF TablesOK
    <3> QED BY <3>1, FS_Interval
  <2>5. IsFiniteSet({opened[h] : h \in Handles})
    BY <2>3, <2>4, FS_Subset, FS_Surjection DEF TablesOK
  <2> QED BY <2>2, <2>5, FS_Union, FS_CardinalityType DEF InUse
<1> DEFINE n == Cardinality(InUse)
           num == [i \in 1 .. n + 2 |-> <<kind, i>>]
<1>2. Unused(kind) # {}
  <2> SUFFICES ASSUME \A i \in 1 .. n + 2 : <<kind, i>> \in InUse
               PROVE  FALSE
    BY DEF Unused
  <2>1. num \in Injection(1 .. n + 2, InUse)
    BY DEF Injection, IsInjective
  <2>2. Cardinality(1 .. n + 2) <= n
    BY <2>1, <1>1, FS_Injection
  <2>3. Cardinality(1 .. n + 2) = n + 2
    BY <1>1, IntervalSize
  <2> QED BY <2>2, <2>3, <1>1
<1>3. \A i \in Unused(kind) : i \in Nat \ {0} /\ <<kind, i>> \notin InUse
  BY <1>1 DEF Unused
<1> QED BY <1>2, <1>3 DEF NewFile, InUse, Nodes

LEMMA InitDriveInv == DriveInit => DriveInv
<1> SUFFICES ASSUME DriveInit PROVE DriveInv
  OBVIOUS
<1>1. DOMAIN pathMap = {} /\ DOMAIN listing = {} /\ DOMAIN dirMap = {}
  BY DEF DriveInit
<1>2. <<"folder", 1>> \in Nodes
  BY DEF Nodes
<1>3. FoldersOK
  BY <1>2 DEF DriveInit, FoldersOK
<1>4. TablesOK
  BY <1>1 DEF DriveInit, TablesOK, Handles
<1>5. OneName
  BY DEF DriveInit, OneName, IsFile, Nothing
<1> QED
  BY <1>1, <1>3, <1>4, <1>5
     DEF DriveInv, PathNamesHandle, ListingsAccounted, Handles

-----------------------------------------------------------------------------
(* What a change of the folders does to the rest.                          *)

Grows == \A p \in Paths : Exists(p) => tree'[p] = tree[p]

LEMMA GrowsAccounted ==
    ASSUME TablesOK, ListingsAccounted, Grows, UNCHANGED <<dirMap, listing>>
    PROVE  ListingsAccounted'
<1> SUFFICES ASSUME NEW h \in DOMAIN listing
             PROVE  Accounted(h)'
  BY DEF ListingsAccounted
<1>1. listing[h] \in Listings
  BY DEF TablesOK
<1>2. \A n \in listing[h].names : <<listing[h].drive, <<n>>>> \in Paths
  BY <1>1, PathsFacts DEF Listings
<1> QED BY <1>2 DEF Accounted, Grows, Exists, ListingsAccounted

(* Only listings all of whose entries are there are followed further.      *)
LEMMA ListedFacts ==
    ASSUME TablesOK
    PROVE  /\ DOMAIN Listed(tree') \subseteq DOMAIN listing
           /\ Listed(tree') \in [DOMAIN Listed(tree') -> Listings]
           /\ \A h \in DOMAIN Listed(tree') :
                 /\ Listed(tree')[h] = listing[h]
                 /\ \A n \in listing[h].names :
                       tree'[<<listing[h].drive, <<n>>>>] # Nothing
BY DEF Listed, Restrict, TablesOK

LEMMA ListedAccounted ==
    ASSUME TablesOK, ListingsAccounted, listing' = Listed(tree'),
           UNCHANGED dirMap
    PROVE  ListingsAccounted'
BY ListedFacts DEF ListingsAccounted, Accounted, Exists

-----------------------------------------------------------------------------
(* create_drive.                                                           *)

LEMMA InsertsKeeps ==
    ASSUME DriveInv, TakesId, Grows, NEW p \in Paths, tree'[p] \in Nodes,
           NEW device \in Drives, NEW access \in {"folder", "reads", "writes"},
           Inserts(device, p, access), UNCHANGED listing
    PROVE  TablesOK' /\ PathNamesHandle' /\ ListingsAccounted'
<1> USE DEF DriveInv
<1>1. nextFileId \in Nat /\ nextFileId' = nextFileId + 1 /\ nextFileId \notin Handles
  BY DEF TablesOK, TakesId
<1>2. /\ Handles' = Handles \cup {nextFileId}
      /\ pathMap'[nextFileId] = p /\ opened'[nextFileId] = tree'[p]
      /\ \A h \in Handles : pathMap'[h] = pathMap[h] /\ opened'[h] = opened[h]
  <2>1. DOMAIN opened = Handles /\ DOMAIN pathMap = Handles
    BY DEF TablesOK, Handles
  <2>2. /\ pathMap' = [y \in Handles \cup {nextFileId} |->
                          IF y = nextFileId THEN p ELSE pathMap[y]]
        /\ opened' = [y \in Handles \cup {nextFileId} |->
                          IF y = nextFileId THEN tree'[p] ELSE opened[y]]
    BY <2>1 DEF Inserts, With
  <2>3. Handles' = Handles \cup {nextFileId}
    BY <2>2 DEF Handles
  <2> QED BY <1>1, <2>2, <2>3
<1>3. /\ pathMap' \in [Handles' -> Paths]
      /\ fileMap' \in [Handles' -> {"folder", "reads", "writes"}]
      /\ deviceMap' \in [Handles' -> Drives]
      /\ opened' \in [Handles' -> Nodes]
  BY <1>2, WithType DEF Inserts, TablesOK
<1>4. UNCHANGED <<listing, dirMap, deleteOnClose, wanted, disturbed>>
  BY DEF Inserts
<1>5. TablesOK'
  BY <1>1, <1>2, <1>3, <1>4 DEF TablesOK
<1>6. PathNamesHandle'
  <2> SUFFICES ASSUME NEW h \in Handles', h \notin disturbed
               PROVE  tree'[pathMap'[h]] = opened'[h]
    BY <1>4 DEF PathNamesHandle
  <2>1. CASE h = nextFileId
    BY <1>2, <2>1
  <2>2. CASE h \in Handles
    BY <1>2, <2>2, NodesFacts DEF PathNamesHandle, Grows, Exists, TablesOK
  <2> QED BY <2>1, <2>2, <1>2
<1>7. ListingsAccounted'
  BY <1>4, GrowsAccounted
<1> QED BY <1>5, <1>6, <1>7

(* A file or folder with a name of its own.                                *)
LEMMA MakesKeeps ==
    ASSUME DriveInv, NEW p \in Paths, ~Exists(p), NEW kind \in {"file",
           "folder"},
           Makes(p, kind), UNCHANGED <<written, kept>>
    PROVE  FoldersOK' /\ OneName' /\ Grows /\ tree'[p] \in Nodes
<1> USE DEF DriveInv
<1>1. /\ NewFile(kind) \in Nodes
      /\ \A q \in Paths : tree[q] # NewFile(kind)
  BY FreshFiles
<1> HIDE DEF NewFile
<1>2. /\ tree' \in [Paths -> {Nothing} \cup Nodes]
      /\ tree'[p] = NewFile(kind)
      /\ \A q \in Paths : q # p => tree'[q] = tree[q]
  BY <1>1 DEF Makes, FoldersOK
<1>3. Grows
  BY <1>2 DEF Grows, Exists
<1>4. FoldersOK'
  BY <1>2 DEF FoldersOK, Exists
<1>5. OneName'
  BY <1>1, <1>2 DEF OneName, IsFile
<1> QED BY <1>1, <1>2, <1>3, <1>4, <1>5

LEMMA MakesFolderKeeps ==
    ASSUME DriveInv, TakesId, NEW p \in Paths, NEW device \in Drives,
           NEW disposition, NEW kind,
           FolderIsMade(p, disposition, kind), MakesFolder(device, p)
    PROVE  DriveInv'
<1> USE DEF DriveInv
<1>1. ~Exists(p) /\ Inserts(device, p, "folder") /\ UNCHANGED <<written, kept, listing>>
  BY DEF FolderIsMade, MakesFolder
<1>2. FoldersOK' /\ OneName' /\ Grows /\ tree'[p] \in Nodes
  <2>1. CASE InFolder(p) /\ Makes(p, "folder")
    BY <1>1, <2>1, MakesKeeps
  <2>2. CASE ~InFolder(p) /\ ~(InFolder(p) /\ Makes(p, "folder"))
    <3>1. PICK i \in Unused("folder") :
             /\ <<"folder", i>> # NewFile("folder")
             /\ tree' = [tree EXCEPT ![p] = NewFile("folder"),
                                     ![Parent(p)] = <<"folder", i>>]
      BY <2>2 DEF MakesFolder
    <3> DEFINE q == Parent(p)
               a == NewFile("folder")
               b == <<"folder", i>>
    <3>2. /\ a \in Nodes /\ b \in Nodes /\ a # b
          /\ \A x \in Paths : tree[x] # a /\ tree[x] # b
      BY <3>1, FreshFiles
    <3>3. q \in Paths /\ q # p
      BY <2>2, PathsFacts DEF InFolder
    <3>4. ~Exists(q)
      <4>1. ~IsFolder(q) /\ ~IsFile(q)
        BY <2>2 DEF InFolder, FolderIsMade
      <4> QED BY <3>3, <4>1, NodesFacts DEF FoldersOK, IsFolder, IsFile, Exists
    <3>5. tree' = [tree EXCEPT ![p] = a, ![q] = b]
      BY <3>1
    <3> HIDE DEF q, a, b
    <3>6. /\ tree' \in [Paths -> {Nothing} \cup Nodes]
          /\ tree'[p] = a /\ tree'[q] = b
          /\ \A x \in Paths : x # p /\ x # q => tree'[x] = tree[x]
      BY <3>2, <3>3, <3>5 DEF FoldersOK
    <3>7. Grows /\ tree'[p] \in Nodes
      BY <1>1, <3>2, <3>4, <3>6 DEF Grows, Exists
    <3>8. FoldersOK'
      BY <1>1, <3>4, <3>6 DEF FoldersOK, Exists
    <3>9. OneName'
      BY <3>2, <3>6 DEF OneName, IsFile
    <3> QED BY <3>7, <3>8, <3>9
  <2> QED BY <2>1, <2>2 DEF MakesFolder
<1>3. TablesOK' /\ PathNamesHandle' /\ ListingsAccounted'
  BY <1>1, <1>2, InsertsKeeps
<1> QED BY <1>2, <1>3

LEMMA CreateKeeps ==
    ASSUME DriveInv, NEW device \in Devices, NEW r \in Requested,
           NEW disposition \in Dispositions, NEW kind \in OpenKinds,
           CreateDrive(device, r, disposition, kind)
    PROVE  DriveInv'
<1>1. TakesId
  BY DEF CreateDrive
<1>2. ASSUME NEW p \in Reached(device, r)
      PROVE  p \in Paths /\ device \in Drives
  BY <1>2, ReachedPaths DEF Reached
<1>3. Access(disposition) \in {"folder", "reads", "writes"}
  BY DEF Access
<1>4. ASSUME NEW p \in Reached(device, r),
             FolderOpens(p, disposition, kind), OpensFolder(device, p)
      PROVE  DriveInv'
  <2>1. /\ UNCHANGED <<tree, written, kept, listing>> /\ Inserts(device, p, "folder")
        /\ tree[p][1] = "folder"
    BY <1>4 DEF OpensFolder, folders, FolderOpens, IsFolder
  <2>2. Grows /\ tree'[p] \in Nodes
    BY <1>2, <2>1, NodesFacts DEF Grows, DriveInv, FoldersOK, Nothing
  <2>3. TablesOK' /\ PathNamesHandle' /\ ListingsAccounted'
    BY <1>1, <1>2, <2>1, <2>2, InsertsKeeps
  <2> QED BY <2>1, <2>3 DEF DriveInv, FoldersOK, OneName, IsFile
<1>5. ASSUME NEW p \in Reached(device, r),
             FolderIsMade(p, disposition, kind), MakesFolder(device, p)
      PROVE  DriveInv'
  BY <1>1, <1>2, <1>5, MakesFolderKeeps
<1>6. ASSUME NEW p \in Reached(device, r),
             FileOpens(p, disposition, kind), OpensFile(device, p, disposition)
      PROVE  DriveInv'
  <2>1. /\ UNCHANGED <<tree, kept, listing>> /\ Inserts(device, p, Access(disposition))
        /\ written' \subseteq written
        /\ tree[p][1] = "file"
    BY <1>6 DEF OpensFile, FileOpens, IsFile
  <2>2. Grows /\ tree'[p] \in Nodes
    BY <1>2, <2>1, NodesFacts DEF Grows, DriveInv, FoldersOK, Nothing
  <2>3. TablesOK' /\ PathNamesHandle' /\ ListingsAccounted'
    BY <1>1, <1>2, <1>3, <2>1, <2>2, InsertsKeeps
  <2> QED BY <2>1, <2>3 DEF DriveInv, FoldersOK, OneName, IsFile
<1>7. ASSUME NEW p \in Reached(device, r),
             FileIsMade(p, disposition, kind), MakesFile(device, p, disposition)
      PROVE  DriveInv'
  <2>1. /\ ~Exists(p) /\ Makes(p, "file") /\ UNCHANGED <<written, kept, listing>>
        /\ Inserts(device, p, Access(disposition))
    BY <1>7 DEF MakesFile, FileIsMade
  <2>2. FoldersOK' /\ OneName' /\ Grows /\ tree'[p] \in Nodes
    BY <1>2, <2>1, MakesKeeps
  <2>3. TablesOK' /\ PathNamesHandle' /\ ListingsAccounted'
    BY <1>1, <1>2, <1>3, <2>1, <2>2, InsertsKeeps
  <2> QED BY <2>2, <2>3 DEF DriveInv
<1>8. ASSUME UNCHANGED <<folders, tables, dirMap, deleteOnClose, wanted,
                         disturbed, listing>>
      PROVE  DriveInv'
  <2>1. UNCHANGED <<tree, written, kept, fileMap, pathMap, deviceMap, opened, dirMap,
                    deleteOnClose, wanted, disturbed, listing>>
    BY <1>8 DEF folders, tables
  <2>2. TablesOK'
    BY <1>1, <2>1 DEF DriveInv, TablesOK, TakesId, Handles
  <2> QED BY <2>1, <2>2 DEF DriveInv, FoldersOK, OneName, IsFile, PathNamesHandle,
             ListingsAccounted, Accounted, Exists, Handles
<1> QED BY <1>4, <1>5, <1>6, <1>7, <1>8 DEF CreateDrive

-----------------------------------------------------------------------------
(* Requests on an open file.                                               *)

LEMMA HandleFacts ==
    ASSUME TablesOK, NEW h \in Handles
    PROVE  /\ pathMap[h] \in Paths /\ opened[h] \in Nodes
           /\ fileMap[h] \in {"folder", "reads", "writes"}
           /\ deviceMap[h] \in Drives
BY DEF TablesOK

(* Only what the files hold, or what is marked, changes.                   *)
LEMMA ContentKeeps ==
    ASSUME DriveInv, written' \subseteq {tree[p] : p \in Paths} \ {Nothing},
           deleteOnClose' \subseteq Handles, wanted' = deleteOnClose',
           UNCHANGED <<tree, kept, nextFileId, tables, dirMap, disturbed, listing>>
    PROVE  DriveInv'
<1>1. UNCHANGED <<tree, kept, nextFileId, fileMap, pathMap, deviceMap, opened, dirMap,
                  disturbed, listing>>
  BY DEF tables
<1>2. FoldersOK'
  BY <1>1 DEF DriveInv, FoldersOK
<1>3. TablesOK'
  BY <1>1 DEF DriveInv, TablesOK, Handles
<1> QED BY <1>1, <1>2, <1>3 DEF DriveInv, OneName, IsFile, PathNamesHandle,
           ListingsAccounted, Accounted, Exists, Handles

LEMMA WriteKeeps ==
    ASSUME DriveInv, NEW h \in Handles,
           \/ WriteDevice(h) \/ SetEndOfFile(h)
           \/ \E delete \in BOOLEAN : SetDisposition(h, delete)
    PROVE  DriveInv'
<1>1. CASE WriteDevice(h)
  <2>1. opened[h] # Nothing
    BY HandleFacts, NodesFacts DEF DriveInv
  <2>2. written' \subseteq {tree[p] : p \in Paths} \ {Nothing}
    BY <1>1, <2>1 DEF WriteDevice, DriveInv, FoldersOK
  <2> QED BY <1>1, <2>2, ContentKeeps DEF WriteDevice, DriveInv, TablesOK
<1>2. CASE SetEndOfFile(h)
  <2>1. written' \subseteq {tree[p] : p \in Paths} \ {Nothing}
    BY <1>2 DEF SetEndOfFile, DriveInv, FoldersOK
  <2> QED BY <1>2, <2>1, ContentKeeps DEF SetEndOfFile, DriveInv, TablesOK
<1>3. ASSUME NEW delete \in BOOLEAN, SetDisposition(h, delete)
      PROVE  DriveInv'
  <2>1. UNCHANGED <<tree, written, kept, nextFileId, tables, dirMap, disturbed, listing>>
    BY <1>3 DEF SetDisposition, folders
  <2>2. deleteOnClose' \subseteq Handles /\ wanted' = deleteOnClose'
    BY <1>3 DEF SetDisposition, DriveInv, TablesOK
  <2> QED BY <2>1, <2>2, ContentKeeps DEF DriveInv, FoldersOK
<1> QED BY <1>1, <1>2, <1>3

LEMMA RenameKeeps ==
    ASSUME DriveInv, NEW h \in Handles, NEW device \in Devices,
           NEW r \in Requested, Rename(h, device, r)
    PROVE  DriveInv'
<1> USE DEF DriveInv
<1> DEFINE from == pathMap[h]
<1>1. PICK to \in Reached(device, r) :
         /\ Movable(from, to) /\ to # from
         /\ Moves(from, to)
         /\ pathMap' = [pathMap EXCEPT ![h] = to]
         /\ disturbed' = disturbed \cup ((At(from) \cup At(to)) \ {h})
         /\ UNCHANGED <<changes, kept, nextFileId, fileMap, deviceMap, opened,
                        dirMap, deleteOnClose, wanted>>
  BY DEF Rename
<1>2. from \in Paths /\ to \in Paths /\ from # to
  BY <1>1, HandleFacts, ReachedPaths
<1>3. /\ tree' \in [Paths -> {Nothing} \cup Nodes]
      /\ tree'[from] = Nothing /\ tree'[to] = tree[from]
      /\ \A p \in Paths : p # from /\ p # to => tree'[p] = tree[p]
      /\ written' = written \ {tree[to]}
      /\ listing' = Listed(tree')
  BY <1>1, <1>2 DEF Moves, FoldersOK
<1>4. /\ Handles' = Handles /\ pathMap' \in [Handles -> Paths] /\ pathMap'[h] = to
      /\ \A g \in Handles : g # h => pathMap'[g] = pathMap[g]
  BY <1>1, <1>2 DEF TablesOK, Handles
<1>5. FoldersOK'
  BY <1>1, <1>2, <1>3 DEF FoldersOK
<1>6. TablesOK'
  BY <1>1, <1>3, <1>4, ListedFacts DEF TablesOK
<1>7. OneName'
  <2> SUFFICES ASSUME NEW p \in Paths, NEW q \in Paths,
                      tree'[p] = tree'[q], tree'[p][1] = "file"
               PROVE  p = q
    BY DEF OneName, IsFile
  <2>1. p # from /\ q # from
    BY <1>3 DEF Nothing
  <2> QED BY <1>2, <1>3, <2>1 DEF OneName, IsFile
<1>8. PathNamesHandle'
  <2> SUFFICES ASSUME NEW g \in Handles, g \notin disturbed'
               PROVE  tree'[pathMap'[g]] = opened'[g]
    BY <1>4 DEF PathNamesHandle
  <2>1. CASE g = h
    BY <1>1, <1>3, <1>4, <2>1 DEF PathNamesHandle
  <2>2. CASE g # h
    <3>1. pathMap[g] # from /\ pathMap[g] # to
      BY <1>1, <2>2 DEF At
    <3> QED BY <1>1, <1>3, <1>4, <2>2, <3>1, HandleFacts DEF PathNamesHandle
  <2> QED BY <2>1, <2>2
<1>9. ListingsAccounted'
  BY <1>1, <1>3, ListedAccounted
<1> QED BY <1>5, <1>6, <1>7, <1>8, <1>9

(* What closing a handle does to the folders.                              *)
Removes(h) ==
    /\ h \in deleteOnClose /\ Removable(pathMap[h])
    /\ tree' = [tree EXCEPT ![pathMap[h]] = Nothing]
    /\ written' = written \ {tree[pathMap[h]]}
    /\ disturbed' = (disturbed \cup At(pathMap[h])) \ {h}
    /\ listing' = Without(Listed(tree'), h)
    /\ kept' = FALSE

Spared(h) ==
    /\ disturbed' = disturbed \ {h}
    /\ listing' = Without(listing, h)
    /\ kept' = (h \in deleteOnClose)
    /\ UNCHANGED <<tree, written>>

LEMMA CloseFacts ==
    ASSUME DriveInv, NEW h \in Handles, CloseDevice(h)
    PROVE  Handles' = Handles \ {h} /\ (Removes(h) \/ Spared(h))
BY WithoutFacts DEF CloseDevice, Handles, Removes, Spared

LEMMA CloseKeeps ==
    ASSUME DriveInv, NEW h \in Handles, CloseDevice(h)
    PROVE  DriveInv'
<1> USE DEF DriveInv
<1>1. Handles' = Handles \ {h} /\ (Removes(h) \/ Spared(h))
  BY CloseFacts
<1>2. /\ \A g \in Handles' : pathMap'[g] = pathMap[g] /\ opened'[g] = opened[g]
      /\ UNCHANGED nextFileId
  <2>1. DOMAIN pathMap = Handles /\ DOMAIN opened = Handles
    BY DEF TablesOK, Handles
  <2> QED BY <1>1, <2>1, WithoutFacts DEF CloseDevice
<1>3. PICK told : /\ listing' = Without(told, h)
                  /\ told \in [DOMAIN told -> Listings]
                  /\ DOMAIN told \subseteq DOMAIN listing
                  /\ \A g \in DOMAIN told :
                        /\ told[g] = listing[g]
                        /\ \A n \in listing[g].names :
                              tree'[<<listing[g].drive, <<n>>>>] # Nothing
  <2>1. CASE Removes(h)
    BY <2>1, ListedFacts DEF Removes
  <2>2. CASE Spared(h)
    <3>1. listing' = Without(listing, h) /\ UNCHANGED tree
      BY <2>2 DEF Spared
    <3>2. \A g \in DOMAIN listing : \A n \in listing[g].names :
             tree'[<<listing[g].drive, <<n>>>>] # Nothing
      BY <3>1 DEF ListingsAccounted, Accounted, Exists
    <3> QED BY <3>1, <3>2 DEF TablesOK
  <2> QED BY <1>1, <2>1, <2>2
<1>4. dirMap' = Without(dirMap, h)
  BY DEF CloseDevice, EndsListing
<1>5. /\ listing' \in [DOMAIN listing' -> Listings]
      /\ dirMap' \in [DOMAIN dirMap' -> SUBSET Names]
      /\ DOMAIN listing' \subseteq DOMAIN dirMap' /\ DOMAIN dirMap' \subseteq Handles \ {h}
      /\ \A g \in DOMAIN listing' :
            /\ g \in DOMAIN listing /\ listing'[g] = listing[g] /\ dirMap'[g] = dirMap[g]
            /\ \A n \in listing[g].names : tree'[<<listing[g].drive, <<n>>>>] # Nothing
  <2>1. /\ dirMap \in [DOMAIN dirMap -> SUBSET Names] /\ DOMAIN dirMap \subseteq Handles
        /\ DOMAIN listing \subseteq DOMAIN dirMap
    BY DEF TablesOK
  <2>2. /\ DOMAIN listing' = DOMAIN told \ {h} /\ DOMAIN dirMap' = DOMAIN dirMap \ {h}
        /\ \A g \in DOMAIN told \ {h} : listing'[g] = told[g]
        /\ \A g \in DOMAIN dirMap \ {h} : dirMap'[g] = dirMap[g]
    BY <1>3, <1>4, WithoutFacts
  <2>3. listing' \in [DOMAIN told \ {h} -> Listings]
    BY <1>3, WithoutType
  <2>4. dirMap' \in [DOMAIN dirMap \ {h} -> SUBSET Names]
    BY <1>4, <2>1, WithoutType
  <2> QED BY <1>3, <2>1, <2>2, <2>3, <2>4
<1>6. TablesOK'
  <2>1. /\ pathMap' \in [Handles' -> Paths]
        /\ fileMap' \in [Handles' -> {"folder", "reads", "writes"}]
        /\ deviceMap' \in [Handles' -> Drives]
        /\ opened' \in [Handles' -> Nodes]
    BY <1>1, WithoutType DEF CloseDevice, TablesOK
  <2>2. deleteOnClose' = deleteOnClose \ {h} /\ wanted' = wanted \ {h}
    BY DEF CloseDevice
  <2> QED BY <1>1, <1>2, <1>5, <2>1, <2>2 DEF TablesOK
<1>7. ListingsAccounted'
  BY <1>5 DEF ListingsAccounted, Accounted, Exists
<1>8. pathMap[h] \in Paths
  BY HandleFacts
<1>9. FoldersOK' /\ OneName'
  <2>1. CASE Removes(h)
    <3>1. /\ tree' = [tree EXCEPT ![pathMap[h]] = Nothing]
          /\ written' = written \ {tree[pathMap[h]]} /\ kept' = FALSE
      BY <2>1 DEF Removes
    <3>2. FoldersOK'
      BY <1>8, <3>1 DEF FoldersOK
    <3>3. OneName'
      BY <1>8, <3>1 DEF FoldersOK, OneName, IsFile, Nothing
    <3> QED BY <3>2, <3>3
  <2>2. CASE Spared(h)
    BY <2>2 DEF Spared, FoldersOK, OneName, IsFile
  <2> QED BY <1>1, <2>1, <2>2
<1>10. PathNamesHandle'
  <2> SUFFICES ASSUME NEW g \in Handles', g \notin disturbed'
               PROVE  tree'[pathMap'[g]] = opened'[g]
    BY DEF PathNamesHandle
  <2>1. g \in Handles /\ g # h
    BY <1>1
  <2>2. g \notin disturbed /\ (Removes(h) => g \notin At(pathMap[h]))
    BY <1>1, <2>1 DEF Removes, Spared
  <2>3. tree'[pathMap[g]] = tree[pathMap[g]]
    BY <1>1, <1>8, <2>1, <2>2, HandleFacts DEF At, FoldersOK, Removes, Spared
  <2> QED BY <1>2, <2>1, <2>2, <2>3 DEF PathNamesHandle
<1> QED BY <1>6, <1>7, <1>9, <1>10

-----------------------------------------------------------------------------
(* Directory listings.                                                     *)

(* One more reply of a listing: it is followed further, as l, or not.      *)
LEMMA ReplyKeeps ==
    ASSUME DriveInv, NEW h \in Handles, NEW left \in SUBSET Names,
           dirMap' = With(dirMap, h, left),
           UNCHANGED <<folders, nextFileId, tables, deleteOnClose, wanted,
                       disturbed>>,
           \/ listing' = Without(listing, h)
           \/ \E l \in Listings :
                 /\ listing' = With(listing, h, l)
                 /\ \A n \in l.names : Exists(<<l.drive, <<n>>>>)
                 /\ l.names = IF l.over THEN l.told ELSE l.told \cup left
    PROVE  DriveInv'
<1> USE DEF DriveInv
<1>1. UNCHANGED <<tree, written, kept, nextFileId, fileMap, pathMap, deviceMap, opened,
                  deleteOnClose, wanted, disturbed>>
  BY DEF folders, tables
<1>2. /\ DOMAIN dirMap' = DOMAIN dirMap \cup {h}
      /\ dirMap' \in [DOMAIN dirMap' -> SUBSET Names] /\ dirMap'[h] = left
      /\ \A g \in DOMAIN dirMap : g # h => dirMap'[g] = dirMap[g]
  <2>1. dirMap \in [DOMAIN dirMap -> SUBSET Names]
    BY DEF TablesOK
  <2> QED BY <2>1 DEF With
<1>3. /\ listing' \in [DOMAIN listing' -> Listings]
      /\ DOMAIN listing' \subseteq DOMAIN listing \cup {h}
      /\ \A g \in DOMAIN listing' : g # h => g \in DOMAIN listing /\ listing'[g] = listing[g]
      /\ h \in DOMAIN listing' => Accounted(h)'
  <2>1. listing \in [DOMAIN listing -> Listings]
    BY DEF TablesOK
  <2>2. CASE listing' = Without(listing, h)
    BY <2>1, <2>2 DEF Without, Restrict
  <2>3. ASSUME NEW l \in Listings, listing' = With(listing, h, l),
               \A n \in l.names : Exists(<<l.drive, <<n>>>>),
               l.names = IF l.over THEN l.told ELSE l.told \cup left
        PROVE  <1>3
    <3>1. /\ DOMAIN listing' = DOMAIN listing \cup {h}
          /\ listing' \in [DOMAIN listing' -> Listings] /\ listing'[h] = l
          /\ \A g \in DOMAIN listing : g # h => listing'[g] = listing[g]
      BY <2>1, <2>3 DEF With
    <3>2. Accounted(h)'
      BY <1>1, <1>2, <2>3, <3>1 DEF Accounted, Exists
    <3> QED BY <3>1, <3>2
  <2> QED BY <2>2, <2>3
<1>4. TablesOK'
  BY <1>1, <1>2, <1>3 DEF TablesOK, Handles
<1>5. ListingsAccounted'
  <2> SUFFICES ASSUME NEW g \in DOMAIN listing', g # h PROVE Accounted(g)'
    BY <1>3 DEF ListingsAccounted
  <2>1. /\ listing'[g] = listing[g] /\ dirMap'[g] = dirMap[g] /\ Accounted(g)
    BY <1>2, <1>3 DEF ListingsAccounted, TablesOK
  <2> QED BY <1>1, <2>1 DEF Accounted, Exists
<1>6. FoldersOK' /\ OneName'
  BY <1>1 DEF FoldersOK, OneName, IsFile
<1>7. PathNamesHandle'
  BY <1>1 DEF PathNamesHandle, Handles
<1> QED BY <1>4, <1>5, <1>6, <1>7

(* A listing d of which the entries are still to be returned goes on.      *)
LEMMA ListsKeeps ==
    ASSUME DriveInv, NEW h \in Handles, NEW d \in Listings, ~d.over,
           NEW entries \in SUBSET Names, Lists(h, d, entries),
           \A n \in d.names : Exists(<<d.drive, <<n>>>>),
           d.names = d.told \cup entries,
           UNCHANGED <<folders, nextFileId, tables, deleteOnClose, wanted,
                       disturbed>>
    PROVE  DriveInv'
<1>1. CASE entries = {} /\ Iterates(h, {}, With(listing, h, [d EXCEPT !.over = TRUE]))
  <2> DEFINE l == [d EXCEPT !.over = TRUE]
             left == {}
  <2>1. /\ l \in Listings /\ l.names = d.names /\ l.told = d.told /\ l.drive = d.drive
        /\ l.over
    BY DEF Listings
  <2>2. listing' = With(listing, h, l) /\ dirMap' = With(dirMap, h, left)
    BY <1>1 DEF Iterates
  <2>3. left \in SUBSET Names /\ l.names = l.told
    BY <1>1, <2>1
  <2> HIDE DEF l, left
  <2> QED BY <2>1, <2>2, <2>3, ReplyKeeps
<1>2. ASSUME NEW n \in entries,
             Iterates(h, entries \ {n}, With(listing, h, [d EXCEPT !.told = @ \cup {n}]))
      PROVE  DriveInv'
  <2> DEFINE l == [d EXCEPT !.told = d.told \cup {n}]
             left == entries \ {n}
  <2>1. /\ l \in Listings /\ l.names = d.names /\ l.told = d.told \cup {n}
        /\ l.drive = d.drive /\ ~l.over
    BY DEF Listings
  <2>2. listing' = With(listing, h, l) /\ dirMap' = With(dirMap, h, left)
    BY <1>2 DEF Iterates
  <2>3. left \in SUBSET Names /\ l.told \cup left = d.names
    BY <1>2, <2>1
  <2> HIDE DEF l, left
  <2> QED BY <2>1, <2>2, <2>3, ReplyKeeps
<1>3. ASSUME NEW left \in SUBSET Names, Iterates(h, left, Without(listing, h))
      PROVE  DriveInv'
  BY <1>3, ReplyKeeps DEF Iterates
<1> QED BY <1>1, <1>2, <1>3 DEF Lists

LEMMA QueryFirstKeeps ==
    ASSUME DriveInv, NEW h \in Handles, NEW device \in Devices,
           NEW r \in Requested, QueryFirst(h, device, r)
    PROVE  DriveInv'
<1>1. PICK p \in Reached(device, r) :
         \/ Lists(h, ListingOf(p), Children(p))
         \/ listing' = Without(listing, h) /\ UNCHANGED dirMap
  BY DEF QueryFirst
<1>2. UNCHANGED <<folders, nextFileId, tables, deleteOnClose, wanted, disturbed>>
  BY DEF QueryFirst
<1>3. CASE Lists(h, ListingOf(p), Children(p))
  <2> DEFINE d == ListingOf(p)
  <2>1. p \in Paths
    BY ReachedPaths
  <2>2. /\ d \in Listings /\ ~d.over /\ Children(p) \in SUBSET Names
        /\ d.names = Children(p) /\ d.told = {} /\ d.drive = p[1]
    BY <2>1, PathsFacts DEF Listings, ListingOf, Children
  <2>3. \A n \in d.names : Exists(<<d.drive, <<n>>>>)
    BY <2>2 DEF Children
  <2> HIDE DEF d
  <2>4. d.names = d.told \cup Children(p)
    BY <2>2
  <2>5. Lists(h, d, Children(p))
    BY <1>3 DEF d
  <2> QED BY <1>2, <2>2, <2>3, <2>4, <2>5, ListsKeeps
<1>4. CASE listing' = Without(listing, h) /\ UNCHANGED dirMap
  <2>1. UNCHANGED <<tree, written, kept, nextFileId, fileMap, pathMap, deviceMap, opened,
                    dirMap, deleteOnClose, wanted, disturbed>>
    BY <1>2, <1>4 DEF folders, tables
  <2>2. /\ DOMAIN listing' \subseteq DOMAIN listing
        /\ listing' \in [DOMAIN listing' -> Listings]
        /\ \A g \in DOMAIN listing' : listing'[g] = listing[g]
    BY <1>4 DEF Without, Restrict, DriveInv, TablesOK
  <2>3. TablesOK'
    BY <2>1, <2>2 DEF DriveInv, TablesOK, Handles
  <2>4. ListingsAccounted'
    BY <2>1, <2>2 DEF DriveInv, ListingsAccounted, Accounted, Exists
  <2> QED BY <2>1, <2>3, <2>4 DEF DriveInv, FoldersOK, OneName, IsFile,
             PathNamesHandle, Handles
<1> QED BY <1>1, <1>3, <1>4

LEMMA QueryNextKeeps ==
    ASSUME DriveInv, NEW h \in Handles, QueryNext(h)
    PROVE  DriveInv'
<1>1. UNCHANGED <<folders, nextFileId, tables, deleteOnClose, wanted, disturbed>>
  BY DEF QueryNext
<1>2. dirMap[h] \in SUBSET Names
  BY DEF QueryNext, DriveInv, TablesOK
<1>3. CASE h \in DOMAIN listing /\ ~listing[h].over /\ Lists(h, listing[h], dirMap[h])
  <2>1. listing[h] \in Listings
    BY <1>3 DEF DriveInv, TablesOK
  <2>2. /\ \A n \in listing[h].names : Exists(<<listing[h].drive, <<n>>>>)
        /\ listing[h].names = listing[h].told \cup dirMap[h]
    BY <1>3 DEF DriveInv, ListingsAccounted, Accounted
  <2> QED BY <1>1, <1>2, <1>3, <2>1, <2>2, ListsKeeps
<1>4. ASSUME h \notin DOMAIN listing,
             NEW n \in dirMap[h], Iterates(h, dirMap[h] \ {n}, listing)
      PROVE  DriveInv'
  <2>1. listing = Without(listing, h)
    BY <1>4 DEF Without, Restrict, DriveInv, TablesOK
  <2> QED BY <1>1, <1>2, <1>4, <2>1, ReplyKeeps DEF Iterates
<1> QED BY <1>3, <1>4 DEF QueryNext

-----------------------------------------------------------------------------
(* Other programs.                                                         *)

LEMMA OthersKeep ==
    ASSUME DriveInv, NEW p \in Paths, OthersMake(p) \/ OthersRemove(p)
    PROVE  DriveInv'
<1> USE DEF DriveInv
<1>1. CASE OthersMake(p)
  <2>1. /\ ~Exists(p) /\ Makes(p, "file")
        /\ UNCHANGED <<written, kept, nextFileId, fileMap, pathMap, deviceMap, opened,
                       dirMap, deleteOnClose, wanted, disturbed, listing>>
    BY <1>1 DEF OthersMake, tables
  <2>2. FoldersOK' /\ OneName' /\ Grows
    BY <2>1, MakesKeeps
  <2>3. TablesOK'
    BY <2>1 DEF TablesOK, Handles
  <2>4. ListingsAccounted'
    BY <2>1, <2>2, GrowsAccounted
  <2>5. PathNamesHandle'
    BY <2>1, <2>2, NodesFacts, HandleFacts
       DEF PathNamesHandle, Grows, Exists, Handles
  <2> QED BY <2>2, <2>3, <2>4, <2>5
<1>2. CASE OthersRemove(p)
  <2>1. /\ tree' = [tree EXCEPT ![p] = Nothing] /\ written' = written \ {tree[p]}
        /\ listing' = Listed(tree') /\ disturbed' = disturbed \cup At(p)
        /\ UNCHANGED <<kept, nextFileId, fileMap, pathMap, deviceMap, opened, dirMap,
                       deleteOnClose, wanted>>
    BY <1>2 DEF OthersRemove, Unlinks, tables
  <2>2. FoldersOK' /\ OneName'
    BY <2>1 DEF FoldersOK, OneName, IsFile, Nothing
  <2>3. TablesOK'
    BY <2>1, ListedFacts DEF TablesOK, Handles
  <2>4. ListingsAccounted'
    BY <2>1, ListedAccounted
  <2>5. PathNamesHandle'
    BY <2>1, HandleFacts DEF PathNamesHandle, At, Handles, FoldersOK
  <2> QED BY <2>2, <2>3, <2>4, <2>5
<1> QED BY <1>1, <1>2

-----------------------------------------------------------------------------
LEMMA DriveStep == DriveInv /\ [DriveNext]_driveVars => DriveInv'
<1> SUFFICES ASSUME DriveInv, [DriveNext]_driveVars PROVE DriveInv'
  OBVIOUS
<1>1. CASE DriveNext
  <2>1. ASSUME NEW device \in Devices, NEW r \in Requested,
               NEW disposition \in Dispositions, NEW kind \in OpenKinds,
               CreateDrive(device, r, disposition, kind)
        PROVE  DriveInv'
    BY <2>1, CreateKeeps
  <2>2. ASSUME NEW h \in Handles,
               \/ WriteDevice(h) \/ SetEndOfFile(h)
               \/ \E delete \in BOOLEAN : SetDisposition(h, delete)
        PROVE  DriveInv'
    BY <2>2, WriteKeeps
  <2>3. ASSUME NEW h \in Handles, NEW device \in Devices, NEW r \in Requested,
               Rename(h, device, r) \/ QueryFirst(h, device, r)
        PROVE  DriveInv'
    BY <2>3, RenameKeeps, QueryFirstKeeps
  <2>4. ASSUME NEW h \in Handles, QueryNext(h) PROVE DriveInv'
    BY <2>4, QueryNextKeeps
  <2>5. ASSUME NEW h \in Handles, CloseDevice(h) PROVE DriveInv'
    BY <2>5, CloseKeeps
  <2>6. ASSUME NEW p \in Paths, OthersMake(p) \/ OthersRemove(p)
        PROVE  DriveInv'
    BY <2>6, OthersKeep
  <2> QED BY <1>1, <2>1, <2>2, <2>3, <2>4, <2>5, <2>6 DEF DriveNext
<1>2. CASE UNCHANGED driveVars
  <2>1. UNCHANGED <<tree, written, kept, nextFileId, fileMap, pathMap, deviceMap, opened,
                    dirMap, deleteOnClose, wanted, disturbed, listing>>
    BY <1>2 DEF driveVars, tables
  <2>2. TablesOK'
    BY <2>1 DEF DriveInv, TablesOK, Handles
  <2> QED BY <2>1, <2>2 DEF DriveInv, FoldersOK, OneName, IsFile, PathNamesHandle,
             ListingsAccounted, Accounted, Exists, Handles
<1> QED BY <1>1, <1>2

(* The invariant the results on the drives rest on: the tables of the      *)
(* backend agree on which handles are open, what is marked for deletion is *)
(* what the remote asked for, no file has two names, the path of an        *)
(* undisturbed handle names its file, and every listing that was not cut   *)
(* short has told or still holds each name it began with.                  *)
THEOREM DriveInvHolds == DriveSpec => []DriveInv
<1> QED BY InitDriveInv, DriveStep, PTL DEF DriveSpec

(* The type invariant: file_map, device_map, dir_map and the path map of   *)
(* the backend (drive/backend.rs) only ever hold handles it has given out, *)
(* below next_file_id, whatever the remote asks and however the folder     *)
(* changes underneath.                                                     *)
THEOREM DriveTypeCorrect == DriveSpec => []DriveTypeOK
<1>1. DriveInv => DriveTypeOK
  <2> SUFFICES ASSUME DriveInv PROVE DriveTypeOK
    OBVIOUS
  <2>1. \A h \in Handles : h < nextFileId /\ pathMap[h] \in Paths
    BY DEF DriveInv, TablesOK
  <2>2. DOMAIN dirMap \cup deleteOnClose \subseteq Handles
    BY DEF DriveInv, TablesOK
  <2> QED BY <2>1, <2>2 DEF DriveInv, FoldersOK, TablesOK, DriveTypeOK, Nodes
<1> QED BY <1>1, DriveInvHolds, PTL

(* The path a handle is reached by names the file it was opened on,        *)
(* through every rename made with it, as long as nobody else moves what is *)
(* there: for any number of drives, names and open files.                  *)
THEOREM PathsNameHandles == DriveSpec => []PathNamesHandle
<1> QED BY DriveInvHolds, PTL DEF DriveInv

(* A listing that the remote is told is over has told every name its       *)
(* folder had when it began, however many QueryDirectory requests it took, *)
(* unless one of them was taken away meanwhile, reading the folder or an   *)
(* entry failed, or an entry was asked for in an unsupported class.        *)
THEOREM ListingsAreWhole == DriveSpec => []ListingWhole
<1>1. DriveInv => ListingWhole
  BY DEF DriveInv, ListingsAccounted, Accounted, ListingWhole
<1> QED BY <1>1, DriveInvHolds, PTL

(* What a close deletes.                                                   *)
LEMMA ClosesAsAsked ==
    ASSUME DriveInv, [DriveNext]_driveVars, NEW h \in Handles \ DOMAIN pathMap',
           h \notin disturbed
    PROVE  /\ h \in wanted /\ opened[h][1] = "file" =>
                  kept' \/ \A p \in Paths : tree'[p] # opened[h]
           /\ \A n \in written \ written' : h \in wanted /\ n = opened[h]
<1> USE DEF DriveInv
<1>1. h \in Handles /\ h \notin Handles'
  BY DEF Handles
<1>2. CloseDevice(h)
  <2>1. ASSUME NEW device \in Devices, NEW r \in Requested,
               NEW disposition \in Dispositions, NEW kind \in OpenKinds,
               CreateDrive(device, r, disposition, kind)
        PROVE  Handles \subseteq Handles'
    <3>1. \A p, access : Inserts(device, p, access) => Handles \subseteq Handles'
      BY DEF Inserts, With, Handles
    <3>2. \/ \E p, access : Inserts(device, p, access)
          \/ UNCHANGED pathMap
      BY <2>1 DEF CreateDrive, OpensFolder, MakesFolder, OpensFile, MakesFile,
             tables
    <3> QED BY <3>1, <3>2 DEF Handles
  <2>2. ASSUME NEW g \in Handles,
               \/ WriteDevice(g) \/ SetEndOfFile(g)
               \/ \E delete \in BOOLEAN : SetDisposition(g, delete)
               \/ \E device \in Devices, r \in Requested :
                     Rename(g, device, r) \/ QueryFirst(g, device, r)
               \/ QueryNext(g)
        PROVE  Handles' = Handles
    BY <2>2 DEF WriteDevice, SetEndOfFile, SetDisposition, Rename, QueryFirst,
           QueryNext, tables, Handles
  <2>3. ASSUME NEW p \in Paths, OthersMake(p) \/ OthersRemove(p)
        PROVE  Handles' = Handles
    BY <2>3 DEF OthersMake, OthersRemove, tables, Handles
  <2>4. ASSUME NEW g \in Handles, CloseDevice(g), g # h
        PROVE  FALSE
    BY <1>1, <2>4, CloseFacts
  <2>5. ~UNCHANGED driveVars
    BY <1>1 DEF driveVars, tables, Handles
  <2> QED BY <1>1, <2>1, <2>2, <2>3, <2>4, <2>5 DEF DriveNext
<1>3. pathMap[h] \in Paths /\ tree[pathMap[h]] = opened[h]
  BY <1>1, HandleFacts DEF PathNamesHandle
<1>4. Removes(h) \/ Spared(h)
  BY <1>1, <1>2, CloseFacts
<1>5. ASSUME h \in wanted, opened[h][1] = "file", ~kept', NEW p \in Paths
      PROVE  tree'[p] # opened[h]
  <2>1. tree' = [tree EXCEPT ![pathMap[h]] = Nothing]
    BY <1>4, <1>5 DEF Removes, Spared, TablesOK
  <2> QED BY <1>3, <1>5, <2>1 DEF FoldersOK, OneName, IsFile, Nothing
<1>6. \A n \in written \ written' : h \in wanted /\ n = opened[h]
  BY <1>3, <1>4 DEF Removes, Spared, TablesOK
<1> QED BY <1>5, <1>6

(* A close removes exactly the file the remote's latest disposition for    *)
(* this handle asked to delete - or tries to, in vain, and says nothing of *)
(* it - and no close removes other data of the remote's, for any drives,   *)
(* names and open files.                                                   *)
THEOREM ClosesDeleteAsAsked == DriveSpec => DeletesAsAsked
<1> DEFINE AsAsked ==
      \A h \in Handles \ DOMAIN pathMap' :
          h \notin disturbed =>
              /\ h \in wanted /\ opened[h][1] = "file" =>
                     kept' \/ \A p \in Paths : tree'[p] # opened[h]
              /\ \A n \in written \ written' : h \in wanted /\ n = opened[h]
<1>1. DriveInv /\ [DriveNext]_driveVars => [AsAsked]_driveVars
  BY ClosesAsAsked
<1> QED BY <1>1, DriveInvHolds, PTL DEF DriveSpec, DeletesAsAsked

-----------------------------------------------------------------------------
(* InputDelivery: the inductive invariant.                                 *)

(* The part a caller is in, how many of its batches were answered, and the *)
(* batches that are then at the socket.                                    *)
Part(c) == Len(Parts(c)) - Len(ahead[c])
Sent(c) == (IF Combination(c) /\ rising[c] THEN Len(Parts(c)[Part(c)])
            ELSE Size(c, Part(c))) - Len(todo[c])
SentTo(c, n, q) == Through(c, n - 1) \cup ({n} \X (1..q))
SentThrough(c) == SentTo(c, Part(c), Sent(c))

Works(c) == stage[c] \in {"sends", "asks"}

InputRanges ==
    /\ inputPlan \in InputPlans
    /\ inputHolder \in Callers \cup {NoCaller}
    /\ stage \in [Callers -> {"waits", "sends", "asks", "done"}]
    /\ ahead \in [Callers -> Seq(Seq(KeyNames) \cup Seq(Batch))]
    /\ todo \in [Callers -> Seq(Batch)]
    /\ rising \in [Callers -> BOOLEAN] /\ failed \in [Callers -> BOOLEAN]
    /\ down \in [Callers -> Seq(KeyNames)]
    /\ completed \in [Callers -> Nat] /\ landed \in [Callers -> Nat]
    /\ queue \in Seq([by : Callers, batch : Batch, asks : BOOLEAN])
    /\ Len(queue) <= QueueMax /\ stalls \in 0..MaxStalls
    /\ processor \in {"runs", "ended"}
    /\ pressed \in [Callers -> SUBSET KeyNames]

(* One caller works at a time, and it has the lock.                        *)
HolderWorks == \A c \in Callers : Works(c) <=> inputHolder = c

(* A command that asks is the last of the queue, and its caller waits for  *)
(* its answer; a caller without an error has no other command there.       *)
QueueOK ==
    /\ \A i \in DOMAIN queue :
          /\ queue[i].asks => /\ i = Len(queue) /\ stage[queue[i].by] = "asks"
                              /\ queue[i].batch = Head(todo[queue[i].by])
          /\ ~queue[i].asks => failed[queue[i].by]
    /\ \A c \in Callers : stage[c] = "asks" =>
          /\ queue # <<>> /\ queue[Len(queue)].by = c /\ queue[Len(queue)].asks
          /\ todo[c] # <<>>

(* What is left of an operation are its last parts.                        *)
AheadOK(c) ==
    /\ Len(ahead[c]) <= Len(Parts(c))
    /\ \A i \in 1..Len(ahead[c]) : ahead[c][i] = Parts(c)[Part(c) + i]
    /\ stage[c] = "waits" => ahead[c] # <<>> /\ ~failed[c]
    /\ stage[c] = "done" /\ ~failed[c] => ahead[c] = <<>>
    /\ Works(c) => Part(c) >= 1
    /\ Works(c) /\ ~failed[c] => 0 <= Sent(c)

(* Without an error, everything answered is at the socket.                 *)
LandedOK(c) ==
    ~failed[c] =>
        /\ Works(c) => landed[c] = Cardinality(SentThrough(c))
        /\ Works(c) => IsFiniteSet(SentThrough(c))
        /\ ~Works(c) => landed[c] = Batches(c, Part(c))
        /\ ~Works(c) => IsFiniteSet(Through(c, Part(c)))

(* After an error a caller only releases keys.                             *)
TurnsOnError(c) == failed[c] /\ Works(c) => Combination(c) /\ ~rising[c]

(* The keys of a combination that are down: those that were pressed, then  *)
(* those whose release is still to come.                                   *)
KeysOK(c) ==
    Combination(c) /\ ~failed[c] =>
        /\ Works(c) /\ rising[c] =>
              /\ Len(down[c]) = Sent(c)
              /\ pressed[c] \subseteq {down[c][i] : i \in DOMAIN down[c]}
              /\ \A i \in DOMAIN todo[c] : \E k \in KeyNames : todo[c][i] = Press(k)
        /\ Works(c) /\ ~rising[c] =>
              /\ \A i \in DOMAIN todo[c] : \E k \in KeyNames : todo[c][i] = Release(k)
              /\ \A k \in pressed[c] : \E i \in DOMAIN todo[c] : todo[c][i] = Release(k)
        /\ ~Works(c) => pressed[c] = {}
        /\ completed[c] = IF Works(c) THEN Part(c) - 1 ELSE Part(c)
        /\ stage[c] = "waits" => Part(c) = 0

CompletedOK(c) ==
    Combination(c) => /\ Batches(c, completed[c]) \in Nat
                      /\ landed[c] >= Batches(c, completed[c])

(* While keys of a combination are down, the queue has nobody else's       *)
(* commands.                                                               *)
NoneBetween ==
    \A c \in Callers, i \in DOMAIN queue :
        Combination(c) /\ ~failed[c] /\ pressed[c] # {} => queue[i].by = c

CallerOK(c) ==
    AheadOK(c) /\ LandedOK(c) /\ TurnsOnError(c) /\ KeysOK(c) /\ CompletedOK(c)

InputInv ==
    /\ InputRanges /\ HolderWorks /\ QueueOK /\ NoneBetween
    /\ \A c \in Callers : CallerOK(c)

-----------------------------------------------------------------------------
(* Facts about the operations and their batches.                           *)

LEMMA PlanFacts ==
  ASSUME inputPlan \in InputPlans, NEW c \in Callers
  PROVE  /\ Combination(c) => Parts(c) \in Seq(Seq(KeyNames))
         /\ ~Combination(c) => Parts(c) \in Seq(Seq(Batch))
         /\ Parts(c) \in Seq(Seq(KeyNames) \cup Seq(Batch))
         /\ Len(Parts(c)) \in Nat \ {0}
         /\ \A n \in 1..Len(Parts(c)) : Len(Parts(c)[n]) \in Nat /\ Size(c, n) \in Nat
<1> DEFINE p == inputPlan[c]
<1>1. /\ p \in [combos : Seq(Seq(KeyNames)), holds : Seq(Seq(Batch))]
      /\ (p.combos = <<>>) # (p.holds = <<>>)
  BY InputAssumption
<1>2. /\ Combination(c) = (p.holds = <<>>)
      /\ Parts(c) = IF p.holds = <<>> THEN p.combos ELSE p.holds
  BY DEF Combination, Parts
<1> HIDE DEF p
<1>3. /\ p.combos \in Seq(Seq(KeyNames)) /\ p.holds \in Seq(Seq(Batch))
  BY <1>1
<1>4. Parts(c) # <<>>
  BY <1>1, <1>2
<1>5. /\ Combination(c) => Parts(c) \in Seq(Seq(KeyNames))
      /\ ~Combination(c) => Parts(c) \in Seq(Seq(Batch))
  BY <1>2, <1>3
<1>6. Parts(c) \in Seq(Seq(KeyNames) \cup Seq(Batch))
  <2>1. Seq(KeyNames) \subseteq Seq(KeyNames) \cup Seq(Batch)
    OBVIOUS
  <2>2. Seq(Batch) \subseteq Seq(KeyNames) \cup Seq(Batch)
    OBVIOUS
  <2> HIDE DEF Batch
  <2> QED BY <1>5, <2>1, <2>2
<1>7. Len(Parts(c)) \in Nat \ {0}
  BY <1>4, <1>6, EmptySeq, LenProperties
<1>8. \A n \in 1..Len(Parts(c)) : Len(Parts(c)[n]) \in Nat
  BY <1>5, <1>7
<1> QED BY <1>5, <1>6, <1>7, <1>8 DEF Size

LEMMA ThroughMembers ==
  ASSUME NEW c, NEW n
  PROVE  \A x : x \in Through(c, n) <=>
             \E i \in 1..n : \E j \in 1..Size(c, i) : x = <<i, j>>
BY DEF Through

(* One part more, and one batch more.                                      *)
LEMMA NextPart ==
  ASSUME NEW c, NEW n \in Nat
  PROVE  Through(c, n + 1) = Through(c, n) \cup ({n + 1} \X (1..Size(c, n + 1)))
<1>1. 1..(n + 1) = (1..n) \cup {n + 1}
  OBVIOUS
<1> QED BY <1>1, ThroughMembers

LEMMA NextBatch ==
  ASSUME NEW c, NEW n \in Nat \ {0}, NEW q \in Nat, IsFiniteSet(SentTo(c, n, q))
  PROVE  /\ IsFiniteSet(SentTo(c, n, q + 1))
         /\ Cardinality(SentTo(c, n, q + 1)) = Cardinality(SentTo(c, n, q)) + 1
<1> DEFINE x == <<n, q + 1>>
<1>1. 1..(q + 1) = (1..q) \cup {q + 1}
  OBVIOUS
<1>2. SentTo(c, n, q + 1) = SentTo(c, n, q) \cup {x}
  BY <1>1 DEF SentTo
<1>3. x \notin SentTo(c, n, q)
  <2>1. x \notin Through(c, n - 1)
    BY ThroughMembers
  <2> QED BY <2>1 DEF SentTo
<1> HIDE DEF x
<1> QED BY <1>2, <1>3, FS_AddElement

LEMMA NothingSent ==
  ASSUME NEW c
  PROVE  Through(c, 0) = {} /\ IsFiniteSet({}) /\ Cardinality({}) = 0
<1>1. Through(c, 0) = {}
  BY ThroughMembers
<1> QED BY <1>1, FS_EmptySet

(* A batch that presses a key adds it, one that releases it takes it away. *)
LEMMA PressAdds ==
  ASSUME NEW keys, NEW k
  PROVE  After(keys, Press(k)) \subseteq keys \cup {k}
BY DEF After, Press

LEMMA ReleaseTakes ==
  ASSUME NEW keys, NEW k
  PROVE  After(keys, Release(k)) \subseteq keys \ {k}
<1>1. /\ DOMAIN Release(k) = {1} /\ Release(k)[1] = <<"up", k>>
      /\ Release(k)[1] # <<"down", k>> /\ Release(k)[1][2] = k
  BY DEF Release
<1>2. ASSUME NEW h \in After(keys, Release(k))
      PROVE  h \in keys \cup {k} /\ h # k
  BY <1>1, <1>2 DEF After
<1> QED BY <1>2

LEMMA AfterKeys ==
  ASSUME NEW keys \in SUBSET KeyNames, NEW batch \in Batch
  PROVE  After(keys, batch) \subseteq KeyNames
BY DEF After, Batch

-----------------------------------------------------------------------------
(* What the steps do to one caller.                                        *)

Same(c) ==
    /\ inputPlan' = inputPlan /\ stage'[c] = stage[c] /\ ahead'[c] = ahead[c]
    /\ todo'[c] = todo[c] /\ rising'[c] = rising[c] /\ down'[c] = down[c]
    /\ failed'[c] = failed[c] /\ completed'[c] = completed[c]
    /\ pressed'[c] = pressed[c] /\ landed'[c] = landed[c]

LEMMA PartsStay ==
  ASSUME inputPlan' = inputPlan, NEW c
  PROVE  /\ Parts(c)' = Parts(c) /\ Combination(c)' = Combination(c)
         /\ \A n : Size(c, n)' = Size(c, n)
         /\ \A n : Through(c, n)' = Through(c, n)
         /\ \A n : Batches(c, n)' = Batches(c, n)
<1>1. Combination(c)' = Combination(c)
  BY DEF Combination
<1>2. Parts(c)' = Parts(c)
  BY <1>1 DEF Parts
<1>3. \A n : Size(c, n)' = Size(c, n)
  BY <1>1, <1>2 DEF Size
<1>4. \A n : Through(c, n)' = Through(c, n)
  BY <1>3 DEF Through
<1> QED BY <1>1, <1>2, <1>3, <1>4 DEF Batches

LEMMA SameStays ==
  ASSUME NEW c \in Callers, CallerOK(c), Same(c)
  PROVE  CallerOK(c)'
<1>0. inputPlan' = inputPlan
  BY DEF Same
<1>1. Part(c)' = Part(c) /\ Sent(c)' = Sent(c) /\ Works(c)' = Works(c)
  BY <1>0, PartsStay DEF Same, Part, Sent, Works
<1>2. SentThrough(c)' = SentThrough(c)
  BY <1>0, <1>1, PartsStay DEF SentThrough, SentTo
<1>3. AheadOK(c)'
  BY <1>0, <1>1, PartsStay DEF Same, CallerOK, AheadOK
<1>4. LandedOK(c)'
  BY <1>0, <1>1, <1>2, PartsStay DEF Same, CallerOK, LandedOK
<1>5. KeysOK(c)'
  BY <1>0, <1>1, PartsStay DEF Same, CallerOK, KeysOK
<1>6. CompletedOK(c)'
  BY <1>0, PartsStay DEF Same, CallerOK, CompletedOK
<1>7. TurnsOnError(c)'
  BY <1>0, <1>1, PartsStay DEF Same, CallerOK, TurnsOnError
<1> QED BY <1>3, <1>4, <1>5, <1>6, <1>7 DEF CallerOK

LEMMA InvFacts ==
  ASSUME InputInv, NEW c \in Callers
  PROVE  /\ InputRanges /\ HolderWorks /\ QueueOK /\ NoneBetween /\ CallerOK(c)
         /\ ahead[c] \in Seq(Seq(KeyNames) \cup Seq(Batch)) /\ Len(ahead[c]) \in Nat
         /\ todo[c] \in Seq(Batch) /\ Len(todo[c]) \in Nat
         /\ down[c] \in Seq(KeyNames) /\ Len(down[c]) \in Nat
         /\ landed[c] \in Nat /\ completed[c] \in Nat
         /\ Part(c) \in Nat /\ Part(c) <= Len(Parts(c))
         /\ Works(c) => /\ Part(c) \in 1..Len(Parts(c)) /\ Sent(c) \in Int
                        /\ Size(c, Part(c)) \in Nat /\ Len(Parts(c)[Part(c)]) \in Nat
<1>1. /\ InputRanges /\ HolderWorks /\ QueueOK /\ NoneBetween /\ CallerOK(c)
  BY DEF InputInv
<1>2. /\ ahead[c] \in Seq(Seq(KeyNames) \cup Seq(Batch)) /\ todo[c] \in Seq(Batch)
      /\ down[c] \in Seq(KeyNames)
      /\ landed[c] \in Nat /\ completed[c] \in Nat /\ inputPlan \in InputPlans
  BY <1>1 DEF InputRanges
<1>3. /\ Len(ahead[c]) \in Nat /\ Len(todo[c]) \in Nat /\ Len(down[c]) \in Nat
  <2> HIDE DEF Batch
  <2> QED BY <1>2, LenProperties
<1>4. /\ Part(c) \in Nat /\ Part(c) <= Len(Parts(c))
  BY <1>1, <1>2, <1>3, PlanFacts DEF Part, CallerOK, AheadOK
<1>5. Works(c) => Part(c) \in 1..Len(Parts(c))
  BY <1>1, <1>2, <1>4, PlanFacts DEF CallerOK, AheadOK
<1>6. Works(c) => /\ Size(c, Part(c)) \in Nat /\ Len(Parts(c)[Part(c)]) \in Nat
  BY <1>2, <1>5, PlanFacts
<1>7. Works(c) => Sent(c) \in Int
  BY <1>3, <1>6 DEF Sent
<1> QED BY <1>1, <1>2, <1>3, <1>4, <1>5, <1>6, <1>7

LEMMA NextFacts ==
  ASSUME InputInv, NEW c \in Callers, ahead[c] # <<>>
  PROVE  /\ Len(ahead[c]) \in Nat \ {0} /\ Tail(ahead[c]) \in Seq(Seq(KeyNames) \cup Seq(Batch))
         /\ Len(Tail(ahead[c])) = Len(ahead[c]) - 1
         /\ \A i \in 1..Len(Tail(ahead[c])) : Tail(ahead[c])[i] = ahead[c][i + 1]
         /\ Part(c) + 1 \in 1..Len(Parts(c))
         /\ Head(ahead[c]) = Parts(c)[Part(c) + 1]
         /\ Combination(c) => Head(ahead[c]) \in Seq(KeyNames)
         /\ ~Combination(c) => Head(ahead[c]) \in Seq(Batch)
<1>0. ahead[c] \in Seq(Seq(KeyNames) \cup Seq(Batch)) /\ inputPlan \in InputPlans
  BY InvFacts DEF InputRanges
<1>1. /\ Len(ahead[c]) \in Nat \ {0} /\ Tail(ahead[c]) \in Seq(Seq(KeyNames) \cup Seq(Batch))
      /\ Len(Tail(ahead[c])) = Len(ahead[c]) - 1
      /\ \A i \in 1..Len(Tail(ahead[c])) : Tail(ahead[c])[i] = ahead[c][i + 1]
      /\ Head(ahead[c]) = ahead[c][1]
  <2> HIDE DEF Batch
  <2> QED BY <1>0, HeadTailProperties, EmptySeq, LenProperties
<1>2. /\ Part(c) + 1 \in 1..Len(Parts(c)) /\ ahead[c][1] = Parts(c)[Part(c) + 1]
  <2>1. Len(Parts(c)) \in Nat
    BY <1>0, PlanFacts
  <2>2. Part(c) \in Nat /\ Part(c) = Len(Parts(c)) - Len(ahead[c])
    BY InvFacts DEF Part
  <2>3. \A i \in 1..Len(ahead[c]) : ahead[c][i] = Parts(c)[Part(c) + i]
    BY InvFacts DEF CallerOK, AheadOK
  <2>4. Len(ahead[c]) \in Nat \ {0}
    BY <1>1
  <2>5. ahead[c][1] = Parts(c)[Part(c) + 1]
    BY <2>3, <2>4
  <2> QED BY <2>1, <2>2, <2>4, <2>5
<1>3. /\ Combination(c) => Parts(c)[Part(c) + 1] \in Seq(KeyNames)
      /\ ~Combination(c) => Parts(c)[Part(c) + 1] \in Seq(Batch)
  <2> HIDE DEF Batch
  <2> QED BY <1>0, <1>2, PlanFacts
<1> QED BY <1>1, <1>2, <1>3

LEMMA ReleasesFacts ==
  ASSUME NEW keys \in Seq(KeyNames)
  PROVE  /\ Releases(keys) \in Seq(Batch) /\ Len(Releases(keys)) = Len(keys)
         /\ \A i \in DOMAIN Releases(keys) :
               \E k \in KeyNames : Releases(keys)[i] = Release(k)
         /\ \A i \in DOMAIN keys :
               \E j \in DOMAIN Releases(keys) : Releases(keys)[j] = Release(keys[i])
<1> DEFINE n == Len(keys)
<1>1. n \in Nat /\ \A i \in 1..n : keys[i] \in KeyNames
  OBVIOUS
<1>2. \A i \in 1..n : n + 1 - i \in 1..n /\ n + 1 - (n + 1 - i) = i
  BY <1>1
<1>3. \A k \in KeyNames : Release(k) \in Batch
  BY DEF Release, Batch
<1>4. DOMAIN Releases(keys) = 1..n /\ \A i \in 1..n : Releases(keys)[i] = Release(keys[n + 1 - i])
  BY DEF Releases
<1>5. \A i \in 1..n : keys[n + 1 - i] \in KeyNames
  BY <1>1, <1>2
<1>6. Releases(keys) \in Seq(Batch) /\ Len(Releases(keys)) = n
  <2>1. \A i \in 1..n : Release(keys[n + 1 - i]) \in Batch
    BY <1>3, <1>5
  <2> HIDE DEF Batch, Release
  <2>2. Releases(keys) = [i \in 1..n |-> Release(keys[n + 1 - i])]
    BY DEF Releases
  <2> QED BY <1>1, <2>1, <2>2
<1>7. \A i \in 1..n : \E j \in 1..n : Releases(keys)[j] = Release(keys[i])
  BY <1>2, <1>4
<1>8. DOMAIN keys = 1..n
  OBVIOUS
<1> HIDE DEF n
<1> QED BY <1>4, <1>5, <1>6, <1>7, <1>8 DEF n

(* What loading a part does.                                               *)
LEMMA LoadsFacts ==
  ASSUME InputInv, NEW c \in Callers, ahead[c] # <<>>, Loads(c), inputPlan' = inputPlan
  PROVE  /\ ahead'[c] = Tail(ahead[c]) /\ Part(c)' = Part(c) + 1
         /\ rising'[c] /\ down'[c] = <<>> /\ Sent(c)' = 0
         /\ Combination(c) => \A i \in DOMAIN todo'[c] :
                                 \E k \in KeyNames : todo'[c][i] = Press(k)
         /\ ahead' \in [Callers -> Seq(Seq(KeyNames) \cup Seq(Batch))]
         /\ todo' \in [Callers -> Seq(Batch)]
         /\ rising' \in [Callers -> BOOLEAN] /\ down' \in [Callers -> Seq(KeyNames)]
         /\ \A d \in Callers \ {c} :
               /\ ahead'[d] = ahead[d] /\ todo'[d] = todo[d]
               /\ rising'[d] = rising[d] /\ down'[d] = down[d]
<1> DEFINE h == Head(ahead[c])
           t == IF Combination(c) THEN [i \in 1..Len(h) |-> Press(h[i])] ELSE h
<1>1. /\ ahead' = [ahead EXCEPT ![c] = Tail(ahead[c])]
      /\ todo' = [todo EXCEPT ![c] = t]
      /\ rising' = [rising EXCEPT ![c] = TRUE]
      /\ down' = [down EXCEPT ![c] = <<>>]
  BY DEF Loads
<1>2. h = Parts(c)[Part(c) + 1] /\ Part(c) + 1 \in 1..Len(Parts(c))
  BY NextFacts
<1>3. /\ ahead \in [Callers -> Seq(Seq(KeyNames) \cup Seq(Batch))]
      /\ todo \in [Callers -> Seq(Batch)] /\ rising \in [Callers -> BOOLEAN]
      /\ down \in [Callers -> Seq(KeyNames)] /\ inputPlan \in InputPlans
  BY DEF InputInv, InputRanges
<1>4. /\ t \in Seq(Batch) /\ Len(t) = Len(h)
      /\ Combination(c) => \A i \in DOMAIN t : \E k \in KeyNames : t[i] = Press(k)
  <2>1. CASE Combination(c)
    <3>1. h \in Seq(KeyNames)
      BY <2>1, NextFacts
    <3>2. \A k \in KeyNames : Press(k) \in Batch
      BY DEF Press, Batch
    <3>3. Len(h) \in Nat /\ \A i \in 1..Len(h) : h[i] \in KeyNames
      BY <3>1
    <3>4. t = [i \in 1..Len(h) |-> Press(h[i])]
      BY <2>1
    <3> HIDE DEF h, t, Batch, Press
    <3> QED BY <3>2, <3>3, <3>4
  <2>2. CASE ~Combination(c)
    BY <2>2, NextFacts
  <2> QED BY <2>1, <2>2
<1>5. Tail(ahead[c]) \in Seq(Seq(KeyNames) \cup Seq(Batch))
  BY NextFacts
<1> HIDE DEF h, t, Batch
<1>6. /\ ahead'[c] = Tail(ahead[c]) /\ todo'[c] = t /\ rising'[c] /\ down'[c] = <<>>
      /\ \A d \in Callers \ {c} :
               /\ ahead'[d] = ahead[d] /\ todo'[d] = todo[d]
               /\ rising'[d] = rising[d] /\ down'[d] = down[d]
  BY <1>1, <1>3
<1>7. Part(c)' = Part(c) + 1
  <2>1. Parts(c)' = Parts(c)
    BY PartsStay
  <2>2. Len(ahead'[c]) = Len(ahead[c]) - 1 /\ Len(ahead[c]) \in Nat
    BY <1>6, NextFacts
  <2>3. Len(Parts(c)) \in Nat
    BY <1>3, PlanFacts
  <2> QED BY <2>1, <2>2, <2>3 DEF Part
<1>8. Sent(c)' = 0
  <2>1. /\ Parts(c)' = Parts(c) /\ Combination(c)' = Combination(c)
        /\ \A n : Size(c, n)' = Size(c, n)
    BY PartsStay
  <2>2. Len(h) \in Nat
    BY <1>2, <1>3, PlanFacts
  <2>3. Sent(c)' = (IF Combination(c)' /\ rising'[c] THEN Len(Parts(c)'[Part(c)'])
                    ELSE Size(c, Part(c))') - Len(todo'[c])
    BY DEF Sent
  <2>4. Size(c, Part(c))' = Size(c, Part(c)')
    BY <2>1 DEF Size
  <2>5. ~Combination(c) => Size(c, Part(c) + 1) = Len(h)
    BY <1>2 DEF Size
  <2> QED BY <1>2, <1>4, <1>6, <1>7, <2>1, <2>2, <2>3, <2>4, <2>5
<1>9. /\ ahead' \in [Callers -> Seq(Seq(KeyNames) \cup Seq(Batch))]
      /\ todo' \in [Callers -> Seq(Batch)]
      /\ rising' \in [Callers -> BOOLEAN] /\ down' \in [Callers -> Seq(KeyNames)]
  <2>1. <<>> \in Seq(KeyNames)
    OBVIOUS
  <2> QED BY <1>1, <1>3, <1>4, <1>5, <2>1
<1> QED BY <1>4, <1>6, <1>7, <1>8, <1>9

(* A caller at its next part: it works, and nothing of it is sent.         *)
LEMMA LoadedOK ==
  ASSUME InputInv, NEW c \in Callers, ahead[c] # <<>>, Loads(c), inputPlan' = inputPlan,
         stage'[c] = "sends", ~failed[c],
         failed'[c] = failed[c], pressed'[c] = pressed[c], landed'[c] = landed[c],
         IsFiniteSet(Through(c, Part(c))), landed[c] = Batches(c, Part(c)),
         Combination(c) => pressed[c] = {} /\ completed'[c] = Part(c)
  PROVE  CallerOK(c)'
<1>1. Works(c)'
  BY DEF Works
<1>2. /\ Parts(c)' = Parts(c) /\ Combination(c)' = Combination(c)
      /\ \A n : Size(c, n)' = Size(c, n)
      /\ \A n : Through(c, n)' = Through(c, n)
      /\ \A n : Batches(c, n)' = Batches(c, n)
  BY PartsStay
<1>3. Part(c) \in Nat /\ Part(c)' = Part(c) + 1 /\ Part(c)' \in 1..Len(Parts(c)) /\ Sent(c)' = 0
  BY LoadsFacts, NextFacts, InvFacts
<1>4. AheadOK(c)'
  <2>1. /\ Len(ahead[c]) \in Nat \ {0} /\ ahead'[c] = Tail(ahead[c])
        /\ Len(ahead'[c]) = Len(ahead[c]) - 1
        /\ \A i \in 1..Len(ahead'[c]) : ahead'[c][i] = ahead[c][i + 1]
    <3>1. ahead'[c] = Tail(ahead[c])
      BY LoadsFacts
    <3>2. /\ Len(ahead[c]) \in Nat \ {0} /\ Len(Tail(ahead[c])) = Len(ahead[c]) - 1
          /\ \A i \in 1..Len(Tail(ahead[c])) : Tail(ahead[c])[i] = ahead[c][i + 1]
      BY NextFacts
    <3> QED BY <3>1, <3>2, Zenon
  <2>2. /\ Len(ahead[c]) <= Len(Parts(c))
        /\ \A i \in 1..Len(ahead[c]) : ahead[c][i] = Parts(c)[Part(c) + i]
    BY InvFacts DEF CallerOK, AheadOK
  <2>3. Len(Parts(c)) \in Nat
    BY InvFacts, PlanFacts DEF InputRanges
  <2>4. \A i \in 1..Len(ahead'[c]) : ahead'[c][i] = Parts(c)[Part(c)' + i]
    <3> TAKE i \in 1..Len(ahead'[c])
    <3>1. i \in 1..(Len(ahead[c]) - 1)
      BY <2>1, Zenon
    <3>2. i + 1 \in 1..Len(ahead[c])
      <4>1. \A n \in Nat \ {0} : \A j \in 1..(n - 1) : j + 1 \in 1..n
        OBVIOUS
      <4> QED BY <2>1, <3>1, <4>1, Zenon
    <3>3. Part(c) + (i + 1) = Part(c)' + i
      <4>1. \A m \in Nat : \A j \in Nat : m + (j + 1) = (m + 1) + j
        OBVIOUS
      <4>2. i \in Nat
        OBVIOUS
      <4> QED BY <1>3, <4>1, <4>2, Zenon
    <3> QED BY <2>1, <2>2, <3>2, <3>3, Zenon
  <2>5. stage'[c] # "waits" /\ stage'[c] # "done" /\ Part(c)' >= 1 /\ Sent(c)' >= 0
    BY <1>3, <2>3
  <2>6. Len(ahead'[c]) <= Len(Parts(c))
    BY <2>1, <2>2, <2>3
  <2> QED BY <1>2, <2>4, <2>5, <2>6 DEF AheadOK
<1>5. LandedOK(c)'
  <2>1. SentThrough(c)' = Through(c, Part(c)' - 1) \cup ({Part(c)'} \X (1..Sent(c)'))
    BY <1>2 DEF SentThrough, SentTo
  <2>2. 1..0 = {} /\ Part(c)' - 1 = Part(c)
    BY <1>3
  <2>3. SentThrough(c)' = Through(c, Part(c))
    BY <1>3, <2>1, <2>2
  <2> QED BY <1>1, <2>3 DEF LandedOK, Batches
<1>6. KeysOK(c)'
  <2>1. Len(<<>>) = 0 /\ DOMAIN <<>> = {}
    OBVIOUS
  <2>2. /\ rising'[c] /\ down'[c] = <<>>
        /\ Combination(c) => \A i \in DOMAIN todo'[c] :
                                 \E k \in KeyNames : todo'[c][i] = Press(k)
    BY LoadsFacts
  <2>3. Works(c)' /\ stage'[c] # "waits" /\ Part(c)' - 1 = Part(c)
    BY <1>1, <1>3
  <2> QED BY <1>2, <1>3, <2>1, <2>2, <2>3 DEF KeysOK
<1>7. CompletedOK(c)'
  <2>1. landed[c] \in Nat
    BY InvFacts
  <2> QED BY <1>2, <2>1 DEF CompletedOK
<1>8. TurnsOnError(c)'
  BY DEF TurnsOnError
<1> QED BY <1>4, <1>5, <1>6, <1>7, <1>8 DEF CallerOK

(* A failed batch turns a combination round, or ends the operation.        *)
LEMMA FailsFacts ==
  ASSUME InputInv, NEW c \in Callers, Works(c), todo[c] # <<>>, InputFails(c)
  PROVE  /\ failed'[c] /\ ~(stage'[c] = "asks")
         /\ inputHolder' \in Callers \cup {NoCaller}
         /\ stage' \in [Callers -> {"waits", "sends", "asks", "done"}]
         /\ todo' \in [Callers -> Seq(Batch)] /\ down' = down
         /\ rising' \in [Callers -> BOOLEAN] /\ failed' \in [Callers -> BOOLEAN]
         /\ Works(c)' <=> inputHolder' = c
         /\ inputHolder' \in {c, NoCaller}
         /\ stage'[c] # "waits" /\ (Works(c)' => Combination(c) /\ ~rising'[c])
         /\ \A d \in Callers \ {c} :
               /\ stage'[d] = stage[d] /\ todo'[d] = todo[d]
               /\ rising'[d] = rising[d] /\ failed'[d] = failed[d]
<1>1. /\ stage \in [Callers -> {"waits", "sends", "asks", "done"}]
      /\ todo \in [Callers -> Seq(Batch)] /\ rising \in [Callers -> BOOLEAN]
      /\ failed \in [Callers -> BOOLEAN] /\ down \in [Callers -> Seq(KeyNames)]
      /\ inputHolder = c /\ c # NoCaller
  BY InputAssumption DEF InputInv, InputRanges, HolderWorks
<1>2. Releases(down[c]) \in Seq(Batch) /\ Tail(todo[c]) \in Seq(Batch)
  <2> HIDE DEF Batch
  <2> QED BY <1>1, ReleasesFacts, HeadTailProperties
<1>3. failed' = [failed EXCEPT ![c] = TRUE] /\ down' = down
  BY DEF InputFails
<1>4. CASE Combination(c)
  <2>1. /\ todo' = [todo EXCEPT ![c] = IF rising[c] THEN Releases(down[c]) ELSE Tail(todo[c])]
        /\ rising' = [rising EXCEPT ![c] = FALSE]
        /\ stage' = [stage EXCEPT ![c] = "sends"] /\ inputHolder' = inputHolder
    BY <1>4 DEF InputFails
  <2> HIDE DEF Batch
  <2>2. /\ stage'[c] = "sends" /\ failed'[c] /\ ~rising'[c] /\ inputHolder' = c
        /\ \A d \in Callers \ {c} :
               /\ stage'[d] = stage[d] /\ todo'[d] = todo[d]
               /\ rising'[d] = rising[d] /\ failed'[d] = failed[d]
    BY <1>1, <1>3, <2>1
  <2>3. /\ stage' \in [Callers -> {"waits", "sends", "asks", "done"}]
        /\ todo' \in [Callers -> Seq(Batch)]
        /\ rising' \in [Callers -> BOOLEAN] /\ failed' \in [Callers -> BOOLEAN]
    BY <1>1, <1>2, <1>3, <2>1
  <2> QED BY <1>1, <1>3, <1>4, <2>2, <2>3 DEF Works
<1>5. CASE ~Combination(c)
  <2>1. /\ stage' = [stage EXCEPT ![c] = "done"] /\ inputHolder' = NoCaller
        /\ todo' = todo /\ rising' = rising
    BY <1>5 DEF InputFails
  <2> QED BY <1>1, <1>3, <1>5, <2>1 DEF Works
<1> QED BY <1>4, <1>5

LEMMA FailedOK ==
  ASSUME InputInv, NEW c \in Callers, Works(c), failed'[c], stage'[c] # "waits",
         Works(c)' => Combination(c) /\ ~rising'[c],
         inputPlan' = inputPlan, ahead' = ahead, completed' = completed, landed' = landed
  PROVE  CallerOK(c)'
<1>1. /\ Parts(c)' = Parts(c) /\ Combination(c)' = Combination(c)
      /\ \A n : Batches(c, n)' = Batches(c, n)
  BY PartsStay
<1>2. Part(c)' = Part(c) /\ Part(c) >= 1
  BY <1>1, InvFacts DEF Part
<1>3. AheadOK(c)'
  BY <1>1, <1>2, InvFacts DEF CallerOK, AheadOK
<1>4. LandedOK(c)' /\ KeysOK(c)'
  BY DEF LandedOK, KeysOK
<1>5. CompletedOK(c)'
  BY <1>1, InvFacts DEF CallerOK, CompletedOK
<1>6. TurnsOnError(c)'
  BY <1>1 DEF TurnsOnError
<1> QED BY <1>3, <1>4, <1>5, <1>6 DEF CallerOK

(* An answered batch is one more at the socket, and leaves the list.       *)
LEMMA AnsweredFacts ==
  ASSUME InputInv, NEW c \in Callers, Works(c), todo[c] # <<>>, Answered(c),
         inputPlan' = inputPlan, ahead' = ahead
  PROVE  /\ todo' \in [Callers -> Seq(Batch)] /\ down' \in [Callers -> Seq(KeyNames)]
         /\ stage' \in [Callers -> {"waits", "sends", "asks", "done"}]
         /\ inputHolder' = inputHolder /\ rising' = rising /\ failed' = failed
         /\ stage'[c] = "sends" /\ Works(c)'
         /\ Len(todo[c]) \in Nat \ {0} /\ Len(todo'[c]) = Len(todo[c]) - 1
         /\ \A i \in 1..Len(todo'[c]) : todo'[c][i] = todo[c][i + 1]
         /\ Head(todo[c]) = todo[c][1]
         /\ Part(c)' = Part(c) /\ Sent(c)' = Sent(c) + 1
         /\ down'[c] = IF Combination(c) /\ rising[c]
                       THEN Append(down[c], Head(todo[c])[1][2]) ELSE down[c]
         /\ \A d \in Callers \ {c} :
               /\ stage'[d] = stage[d] /\ todo'[d] = todo[d] /\ down'[d] = down[d]
<1>1. /\ stage \in [Callers -> {"waits", "sends", "asks", "done"}]
      /\ todo \in [Callers -> Seq(Batch)] /\ rising \in [Callers -> BOOLEAN]
      /\ down \in [Callers -> Seq(KeyNames)] /\ inputPlan \in InputPlans
  BY DEF InputInv, InputRanges
<1>2. /\ Len(todo[c]) \in Nat \ {0} /\ Len(Tail(todo[c])) = Len(todo[c]) - 1
      /\ Tail(todo[c]) \in Seq(Batch) /\ Head(todo[c]) = todo[c][1]
      /\ \A i \in 1..Len(Tail(todo[c])) : Tail(todo[c])[i] = todo[c][i + 1]
  <2> HIDE DEF Batch
  <2> QED BY <1>1, HeadTailProperties, EmptySeq, LenProperties
<1> DEFINE k == Head(todo[c])[1][2]
           n == IF Combination(c) /\ rising[c] THEN Append(down[c], k) ELSE down[c]
<1>3. Combination(c) /\ rising[c] => k \in KeyNames
  <2> SUFFICES ASSUME Combination(c), rising[c] PROVE k \in KeyNames
    OBVIOUS
  <2>1. ~failed[c]
    BY InvFacts DEF CallerOK, TurnsOnError
  <2>2. PICK h \in KeyNames : todo[c][1] = Press(h)
    <3>1. \A i \in DOMAIN todo[c] : \E h \in KeyNames : todo[c][i] = Press(h)
      BY <2>1, InvFacts DEF CallerOK, KeysOK
    <3>2. 1 \in DOMAIN todo[c]
      <4> HIDE DEF Batch
      <4> QED BY <1>1, <1>2
    <3> QED BY <3>1, <3>2
  <2> QED BY <1>2, <2>2 DEF Press
<1>4. /\ todo' = [todo EXCEPT ![c] = Tail(todo[c])]
      /\ down' = IF Combination(c) /\ rising[c] THEN [down EXCEPT ![c] = Append(down[c], k)]
                 ELSE down
      /\ stage' = [stage EXCEPT ![c] = "sends"]
      /\ inputHolder' = inputHolder /\ rising' = rising /\ failed' = failed
  BY DEF Answered
<1> HIDE DEF k, Batch
<1>5. n \in Seq(KeyNames)
  BY <1>1, <1>3
<1>6. down' = [down EXCEPT ![c] = n]
  BY <1>1, <1>4
<1> HIDE DEF n
<1>7. /\ todo'[c] = Tail(todo[c]) /\ down'[c] = n /\ stage'[c] = "sends"
      /\ todo' \in [Callers -> Seq(Batch)] /\ down' \in [Callers -> Seq(KeyNames)]
      /\ stage' \in [Callers -> {"waits", "sends", "asks", "done"}]
      /\ \A d \in Callers \ {c} :
               /\ stage'[d] = stage[d] /\ todo'[d] = todo[d] /\ down'[d] = down[d]
  BY <1>1, <1>2, <1>4, <1>5, <1>6
<1>8. Part(c)' = Part(c)
  BY PartsStay DEF Part
<1>9. Sent(c)' = Sent(c) + 1
  <2>1. /\ Parts(c)' = Parts(c) /\ Combination(c)' = Combination(c)
        /\ \A i : Size(c, i)' = Size(c, i)
    BY PartsStay
  <2>2. Sent(c)' = (IF Combination(c)' /\ rising'[c] THEN Len(Parts(c)'[Part(c)'])
                    ELSE Size(c, Part(c))') - Len(todo'[c])
    BY DEF Sent
  <2>3. Size(c, Part(c))' = Size(c, Part(c))
    BY <1>8, <2>1 DEF Size
  <2>4. Size(c, Part(c)) \in Nat /\ Len(Parts(c)[Part(c)]) \in Nat
    BY InvFacts
  <2>5. Len(todo'[c]) = Len(todo[c]) - 1
    BY <1>2, <1>7
  <2> QED BY <1>2, <1>4, <1>8, <2>1, <2>2, <2>3, <2>4, <2>5 DEF Sent
<1>10. Works(c)'
  BY <1>7 DEF Works
<1> QED BY <1>2, <1>4, <1>7, <1>8, <1>9, <1>10 DEF n, k

LEMMA AnsweredOK ==
  ASSUME InputInv, NEW c \in Callers, stage[c] = "asks", todo[c] # <<>>, Answered(c),
         inputPlan' = inputPlan, ahead' = ahead, completed' = completed,
         landed'[c] = landed[c] + 1, pressed'[c] = After(pressed[c], Head(todo[c]))
  PROVE  CallerOK(c)'
<1>0. Works(c)
  BY DEF Works
<1>1. /\ Parts(c)' = Parts(c) /\ Combination(c)' = Combination(c)
      /\ \A n : Size(c, n)' = Size(c, n)
      /\ \A n : Through(c, n)' = Through(c, n)
      /\ \A n : Batches(c, n)' = Batches(c, n)
  BY PartsStay
<1>2. /\ Part(c)' = Part(c) /\ Sent(c)' = Sent(c) + 1 /\ Works(c)' /\ stage'[c] = "sends"
      /\ failed' = failed /\ rising' = rising
  BY <1>0, AnsweredFacts
<1>3. /\ Part(c) \in Nat \ {0} /\ Sent(c) \in Int /\ landed[c] \in Nat
      /\ ~failed[c] => Sent(c) \in Nat
  BY <1>0, InvFacts DEF CallerOK, AheadOK
<1>4. AheadOK(c)'
  <2>1. /\ Len(ahead[c]) <= Len(Parts(c)) 
        /\ \A i \in 1..Len(ahead[c]) : ahead[c][i] = Parts(c)[Part(c) + i]
    BY InvFacts DEF CallerOK, AheadOK
  <2>2. Part(c) >= 1 /\ (~failed[c] => 0 <= Sent(c) + 1)
    BY <1>3
  <2>3. stage'[c] # "waits" /\ stage'[c] # "done"
    BY <1>2
  <2> QED BY <1>1, <1>2, <2>1, <2>2, <2>3 DEF AheadOK
<1>5. LandedOK(c)'
  <2> SUFFICES ASSUME ~failed[c]
               PROVE  /\ landed'[c] = Cardinality(SentThrough(c)')
                      /\ IsFiniteSet(SentThrough(c)')
    BY <1>2 DEF LandedOK
  <2>1. SentThrough(c)' = SentTo(c, Part(c), Sent(c) + 1)
    BY <1>1, <1>2 DEF SentThrough, SentTo
  <2>2. /\ landed[c] = Cardinality(SentTo(c, Part(c), Sent(c)))
        /\ IsFiniteSet(SentTo(c, Part(c), Sent(c)))
    BY <1>0, InvFacts DEF CallerOK, LandedOK, SentThrough
  <2> QED BY <1>3, <2>1, <2>2, NextBatch
<1>6. TurnsOnError(c)'
  BY <1>0, <1>1, <1>2, InvFacts DEF CallerOK, TurnsOnError
<1>7. KeysOK(c)'
  <2> SUFFICES ASSUME Combination(c), ~failed[c]
               PROVE  KeysOK(c)'
    BY <1>1, <1>2 DEF KeysOK
  <2>1. /\ Len(todo[c]) \in Nat \ {0} /\ Len(todo'[c]) = Len(todo[c]) - 1
        /\ \A i \in 1..Len(todo'[c]) : todo'[c][i] = todo[c][i + 1]
        /\ Head(todo[c]) = todo[c][1] /\ todo[c] \in Seq(Batch) /\ todo'[c] \in Seq(Batch)
    BY <1>0, AnsweredFacts, InvFacts
  <2>2. DOMAIN todo[c] = 1..Len(todo[c]) /\ DOMAIN todo'[c] = 1..Len(todo'[c])
    BY <2>1
  <2>3. \A i \in DOMAIN todo'[c] : i + 1 \in DOMAIN todo[c] /\ todo'[c][i] = todo[c][i + 1]
    BY <2>1, <2>2
  <2>4. completed'[c] = Part(c)' - 1
    BY <1>0, <1>2, InvFacts DEF CallerOK, KeysOK
  <2>5. CASE rising[c]
    <3>1. /\ Len(down[c]) = Sent(c)
          /\ pressed[c] \subseteq {down[c][i] : i \in DOMAIN down[c]}
          /\ \A i \in DOMAIN todo[c] : \E k \in KeyNames : todo[c][i] = Press(k)
      BY <1>0, <2>5, InvFacts DEF CallerOK, KeysOK
    <3>2. PICK k \in KeyNames : todo[c][1] = Press(k)
      BY <2>1, <2>2, <3>1
    <3>3. down'[c] = Append(down[c], k)
      <4>1. Head(todo[c])[1][2] = k
        BY <2>1, <3>2 DEF Press
      <4>2. down'[c] = Append(down[c], Head(todo[c])[1][2])
        BY <1>0, <2>5, AnsweredFacts
      <4> QED BY <4>1, <4>2
    <3>4. /\ down[c] \in Seq(KeyNames) /\ Len(down[c]) \in Nat
      BY InvFacts
    <3>5. /\ Len(down'[c]) = Len(down[c]) + 1 /\ down'[c][Len(down[c]) + 1] = k
          /\ DOMAIN down'[c] = DOMAIN down[c] \cup {Len(down[c]) + 1}
          /\ \A i \in DOMAIN down[c] : down'[c][i] = down[c][i]
      BY <3>3, <3>4
    <3>6. pressed'[c] \subseteq pressed[c] \cup {k}
      BY <2>1, <3>2, PressAdds
    <3>7. pressed'[c] \subseteq {down'[c][i] : i \in DOMAIN down'[c]}
      BY <3>1, <3>5, <3>6
    <3>8. \A i \in DOMAIN todo'[c] : \E h \in KeyNames : todo'[c][i] = Press(h)
      BY <2>3, <3>1
    <3> QED BY <1>2, <2>4, <2>5, <3>1, <3>5, <3>7, <3>8 DEF KeysOK
  <2>6. CASE ~rising[c]
    <3>1. /\ \A i \in DOMAIN todo[c] : \E k \in KeyNames : todo[c][i] = Release(k)
          /\ \A k \in pressed[c] : \E i \in DOMAIN todo[c] : todo[c][i] = Release(k)
      BY <1>0, <2>6, InvFacts DEF CallerOK, KeysOK
    <3>2. PICK k \in KeyNames : todo[c][1] = Release(k)
      BY <2>1, <2>2, <3>1
    <3>3. pressed'[c] \subseteq pressed[c] \ {k}
      BY <2>1, <3>2, ReleaseTakes
    <3>4. ASSUME NEW h \in pressed'[c]
          PROVE  \E i \in DOMAIN todo'[c] : todo'[c][i] = Release(h)
      <4>1. PICK i \in DOMAIN todo[c] : todo[c][i] = Release(h)
        BY <3>1, <3>3
      <4>2. i # 1
        BY <3>2, <3>3, <4>1 DEF Release
      <4>3. i - 1 \in DOMAIN todo'[c] /\ (i - 1) + 1 = i
        BY <2>1, <2>2, <4>2
      <4> QED BY <2>3, <4>1, <4>3
    <3>5. \A i \in DOMAIN todo'[c] : \E h \in KeyNames : todo'[c][i] = Release(h)
      BY <2>3, <3>1
    <3> QED BY <1>2, <2>4, <2>6, <3>4, <3>5 DEF KeysOK
  <2> QED BY <2>5, <2>6
<1>8. CompletedOK(c)'
  <2>1. Combination(c) => /\ Batches(c, completed[c]) \in Nat
                          /\ landed[c] >= Batches(c, completed[c])
    BY InvFacts DEF CallerOK, CompletedOK
  <2>2. Batches(c, completed[c])' = Batches(c, completed[c])
    BY <1>1
  <2> QED BY <1>1, <1>3, <2>1, <2>2 DEF CompletedOK
<1> QED BY <1>4, <1>5, <1>6, <1>7, <1>8 DEF CallerOK

-----------------------------------------------------------------------------
(* The steps preserve the invariant.                                       *)

LEMMA QueueTyped ==
  ASSUME InputInv
  PROVE  /\ queue \in Seq([by : Callers, batch : Batch, asks : BOOLEAN])
         /\ Len(queue) \in Nat /\ DOMAIN queue = 1..Len(queue)
         /\ \A i \in DOMAIN queue : queue[i] \in [by : Callers, batch : Batch, asks : BOOLEAN]
         /\ \A i \in DOMAIN queue : /\ queue[i].by \in Callers /\ queue[i].batch \in Batch
                                    /\ queue[i].asks \in BOOLEAN
<1>1. queue \in Seq([by : Callers, batch : Batch, asks : BOOLEAN])
  BY DEF InputInv, InputRanges
<1> HIDE DEF Batch
<1> DEFINE R == [by : Callers, batch : Batch, asks : BOOLEAN]
<1>2. \A r \in R : r.by \in Callers /\ r.batch \in Batch /\ r.asks \in BOOLEAN
  OBVIOUS
<1> HIDE DEF R
<1>3. queue \in Seq(R)
  BY <1>1 DEF R
<1>4. Len(queue) \in Nat /\ DOMAIN queue = 1..Len(queue) /\ \A i \in DOMAIN queue : queue[i] \in R
  BY <1>3
<1> QED BY <1>1, <1>2, <1>4 DEF R

(* A step of a caller that is not waiting for an answer, and queues none.  *)
LEMMA QuietCallerStep ==
  ASSUME InputInv, NEW c \in Callers, stage[c] # "asks", stage'[c] # "asks",
         queue' = queue, pressed' = pressed, failed' = failed,
         \A d \in Callers \ {c} : stage'[d] = stage[d] /\ todo'[d] = todo[d],
         inputPlan' = inputPlan
  PROVE  QueueOK' /\ NoneBetween'
<1>1. \A i \in DOMAIN queue : queue[i].by \in Callers
  BY QueueTyped
<1>2. QueueOK'
  <2>1. \A i \in DOMAIN queue : queue[i].asks => queue[i].by # c
    BY DEF InputInv, QueueOK
  <2> QED BY <1>1, <2>1 DEF InputInv, QueueOK
<1>3. NoneBetween'
  BY PartsStay DEF InputInv, NoneBetween
<1> QED BY <1>2, <1>3

LEMMA OthersStay ==
  ASSUME InputInv, NEW c \in Callers, CallerOK(c)',
         \A d \in Callers \ {c} : Same(d)
  PROVE  \A d \in Callers : CallerOK(d)'
BY SameStays DEF InputInv

LEMMA TakesLockKeeps ==
  ASSUME InputInv, NEW c \in Callers, TakesLock(c)
  PROVE  InputInv'
<1>1. /\ stage[c] = "waits" /\ inputHolder = NoCaller /\ inputHolder' = c
      /\ stage' = [stage EXCEPT ![c] = "sends"] /\ Loads(c)
      /\ inputPlan' = inputPlan /\ failed' = failed /\ completed' = completed
      /\ queue' = queue /\ processor' = processor /\ stalls' = stalls
      /\ pressed' = pressed /\ landed' = landed
  BY DEF TakesLock, remoteVars
<1>2. ahead[c] # <<>> /\ ~failed[c] /\ ~Works(c)
  BY <1>1, InvFacts DEF CallerOK, AheadOK, Works
<1>3. stage'[c] = "sends" /\ \A d \in Callers \ {c} : stage'[d] = stage[d]
  BY <1>1 DEF InputInv, InputRanges
<1>4. /\ ahead' \in [Callers -> Seq(Seq(KeyNames) \cup Seq(Batch))]
      /\ todo' \in [Callers -> Seq(Batch)]
      /\ rising' \in [Callers -> BOOLEAN] /\ down' \in [Callers -> Seq(KeyNames)]
      /\ \A d \in Callers \ {c} :
               /\ ahead'[d] = ahead[d] /\ todo'[d] = todo[d]
               /\ rising'[d] = rising[d] /\ down'[d] = down[d]
  BY <1>1, <1>2, LoadsFacts
<1>5. InputRanges'
  BY <1>1, <1>4 DEF InputInv, InputRanges
<1>6. HolderWorks'
  BY <1>1, <1>3, InputAssumption DEF InputInv, HolderWorks, Works
<1>7. QueueOK' /\ NoneBetween'
  BY <1>1, <1>3, <1>4, QuietCallerStep
<1>8. CallerOK(c)'
  <2>1. /\ IsFiniteSet(Through(c, Part(c))) /\ landed[c] = Batches(c, Part(c))
    BY <1>2, InvFacts DEF CallerOK, LandedOK
  <2>2. Combination(c) => pressed[c] = {} /\ completed'[c] = Part(c)
    BY <1>1, <1>2, InvFacts DEF CallerOK, KeysOK
  <2> QED BY <1>1, <1>2, <1>3, <2>1, <2>2, LoadedOK
<1>9. \A d \in Callers \ {c} : Same(d)
  BY <1>1, <1>3, <1>4 DEF Same
<1> QED BY <1>5, <1>6, <1>7, <1>8, <1>9, OthersStay DEF InputInv

(* The end of a part: everything of it is at the socket.                   *)
LEMMA PartDone ==
  ASSUME InputInv, NEW c \in Callers, Works(c), todo[c] = <<>>, ~failed[c],
         Combination(c) => ~rising[c]
  PROVE  /\ IsFiniteSet(Through(c, Part(c))) /\ landed[c] = Batches(c, Part(c))
         /\ Combination(c) => pressed[c] = {} /\ completed[c] + 1 = Part(c)
<1>1. /\ Part(c) \in Nat \ {0} /\ Size(c, Part(c)) \in Nat
  BY InvFacts
<1>2. Sent(c) = Size(c, Part(c))
  BY <1>1, EmptySeq DEF Sent
<1>3. SentThrough(c) = Through(c, Part(c))
  <2>1. PICK n \in Nat : Part(c) = n + 1
    <3>1. Part(c) - 1 \in Nat /\ Part(c) = (Part(c) - 1) + 1
      BY <1>1
    <3> QED BY <3>1
  <2>2. Part(c) - 1 = n
    BY <2>1
  <2>3. SentThrough(c) = Through(c, n) \cup ({n + 1} \X (1..Size(c, n + 1)))
    BY <1>2, <2>1, <2>2 DEF SentThrough, SentTo
  <2> QED BY <2>1, <2>3, NextPart
<1>4. landed[c] = Cardinality(SentThrough(c)) /\ IsFiniteSet(SentThrough(c))
  BY InvFacts DEF CallerOK, LandedOK
<1>5. Combination(c) => pressed[c] = {} /\ completed[c] = Part(c) - 1
  <2>1. DOMAIN <<>> = {}
    OBVIOUS
  <2> QED BY <2>1, InvFacts DEF CallerOK, KeysOK
<1> QED BY <1>1, <1>3, <1>4, <1>5 DEF Batches

LEMMA LetsGoKeeps ==
  ASSUME InputInv, NEW c \in Callers, LetsGo(c)
  PROVE  InputInv'
<1>1. /\ stage[c] = "sends" /\ todo[c] = <<>> /\ ~Combination(c)
      /\ inputHolder' = NoCaller
      /\ stage' = [stage EXCEPT ![c] = IF ahead[c] = <<>> THEN "done" ELSE "waits"]
      /\ inputPlan' = inputPlan /\ ahead' = ahead /\ todo' = todo /\ rising' = rising
      /\ down' = down /\ failed' = failed /\ completed' = completed
      /\ queue' = queue /\ processor' = processor /\ stalls' = stalls
      /\ pressed' = pressed /\ landed' = landed
  BY DEF LetsGo, remoteVars
<1>2. Works(c) /\ inputHolder = c
  BY <1>1 DEF InputInv, HolderWorks, Works
<1>3. /\ stage'[c] = (IF ahead[c] = <<>> THEN "done" ELSE "waits")
      /\ \A d \in Callers \ {c} : stage'[d] = stage[d]
      /\ stage' \in [Callers -> {"waits", "sends", "asks", "done"}]
  BY <1>1 DEF InputInv, InputRanges
<1>4. ~failed[c]
  BY <1>1, <1>2, InvFacts DEF CallerOK, TurnsOnError
<1>5. InputRanges'
  BY <1>1, <1>3 DEF InputInv, InputRanges
<1>6. HolderWorks'
  BY <1>1, <1>2, <1>3, InputAssumption DEF InputInv, HolderWorks, Works
<1>7. QueueOK' /\ NoneBetween'
  BY <1>1, <1>3, QuietCallerStep
<1>8. CallerOK(c)'
  <2>1. /\ Parts(c)' = Parts(c) /\ Combination(c)' = Combination(c)
        /\ \A n : Through(c, n)' = Through(c, n)
        /\ \A n : Batches(c, n)' = Batches(c, n)
    BY <1>1, PartsStay
  <2>2. Part(c)' = Part(c) /\ ~Works(c)'
    BY <1>1, <1>3, <2>1 DEF Part, Works
  <2>3. AheadOK(c)'
    BY <1>1, <1>3, <1>4, <2>1, <2>2, InvFacts DEF CallerOK, AheadOK
  <2>4. LandedOK(c)'
    BY <1>1, <1>2, <1>4, <2>1, <2>2, PartDone DEF LandedOK
  <2>5. TurnsOnError(c)' /\ KeysOK(c)' /\ CompletedOK(c)'
    BY <1>1, <2>1, <2>2 DEF TurnsOnError, KeysOK, CompletedOK
  <2> QED BY <2>3, <2>4, <2>5 DEF CallerOK
<1>9. \A d \in Callers \ {c} : Same(d)
  BY <1>1, <1>3 DEF Same
<1> QED BY <1>5, <1>6, <1>7, <1>8, <1>9, OthersStay DEF InputInv

LEMMA TurnsKeeps ==
  ASSUME InputInv, NEW c \in Callers, Turns(c)
  PROVE  InputInv'
<1>1. /\ stage[c] = "sends" /\ todo[c] = <<>> /\ Combination(c)
      /\ inputPlan' = inputPlan /\ failed' = failed /\ queue' = queue
      /\ processor' = processor /\ stalls' = stalls /\ pressed' = pressed /\ landed' = landed
  BY DEF Turns, remoteVars
<1>2. Works(c) /\ inputHolder = c
  BY <1>1 DEF InputInv, HolderWorks, Works
<1>3. /\ Parts(c)' = Parts(c) /\ Combination(c)' = Combination(c)
      /\ \A n : Size(c, n)' = Size(c, n)
      /\ \A n : Through(c, n)' = Through(c, n)
      /\ \A n : Batches(c, n)' = Batches(c, n)
  BY <1>1, PartsStay
<1>4. CASE rising[c]
  <2>1. /\ todo' = [todo EXCEPT ![c] = Releases(down[c])]
        /\ rising' = [rising EXCEPT ![c] = FALSE]
        /\ inputHolder' = inputHolder /\ stage' = stage /\ ahead' = ahead
        /\ down' = down /\ completed' = completed
    BY <1>1, <1>4 DEF Turns
  <2>2. ~failed[c]
    BY <1>2, <1>4, InvFacts DEF CallerOK, TurnsOnError
  <2>3. down[c] \in Seq(KeyNames)
    BY InvFacts
  <2>4. /\ todo'[c] = Releases(down[c]) /\ ~rising'[c]
        /\ todo' \in [Callers -> Seq(Batch)] /\ rising' \in [Callers -> BOOLEAN]
        /\ \A d \in Callers \ {c} : todo'[d] = todo[d] /\ rising'[d] = rising[d]
    BY <2>1, <2>3, ReleasesFacts DEF InputInv, InputRanges
  <2>5. InputRanges'
    BY <1>1, <2>1, <2>4 DEF InputInv, InputRanges
  <2>6. HolderWorks'
    BY <2>1 DEF InputInv, HolderWorks, Works
  <2>7. QueueOK' /\ NoneBetween'
    BY <1>1, <2>1, <2>4, QuietCallerStep
  <2>8. /\ Part(c)' = Part(c) /\ Sent(c)' = Sent(c) /\ Works(c)'
        /\ Len(down[c]) = Sent(c)
    <3>1. Part(c)' = Part(c) /\ Works(c)'
      BY <1>2, <1>3, <2>1 DEF Part, Works
    <3>2. Len(down[c]) = Sent(c) /\ Len(todo[c]) = 0
      BY <1>1, <1>2, <1>4, <2>2, EmptySeq, InvFacts DEF CallerOK, KeysOK
    <3>3. Len(Parts(c)[Part(c)]) \in Nat /\ Size(c, Part(c)) = 2 * Len(Parts(c)[Part(c)])
      BY <1>1, <1>2, InvFacts DEF Size
    <3>4. Sent(c) = Len(Parts(c)[Part(c)])
      BY <1>1, <1>4, <3>2, <3>3 DEF Sent
    <3>5. Len(todo'[c]) = Len(down[c])
      BY <2>3, <2>4, ReleasesFacts
    <3>6. Size(c, Part(c))' = Size(c, Part(c))
      BY <1>3, <3>1 DEF Size
    <3>7. Sent(c)' = Size(c, Part(c))' - Len(todo'[c])
      BY <2>4 DEF Sent
    <3> QED BY <3>1, <3>2, <3>3, <3>4, <3>5, <3>6, <3>7
  <2>9. AheadOK(c)'
    <3>1. /\ Len(ahead[c]) <= Len(Parts(c))
          /\ \A i \in 1..Len(ahead[c]) : ahead[c][i] = Parts(c)[Part(c) + i]
          /\ Part(c) >= 1 /\ 0 <= Sent(c)
      BY <1>2, <2>2, InvFacts DEF CallerOK, AheadOK
    <3>2. stage'[c] = "sends"
      BY <1>1, <2>1
    <3> QED BY <1>3, <2>1, <2>8, <3>1, <3>2 DEF AheadOK
  <2>10. LandedOK(c)'
    <3>1. SentThrough(c)' = SentThrough(c)
      BY <1>3, <2>8 DEF SentThrough, SentTo
    <3> QED BY <1>1, <1>2, <2>8, <3>1, InvFacts DEF CallerOK, LandedOK
  <2>11. TurnsOnError(c)'
    BY <1>1, <2>2 DEF TurnsOnError
  <2>12. KeysOK(c)'
    <3>1. /\ pressed[c] \subseteq {down[c][i] : i \in DOMAIN down[c]}
          /\ completed[c] = Part(c) - 1
      BY <1>1, <1>2, <1>4, <2>2, InvFacts DEF CallerOK, KeysOK
    <3>2. /\ \A i \in DOMAIN todo'[c] : \E k \in KeyNames : todo'[c][i] = Release(k)
          /\ \A i \in DOMAIN down[c] : \E j \in DOMAIN todo'[c] : todo'[c][j] = Release(down[c][i])
      BY <2>3, <2>4, ReleasesFacts
    <3>3. \A k \in pressed[c] : \E j \in DOMAIN todo'[c] : todo'[c][j] = Release(k)
      BY <3>1, <3>2
    <3> QED BY <1>1, <2>1, <2>4, <2>8, <3>1, <3>2, <3>3 DEF KeysOK
  <2>13. CompletedOK(c)'
    BY <1>1, <1>3, <2>1, InvFacts DEF CallerOK, CompletedOK
  <2>14. CallerOK(c)'
    BY <2>9, <2>10, <2>11, <2>12, <2>13 DEF CallerOK
  <2>15. \A d \in Callers \ {c} : Same(d)
    BY <1>1, <2>1, <2>4 DEF Same
  <2> QED BY <2>5, <2>6, <2>7, <2>14, <2>15, OthersStay DEF InputInv
<1>5. CASE ~rising[c] /\ ~failed[c] /\ ahead[c] # <<>>
  <2>1. /\ completed' = [completed EXCEPT ![c] = @ + 1] /\ Loads(c)
        /\ inputHolder' = inputHolder /\ stage' = stage
    BY <1>1, <1>5 DEF Turns
  <2>2. /\ completed'[c] = completed[c] + 1 /\ completed' \in [Callers -> Nat]
        /\ \A d \in Callers \ {c} : completed'[d] = completed[d]
    BY SMTT(20), <2>1 DEF InputInv, InputRanges
  <2>3. /\ ahead' \in [Callers -> Seq(Seq(KeyNames) \cup Seq(Batch))]
        /\ todo' \in [Callers -> Seq(Batch)]
        /\ rising' \in [Callers -> BOOLEAN] /\ down' \in [Callers -> Seq(KeyNames)]
        /\ \A d \in Callers \ {c} :
                 /\ ahead'[d] = ahead[d] /\ todo'[d] = todo[d]
                 /\ rising'[d] = rising[d] /\ down'[d] = down[d]
    BY <1>1, <1>5, <2>1, LoadsFacts
  <2>4. InputRanges'
    BY <1>1, <2>1, <2>2, <2>3 DEF InputInv, InputRanges
  <2>5. HolderWorks'
    BY <2>1 DEF InputInv, HolderWorks, Works
  <2>6. QueueOK' /\ NoneBetween'
    BY <1>1, <2>1, <2>3, QuietCallerStep
  <2>7. CallerOK(c)'
    BY <1>1, <1>2, <1>5, <2>1, <2>2, PartDone, LoadedOK
  <2>8. \A d \in Callers \ {c} : Same(d)
    BY <1>1, <2>1, <2>2, <2>3 DEF Same
  <2> QED BY <2>4, <2>5, <2>6, <2>7, <2>8, OthersStay DEF InputInv
<1>6. CASE ~rising[c] /\ ~(~failed[c] /\ ahead[c] # <<>>)
  <2>1. /\ completed' = [completed EXCEPT ![c] = IF failed[c] THEN @ ELSE @ + 1]
        /\ stage' = [stage EXCEPT ![c] = "done"] /\ inputHolder' = NoCaller
        /\ ahead' = ahead /\ todo' = todo /\ rising' = rising /\ down' = down
    BY <1>1, <1>6 DEF Turns
  <2>2. /\ completed'[c] = (IF failed[c] THEN completed[c] ELSE completed[c] + 1)
        /\ completed' \in [Callers -> Nat] /\ stage'[c] = "done"
        /\ stage' \in [Callers -> {"waits", "sends", "asks", "done"}]
        /\ \A d \in Callers \ {c} : completed'[d] = completed[d] /\ stage'[d] = stage[d]
    BY <2>1 DEF InputInv, InputRanges
  <2>3. InputRanges'
    BY <1>1, <2>1, <2>2 DEF InputInv, InputRanges
  <2>4. HolderWorks'
    BY <1>2, <2>1, <2>2, InputAssumption DEF InputInv, HolderWorks, Works
  <2>5. QueueOK' /\ NoneBetween'
    BY <1>1, <2>1, <2>2, QuietCallerStep
  <2>6. Part(c)' = Part(c) /\ ~Works(c)'
    BY <1>3, <2>1, <2>2 DEF Part, Works
  <2>7. /\ ~failed[c] => ahead[c] = <<>> /\ IsFiniteSet(Through(c, Part(c)))
        /\ ~failed[c] => /\ landed[c] = Batches(c, Part(c))
                         /\ pressed[c] = {} /\ completed[c] + 1 = Part(c)
    BY <1>1, <1>2, <1>6, PartDone
  <2>8. AheadOK(c)'
    BY <1>1, <1>3, <2>1, <2>2, <2>6, <2>7, InvFacts DEF CallerOK, AheadOK
  <2>9. LandedOK(c)' /\ TurnsOnError(c)' /\ KeysOK(c)'
    BY <1>1, <1>3, <2>2, <2>6, <2>7 DEF LandedOK, TurnsOnError, KeysOK
  <2>10. CompletedOK(c)'
    <3>1. landed[c] \in Nat
      BY InvFacts
    <3> QED BY <1>1, <1>3, <2>2, <2>7, <3>1, InvFacts DEF CallerOK, CompletedOK
  <2>11. \A d \in Callers \ {c} : Same(d)
    BY <1>1, <2>1, <2>2 DEF Same
  <2> QED BY <2>3, <2>4, <2>5, <2>8, <2>9, <2>10, <2>11, OthersStay DEF InputInv, CallerOK
<1> QED BY <1>4, <1>5, <1>6

(* A failed batch, whatever becomes of the queue.                          *)
LEMMA FailStep ==
  ASSUME InputInv, NEW c \in Callers, Works(c), todo[c] # <<>>, InputFails(c),
         inputPlan' = inputPlan, ahead' = ahead, completed' = completed,
         pressed' = pressed, landed' = landed,
         queue' \in Seq([by : Callers, batch : Batch, asks : BOOLEAN]),
         Len(queue') <= QueueMax, stalls' \in 0..MaxStalls,
         processor' \in {"runs", "ended"}
  PROVE  InputRanges' /\ HolderWorks' /\ \A d \in Callers : CallerOK(d)'
<1>1. /\ failed'[c] /\ stage'[c] # "waits" /\ (Works(c)' => Combination(c) /\ ~rising'[c])
      /\ inputHolder' \in Callers \cup {NoCaller}
      /\ stage' \in [Callers -> {"waits", "sends", "asks", "done"}]
      /\ todo' \in [Callers -> Seq(Batch)] /\ down' = down
      /\ rising' \in [Callers -> BOOLEAN] /\ failed' \in [Callers -> BOOLEAN]
      /\ Works(c)' <=> inputHolder' = c
      /\ inputHolder' \in {c, NoCaller}
      /\ \A d \in Callers \ {c} :
               /\ stage'[d] = stage[d] /\ todo'[d] = todo[d]
               /\ rising'[d] = rising[d] /\ failed'[d] = failed[d]
  BY FailsFacts
<1>2. InputRanges'
  BY <1>1 DEF InputInv, InputRanges
<1>3. HolderWorks'
  <2>1. inputHolder = c
    BY DEF InputInv, HolderWorks
  <2>2. ASSUME NEW d \in Callers \ {c} PROVE ~Works(d)' /\ inputHolder' # d
    <3>1. ~Works(d)
      BY <2>1 DEF InputInv, HolderWorks
    <3>2. Works(d)' = Works(d)
      BY <1>1 DEF Works
    <3> QED BY <1>1, <3>1, <3>2, InputAssumption
  <2> QED BY <1>1, <2>2 DEF HolderWorks
<1>4. CallerOK(c)'
  BY <1>1, FailedOK
<1>5. \A d \in Callers \ {c} : Same(d)
  BY <1>1 DEF Same
<1> QED BY <1>2, <1>3, <1>4, <1>5, OthersStay

LEMMA RunsOutKeeps ==
  ASSUME InputInv, NEW c \in Callers, RunsOut(c)
  PROVE  InputInv'
<1> DEFINE Now(i) == IF queue[i].by = c THEN [queue[i] EXCEPT !.asks = FALSE] ELSE queue[i]
<1>1. /\ stage[c] = "asks" /\ stalls < MaxStalls /\ stalls' = stalls + 1
      /\ queue' = [i \in DOMAIN queue |-> Now(i)] /\ InputFails(c)
      /\ inputPlan' = inputPlan /\ ahead' = ahead /\ completed' = completed
      /\ processor' = processor /\ pressed' = pressed /\ landed' = landed
  BY DEF RunsOut, remoteVars
<1>2. /\ Works(c) /\ todo[c] # <<>> /\ queue[Len(queue)].by = c
  BY <1>1 DEF InputInv, QueueOK, Works
<1>3. \A i \in DOMAIN queue :
         /\ Now(i) \in [by : Callers, batch : Batch, asks : BOOLEAN]
         /\ Now(i).by = queue[i].by /\ Now(i).batch = queue[i].batch
         /\ Now(i).asks = (queue[i].asks /\ queue[i].by # c)
  <2> TAKE i \in DOMAIN queue
  <2> HIDE DEF Batch
  <2>1. queue[i] \in [by : Callers, batch : Batch, asks : BOOLEAN]
    BY QueueTyped
  <2> QED BY <2>1
<1>4. /\ queue' \in Seq([by : Callers, batch : Batch, asks : BOOLEAN])
      /\ Len(queue') = Len(queue) /\ DOMAIN queue' = DOMAIN queue
  <2> HIDE DEF Batch, Now
  <2> QED BY <1>1, <1>3, QueueTyped
<1>5. \A i \in DOMAIN queue' : /\ queue'[i].by = queue[i].by
                               /\ queue'[i].asks = (queue[i].asks /\ queue[i].by # c)
  <2> HIDE DEF Now
  <2> QED BY <1>1, <1>3, <1>4
<1>6. InputRanges' /\ HolderWorks' /\ \A d \in Callers : CallerOK(d)'
  <2>1. Len(queue') <= QueueMax /\ stalls' \in 0..MaxStalls /\ processor' \in {"runs", "ended"}
    <3>1. /\ Len(queue) <= QueueMax /\ stalls \in 0..MaxStalls
          /\ processor \in {"runs", "ended"}
      BY DEF InputInv, InputRanges
    <3>2. stalls + 1 \in 0..MaxStalls
      BY <1>1, <3>1, InputAssumption
    <3> QED BY <1>1, <1>4, <3>1, <3>2
  <2> QED BY <1>1, <1>2, <1>4, <2>1, FailStep
<1>7. /\ failed'[c] /\ stage'[c] # "asks"
      /\ \A d \in Callers \ {c} : failed'[d] = failed[d] /\ stage'[d] = stage[d]
  BY <1>1, <1>2, FailsFacts
<1>8. QueueOK'
  <2>1. ASSUME NEW i \in DOMAIN queue'
        PROVE  ~queue'[i].asks /\ failed'[queue'[i].by]
    <3>1. queue[i].by \in Callers /\ queue[i].asks \in BOOLEAN
      BY <1>4, QueueTyped
    <3>2. queue[i].asks => queue[i].by = c
      BY <1>2, <1>4 DEF InputInv, QueueOK
    <3>3. ~queue[i].asks => failed[queue[i].by]
      BY <1>4 DEF InputInv, QueueOK
    <3> QED BY <1>5, <1>7, <3>1, <3>2, <3>3
  <2>2. \A d \in Callers : stage'[d] # "asks"
    BY <1>1, <1>2, <1>7 DEF InputInv, HolderWorks, Works
  <2> QED BY <2>1, <2>2 DEF QueueOK
<1>9. NoneBetween'
  BY <1>1, <1>4, <1>5, <1>7, PartsStay DEF InputInv, NoneBetween
<1> QED BY <1>6, <1>8, <1>9 DEF InputInv

(* A caller at work that only starts to wait for an answer.                *)
LEMMA StillWorksOK ==
  ASSUME InputInv, NEW c \in Callers, Works(c), Works(c)', inputPlan' = inputPlan,
         ahead' = ahead, todo' = todo, rising' = rising, down' = down, failed' = failed,
         completed' = completed, pressed' = pressed, landed' = landed
  PROVE  CallerOK(c)'
<1>1. /\ Parts(c)' = Parts(c) /\ Combination(c)' = Combination(c)
      /\ \A n : Size(c, n)' = Size(c, n)
      /\ \A n : Through(c, n)' = Through(c, n)
      /\ \A n : Batches(c, n)' = Batches(c, n)
  BY PartsStay
<1>2. Part(c)' = Part(c) /\ Sent(c)' = Sent(c) /\ stage'[c] \notin {"waits", "done"}
  BY <1>1 DEF Part, Sent, Works
<1>3. SentThrough(c)' = SentThrough(c)
  BY <1>1, <1>2 DEF SentThrough, SentTo
<1>4. AheadOK(c)'
  <2>1. /\ Len(ahead[c]) <= Len(Parts(c))
        /\ \A i \in 1..Len(ahead[c]) : ahead[c][i] = Parts(c)[Part(c) + i]
        /\ Part(c) >= 1 /\ (~failed[c] => 0 <= Sent(c))
    BY InvFacts DEF CallerOK, AheadOK
  <2> QED BY <1>1, <1>2, <2>1 DEF AheadOK
<1>5. LandedOK(c)'
  BY <1>3, InvFacts DEF CallerOK, LandedOK
<1>6. TurnsOnError(c)' /\ CompletedOK(c)'
  BY <1>1, InvFacts DEF CallerOK, TurnsOnError, CompletedOK
<1>7. KeysOK(c)'
  <2>1. KeysOK(c)
    BY InvFacts DEF CallerOK
  <2> QED BY <1>1, <1>2, <2>1 DEF KeysOK
<1> QED BY <1>4, <1>5, <1>6, <1>7 DEF CallerOK

LEMMA SendsBatchKeeps ==
  ASSUME InputInv, NEW c \in Callers, SendsBatch(c)
  PROVE  InputInv'
<1>1. /\ stage[c] = "sends" /\ todo[c] # <<>>
      /\ inputPlan' = inputPlan /\ ahead' = ahead /\ completed' = completed
      /\ processor' = processor /\ stalls' = stalls /\ pressed' = pressed /\ landed' = landed
  BY DEF SendsBatch, remoteVars
<1>2. Works(c) /\ inputHolder = c
  BY <1>1 DEF InputInv, HolderWorks, Works
<1>3. \A d \in Callers : stage[d] # "asks"
  BY <1>1, <1>2 DEF InputInv, HolderWorks, Works
<1>4. \A i \in DOMAIN queue : ~queue[i].asks /\ failed[queue[i].by]
  <2>1. \A i \in DOMAIN queue : queue[i].by \in Callers /\ queue[i].asks \in BOOLEAN
    BY QueueTyped
  <2> QED BY <1>3, <2>1 DEF InputInv, QueueOK
<1>5. CASE processor = "runs" /\ Len(queue) < QueueMax
  <2> DEFINE r == [by |-> c, batch |-> Head(todo[c]), asks |-> TRUE]
  <2>1. /\ queue' = Append(queue, r) /\ stage' = [stage EXCEPT ![c] = "asks"]
        /\ inputHolder' = inputHolder /\ todo' = todo /\ rising' = rising
        /\ down' = down /\ failed' = failed
    BY <1>1, <1>5 DEF SendsBatch
  <2>2. r \in [by : Callers, batch : Batch, asks : BOOLEAN]
    <3>1. todo[c] \in Seq(Batch)
      BY InvFacts
    <3> HIDE DEF Batch
    <3>2. Head(todo[c]) \in Batch
      BY <1>1, <3>1, HeadTailProperties
    <3> QED BY <3>2
  <2>3. r.by = c /\ r.asks /\ r.batch = Head(todo[c])
    OBVIOUS
  <2> HIDE DEF r, Batch
  <2>4. /\ queue' \in Seq([by : Callers, batch : Batch, asks : BOOLEAN])
        /\ Len(queue') = Len(queue) + 1 /\ DOMAIN queue' = DOMAIN queue \cup {Len(queue')}
        /\ queue'[Len(queue')] = r
        /\ \A i \in DOMAIN queue : queue'[i] = queue[i]
    BY <2>1, <2>2, QueueTyped
  <2>5. /\ stage'[c] = "asks" /\ \A d \in Callers \ {c} : stage'[d] = stage[d]
        /\ stage' \in [Callers -> {"waits", "sends", "asks", "done"}]
    BY <2>1 DEF InputInv, InputRanges
  <2>6. InputRanges'
    <3>1. Len(queue') <= QueueMax
      BY <1>5, <2>4, QueueTyped, InputAssumption
    <3> QED BY <1>1, <2>1, <2>4, <2>5, <3>1 DEF InputInv, InputRanges
  <2>7. HolderWorks'
    BY <1>2, <2>1, <2>5 DEF InputInv, HolderWorks, Works
  <2>8. QueueOK'
    <3>1. ASSUME NEW i \in DOMAIN queue', i # Len(queue')
          PROVE  ~queue'[i].asks /\ failed'[queue'[i].by]
      BY <1>4, <2>1, <2>4, <3>1
    <3>2. /\ queue'[Len(queue')].asks /\ queue'[Len(queue')].by = c
          /\ queue'[Len(queue')].batch = Head(todo'[c])
      BY <2>1, <2>3, <2>4
    <3>3. queue' # <<>>
      BY <2>4
    <3>4. \A d \in Callers : stage'[d] = "asks" => d = c
      BY <1>3, <2>5
    <3> QED BY <1>1, <2>1, <2>5, <3>1, <3>2, <3>3, <3>4 DEF QueueOK
  <2>9. NoneBetween'
    <3> SUFFICES ASSUME NEW d \in Callers, NEW i \in DOMAIN queue',
                        Combination(d), ~failed[d], pressed[d] # {}
                 PROVE  queue'[i].by = d
      BY <1>1, <2>1, PartsStay DEF NoneBetween
    <3>1. Works(d)
      BY InvFacts DEF CallerOK, KeysOK
    <3>2. d = c
      BY <1>2, <3>1 DEF InputInv, HolderWorks
    <3>3. i \in DOMAIN queue => queue[i].by = d
      BY DEF InputInv, NoneBetween
    <3> QED BY <2>3, <2>4, <3>2, <3>3
  <2>10. CallerOK(c)'
    BY <1>1, <1>2, <2>1, <2>5, StillWorksOK DEF Works
  <2>11. \A d \in Callers \ {c} : Same(d)
    BY <1>1, <2>1, <2>5 DEF Same
  <2> QED BY <2>6, <2>7, <2>8, <2>9, <2>10, <2>11, OthersStay DEF InputInv
<1>6. CASE ~(processor = "runs" /\ Len(queue) < QueueMax)
  <2>1. InputFails(c) /\ queue' = queue
    BY <1>1, <1>6 DEF SendsBatch
  <2>2. InputRanges' /\ HolderWorks' /\ \A d \in Callers : CallerOK(d)'
    BY <1>1, <1>2, <2>1, FailStep DEF InputInv, InputRanges
  <2>3. /\ failed'[c] /\ stage'[c] # "asks"
        /\ \A d \in Callers \ {c} : failed'[d] = failed[d] /\ stage'[d] = stage[d]
    BY <1>1, <1>2, <2>1, FailsFacts
  <2>4. QueueOK'
    <3>1. \A d \in Callers : failed[d] => failed'[d]
      BY <2>3
    <3>2. \A d \in Callers : stage'[d] # "asks"
      BY <1>3, <2>3
    <3>3. \A i \in DOMAIN queue : queue[i].by \in Callers
      BY QueueTyped
    <3> QED BY <1>4, <2>1, <3>1, <3>2, <3>3 DEF QueueOK
  <2>5. NoneBetween'
    <3>1. \A d \in Callers : failed[d] => failed'[d]
      BY <2>3
    <3> QED BY <1>1, <2>1, <3>1, PartsStay DEF InputInv, NoneBetween
  <2> QED BY <2>2, <2>4, <2>5 DEF InputInv
<1> QED BY <1>5, <1>6

(* The processor takes a command whose caller has given up.                *)
LEMMA TakesUnasked ==
  ASSUME InputInv, queue # <<>>, ~queue[1].asks, queue' = Tail(queue),
         stage' = stage, todo' = todo, failed' = failed, inputPlan' = inputPlan,
         \A c \in Callers : c # queue[1].by => pressed'[c] = pressed[c]
  PROVE  /\ queue' \in Seq([by : Callers, batch : Batch, asks : BOOLEAN])
         /\ Len(queue') <= QueueMax /\ QueueOK' /\ NoneBetween'
<1>1. /\ Len(queue) \in Nat \ {0} /\ DOMAIN queue = 1..Len(queue)
      /\ queue' \in Seq([by : Callers, batch : Batch, asks : BOOLEAN])
      /\ Len(queue') = Len(queue) - 1 /\ DOMAIN queue' = 1..Len(queue')
      /\ \A i \in DOMAIN queue' : i + 1 \in DOMAIN queue /\ queue'[i] = queue[i + 1]
  <2> HIDE DEF Batch
  <2>1. /\ queue \in Seq([by : Callers, batch : Batch, asks : BOOLEAN])
        /\ Len(queue) \in Nat /\ DOMAIN queue = 1..Len(queue)
    BY QueueTyped
  <2>2. /\ Len(queue) \in Nat \ {0}
        /\ Tail(queue) \in Seq([by : Callers, batch : Batch, asks : BOOLEAN])
        /\ Len(Tail(queue)) = Len(queue) - 1
        /\ \A i \in 1..Len(Tail(queue)) : Tail(queue)[i] = queue[i + 1]
    BY <2>1, HeadTailProperties, EmptySeq, LenProperties
  <2> QED BY <2>1, <2>2
<1>2. failed[queue[1].by]
  BY <1>1 DEF InputInv, QueueOK
<1>3. Len(queue') <= QueueMax
  <2>1. Len(queue) <= QueueMax
    BY DEF InputInv, InputRanges
  <2> QED BY <1>1, <2>1, InputAssumption
<1>4. QueueOK'
  <2>1. ASSUME NEW i \in DOMAIN queue'
        PROVE  /\ queue'[i].asks => /\ i = Len(queue') /\ stage'[queue'[i].by] = "asks"
                                    /\ queue'[i].batch = Head(todo'[queue'[i].by])
               /\ ~queue'[i].asks => failed'[queue'[i].by]
    <3>1. /\ queue[i + 1].asks => /\ i + 1 = Len(queue) /\ stage[queue[i + 1].by] = "asks"
                                  /\ queue[i + 1].batch = Head(todo[queue[i + 1].by])
          /\ ~queue[i + 1].asks => failed[queue[i + 1].by]
      BY <1>1 DEF InputInv, QueueOK
    <3> QED BY <1>1, <3>1
  <2>2. ASSUME NEW c \in Callers, stage'[c] = "asks"
        PROVE  /\ queue' # <<>> /\ queue'[Len(queue')].by = c /\ queue'[Len(queue')].asks
               /\ todo'[c] # <<>>
    <3>1. /\ queue[Len(queue)].by = c /\ queue[Len(queue)].asks /\ todo[c] # <<>>
      BY <2>2 DEF InputInv, QueueOK
    <3>2. Len(queue) # 1
      BY <3>1
    <3>3. Len(queue') \in DOMAIN queue' /\ Len(queue') + 1 = Len(queue)
      BY <1>1, <3>2
    <3>4. queue' # <<>>
      BY <3>3
    <3> QED BY <1>1, <3>1, <3>3, <3>4
  <2> QED BY <2>1, <2>2 DEF QueueOK
<1>5. NoneBetween'
  <2> SUFFICES ASSUME NEW c \in Callers, NEW i \in DOMAIN queue',
                      Combination(c), ~failed[c], pressed'[c] # {}
               PROVE  queue'[i].by = c
    BY PartsStay DEF NoneBetween
  <2>1. pressed[c] # {}
    BY <1>2
  <2>2. queue[i + 1].by = c
    BY <1>1, <2>1 DEF InputInv, NoneBetween
  <2> QED BY <1>1, <2>2
<1> QED BY <1>1, <1>3, <1>4, <1>5

(* The one that waits for an answer waits for the only command there is    *)
(* when that is taken, and nobody else waits.                              *)
LEMMA TakesAsked ==
  ASSUME InputInv, queue # <<>>, queue[1].asks
  PROVE  /\ queue[1].by \in Callers /\ stage[queue[1].by] = "asks"
         /\ Works(queue[1].by) /\ todo[queue[1].by] # <<>>
         /\ queue[1].batch = Head(todo[queue[1].by]) /\ Tail(queue) = <<>>
         /\ \A d \in Callers \ {queue[1].by} : stage[d] # "asks"
<1>1. /\ Len(queue) \in Nat \ {0} /\ DOMAIN queue = 1..Len(queue)
      /\ queue \in Seq([by : Callers, batch : Batch, asks : BOOLEAN])
  <2> HIDE DEF Batch
  <2> QED BY QueueTyped, EmptySeq, LenProperties
<1>2. /\ 1 = Len(queue) /\ stage[queue[1].by] = "asks" /\ queue[1].by \in Callers
      /\ queue[1].batch = Head(todo[queue[1].by])
  BY <1>1, QueueTyped DEF InputInv, QueueOK
<1>3. Works(queue[1].by) /\ todo[queue[1].by] # <<>>
  BY <1>2 DEF InputInv, QueueOK, Works
<1>4. Tail(queue) = <<>>
  <2> HIDE DEF Batch
  <2>1. /\ Tail(queue) \in Seq([by : Callers, batch : Batch, asks : BOOLEAN])
        /\ Len(Tail(queue)) = 0
    <3>1. /\ Tail(queue) \in Seq([by : Callers, batch : Batch, asks : BOOLEAN])
          /\ Len(Tail(queue)) = Len(queue) - 1
      BY <1>1, HeadTailProperties
    <3> QED BY <1>2, <3>1
  <2> QED BY <2>1, EmptySeq
<1>5. \A d \in Callers \ {queue[1].by} : stage[d] # "asks"
  BY <1>2, <1>3 DEF InputInv, HolderWorks, Works
<1> QED BY <1>2, <1>3, <1>4, <1>5

LEMMA EmptyQueueOK ==
  ASSUME queue' = <<>>, \A c \in Callers : stage'[c] # "asks"
  PROVE  /\ QueueOK' /\ NoneBetween' /\ Len(queue') = 0
         /\ queue' \in Seq([by : Callers, batch : Batch, asks : BOOLEAN])
BY DEF QueueOK, NoneBetween

LEMMA CannotEncodeKeeps ==
  ASSUME InputInv, CannotEncode
  PROVE  InputInv'
<1>1. /\ queue # <<>> /\ queue' = Tail(queue) /\ Head(queue) = queue[1]
      /\ IF queue[1].asks THEN InputFails(queue[1].by)
         ELSE UNCHANGED <<inputHolder, stage, todo, rising, down, failed>>
      /\ inputPlan' = inputPlan /\ ahead' = ahead /\ completed' = completed
      /\ processor' = processor /\ stalls' = stalls /\ pressed' = pressed /\ landed' = landed
  <2>1. Head(queue) = queue[1]
    <3> HIDE DEF Batch
    <3> QED BY QueueTyped, HeadTailProperties DEF CannotEncode
  <2> QED BY <2>1 DEF CannotEncode, remoteVars
<1>2. CASE queue[1].asks
  <2> DEFINE c == queue[1].by
  <2>1. /\ c \in Callers /\ Works(c) /\ todo[c] # <<>> /\ queue' = <<>>
        /\ \A d \in Callers \ {c} : stage[d] # "asks"
    BY <1>1, <1>2, TakesAsked
  <2>2. InputFails(c)
    BY <1>1, <1>2
  <2> HIDE DEF c
  <2>3. \A d \in Callers : stage'[d] # "asks"
    BY <2>1, <2>2, FailsFacts
  <2>4. /\ QueueOK' /\ NoneBetween' /\ Len(queue') = 0
        /\ queue' \in Seq([by : Callers, batch : Batch, asks : BOOLEAN])
    BY <2>1, <2>3, EmptyQueueOK
  <2>5. InputRanges' /\ HolderWorks' /\ \A d \in Callers : CallerOK(d)'
    <3>1. /\ Len(queue') <= QueueMax /\ stalls' \in 0..MaxStalls
          /\ processor' \in {"runs", "ended"}
      BY <1>1, <2>4, InputAssumption DEF InputInv, InputRanges
    <3> QED BY <1>1, <2>1, <2>2, <2>4, <3>1, FailStep
  <2> QED BY <2>4, <2>5 DEF InputInv
<1>3. CASE ~queue[1].asks
  <2>1. /\ inputHolder' = inputHolder /\ stage' = stage /\ todo' = todo
        /\ rising' = rising /\ down' = down /\ failed' = failed
    BY <1>1, <1>3
  <2>2. /\ queue' \in Seq([by : Callers, batch : Batch, asks : BOOLEAN])
        /\ Len(queue') <= QueueMax /\ QueueOK' /\ NoneBetween'
    BY <1>1, <1>3, <2>1, TakesUnasked
  <2>3. InputRanges'
    BY <1>1, <2>1, <2>2 DEF InputInv, InputRanges
  <2>4. HolderWorks'
    BY <2>1 DEF InputInv, HolderWorks, Works
  <2>5. \A d \in Callers : CallerOK(d)'
    BY <1>1, <2>1, SameStays DEF InputInv, Same
  <2> QED BY <2>2, <2>3, <2>4, <2>5 DEF InputInv
<1> QED BY <1>2, <1>3

LEMMA ProcessorEndsKeeps ==
  ASSUME InputInv, ProcessorEnds
  PROVE  InputInv'
<1>1. /\ processor' = "ended" /\ queue' = <<>>
      /\ inputPlan' = inputPlan /\ ahead' = ahead /\ completed' = completed
      /\ stalls' = stalls /\ pressed' = pressed /\ landed' = landed
  BY DEF ProcessorEnds, remoteVars
<1>2. CASE Asker = {}
  <2>1. /\ inputHolder' = inputHolder /\ stage' = stage /\ todo' = todo
        /\ rising' = rising /\ down' = down /\ failed' = failed
    BY <1>2 DEF ProcessorEnds
  <2>2. /\ QueueOK' /\ NoneBetween' /\ Len(queue') = 0
        /\ queue' \in Seq([by : Callers, batch : Batch, asks : BOOLEAN])
    BY <1>1, <1>2, <2>1, EmptyQueueOK DEF Asker
  <2>3. InputRanges'
    BY <1>1, <2>1, <2>2, InputAssumption DEF InputInv, InputRanges
  <2>4. HolderWorks'
    BY <2>1 DEF InputInv, HolderWorks, Works
  <2>5. \A d \in Callers : CallerOK(d)'
    BY <1>1, <2>1, SameStays DEF InputInv, Same
  <2> QED BY <2>2, <2>3, <2>4, <2>5 DEF InputInv
<1>3. CASE Asker # {}
  <2>1. PICK c \in Asker : InputFails(c)
    BY <1>3 DEF ProcessorEnds
  <2>2. /\ c \in Callers /\ Works(c) /\ todo[c] # <<>>
        /\ \A d \in Callers \ {c} : stage[d] # "asks"
    BY DEF Asker, InputInv, QueueOK, HolderWorks, Works
  <2>3. \A d \in Callers : stage'[d] # "asks"
    BY <2>1, <2>2, FailsFacts
  <2>4. /\ QueueOK' /\ NoneBetween' /\ Len(queue') = 0
        /\ queue' \in Seq([by : Callers, batch : Batch, asks : BOOLEAN])
    BY <1>1, <2>3, EmptyQueueOK
  <2>5. InputRanges' /\ HolderWorks' /\ \A d \in Callers : CallerOK(d)'
    <3>1. /\ Len(queue') <= QueueMax /\ stalls' \in 0..MaxStalls
          /\ processor' \in {"runs", "ended"}
      BY <1>1, <2>4, InputAssumption DEF InputInv, InputRanges
    <3> QED BY <1>1, <2>1, <2>2, <2>4, <3>1, FailStep
  <2> QED BY <2>4, <2>5 DEF InputInv
<1> QED BY <1>2, <1>3

LEMMA DeliversKeeps ==
  ASSUME InputInv, Delivers
  PROVE  InputInv'
<1>0. /\ queue # <<>> /\ Head(queue) = queue[1]
      /\ queue[1].by \in Callers /\ queue[1].batch \in Batch /\ 1 \in DOMAIN queue
  <2>1. queue # <<>>
    BY DEF Delivers
  <2>2. Head(queue) = queue[1] /\ 1 \in DOMAIN queue
    <3> HIDE DEF Batch
    <3> QED BY <2>1, QueueTyped, HeadTailProperties, EmptySeq
  <2> QED BY <2>1, <2>2, QueueTyped
<1>a. PICK c \in Callers : c = queue[1].by
  BY <1>0
<1>b. PICK batch \in Batch : batch = queue[1].batch
  BY <1>0
<1>1. /\ queue' = Tail(queue)
      /\ pressed' = [pressed EXCEPT ![c] = After(pressed[c], batch)]
      /\ landed' = [landed EXCEPT ![c] = landed[c] + 1]
      /\ IF queue[1].asks THEN Answered(c)
         ELSE UNCHANGED <<inputHolder, stage, todo, rising, down, failed>>
      /\ inputPlan' = inputPlan /\ ahead' = ahead /\ completed' = completed
      /\ processor' = processor /\ stalls' = stalls
  BY <1>0, <1>a, <1>b DEF Delivers
<1>2. c \in Callers /\ batch \in Batch /\ queue # <<>>
  BY <1>0
<1>3. CASE queue[1].asks
  <2>1. /\ stage[c] = "asks" /\ Works(c) /\ todo[c] # <<>> /\ batch = Head(todo[c])
        /\ queue' = <<>> /\ \A d \in Callers \ {c} : stage[d] # "asks"
    BY <1>a, <1>b, <1>1, <1>2, <1>3, TakesAsked
  <2>2. Answered(c)
    BY <1>1, <1>3
  <2>3. /\ todo' \in [Callers -> Seq(Batch)] /\ down' \in [Callers -> Seq(KeyNames)]
        /\ stage' \in [Callers -> {"waits", "sends", "asks", "done"}]
        /\ inputHolder' = inputHolder /\ rising' = rising /\ failed' = failed
        /\ stage'[c] = "sends" /\ Works(c)'
        /\ \A d \in Callers \ {c} :
              /\ stage'[d] = stage[d] /\ todo'[d] = todo[d] /\ down'[d] = down[d]
    BY <1>1, <1>2, <2>1, <2>2, AnsweredFacts
  <2>4. /\ pressed' \in [Callers -> SUBSET KeyNames] /\ landed' \in [Callers -> Nat]
        /\ pressed'[c] = After(pressed[c], batch) /\ landed'[c] = landed[c] + 1
        /\ \A d \in Callers \ {c} : pressed'[d] = pressed[d] /\ landed'[d] = landed[d]
    <3>1. /\ pressed \in [Callers -> SUBSET KeyNames] /\ landed \in [Callers -> Nat]
      BY DEF InputInv, InputRanges
    <3>2. After(pressed[c], batch) \subseteq KeyNames
      BY <1>2, <3>1, AfterKeys
    <3> QED BY <1>1, <1>2, <3>1, <3>2
  <2>5. CallerOK(c)'
    BY <1>1, <1>2, <2>1, <2>2, <2>4, AnsweredOK
  <2>6. \A d \in Callers \ {c} : Same(d)
    BY <1>1, <2>3, <2>4 DEF Same
  <2>7. \A d \in Callers : stage'[d] # "asks"
    BY <2>1, <2>3
  <2>8. /\ QueueOK' /\ NoneBetween' /\ Len(queue') = 0
        /\ queue' \in Seq([by : Callers, batch : Batch, asks : BOOLEAN])
    BY <2>1, <2>7, EmptyQueueOK
  <2>9. InputRanges'
    <3>1. Len(queue') <= QueueMax
      BY <2>8, InputAssumption
    <3> HIDE DEF Batch
    <3> QED BY <1>1, <2>3, <2>4, <2>8, <3>1 DEF InputInv, InputRanges
  <2>10. HolderWorks'
    BY <1>2, <2>1, <2>3 DEF InputInv, HolderWorks, Works
  <2> QED BY <1>2, <2>5, <2>6, <2>8, <2>9, <2>10, OthersStay DEF InputInv
<1>4. CASE ~queue[1].asks
  <2>1. /\ inputHolder' = inputHolder /\ stage' = stage /\ todo' = todo
        /\ rising' = rising /\ down' = down /\ failed' = failed
    BY <1>1, <1>4
  <2>2. failed[c]
    BY <1>0, <1>a, <1>4 DEF InputInv, QueueOK
  <2>3. /\ pressed' \in [Callers -> SUBSET KeyNames] /\ landed' \in [Callers -> Nat]
        /\ landed'[c] = landed[c] + 1
        /\ \A d \in Callers \ {c} : pressed'[d] = pressed[d] /\ landed'[d] = landed[d]
    <3>1. /\ pressed \in [Callers -> SUBSET KeyNames] /\ landed \in [Callers -> Nat]
      BY DEF InputInv, InputRanges
    <3>2. After(pressed[c], batch) \subseteq KeyNames
      BY <1>2, <3>1, AfterKeys
    <3> QED BY <1>1, <1>2, <3>1, <3>2
  <2>4. /\ queue' \in Seq([by : Callers, batch : Batch, asks : BOOLEAN])
        /\ Len(queue') <= QueueMax /\ QueueOK' /\ NoneBetween'
    BY <1>a, <1>1, <1>2, <1>4, <2>1, <2>3, TakesUnasked
  <2>5. InputRanges'
    BY <1>1, <2>1, <2>3, <2>4 DEF InputInv, InputRanges
  <2>6. HolderWorks'
    BY <2>1 DEF InputInv, HolderWorks, Works
  <2>7. CallerOK(c)'
    <3>1. /\ Parts(c)' = Parts(c) /\ Combination(c)' = Combination(c)
          /\ \A n : Batches(c, n)' = Batches(c, n)
      BY <1>1, PartsStay
    <3>2. Part(c)' = Part(c) /\ Works(c)' = Works(c)
      BY <1>1, <2>1, <3>1 DEF Part, Works
    <3>3. AheadOK(c)
      BY <1>2, InvFacts DEF CallerOK
    <3>4. AheadOK(c)'
      BY <1>1, <2>1, <2>2, <3>1, <3>2, <3>3 DEF AheadOK
    <3>5. LandedOK(c)' /\ KeysOK(c)'
      BY <2>1, <2>2 DEF LandedOK, KeysOK
    <3>6. TurnsOnError(c)'
      BY <1>2, <2>1, <3>1, <3>2, InvFacts DEF CallerOK, TurnsOnError
    <3>7. CompletedOK(c)'
      <4>1. CompletedOK(c) /\ landed[c] \in Nat
        BY <1>2, InvFacts DEF CallerOK
      <4> QED BY <1>1, <2>3, <3>1, <4>1 DEF CompletedOK
    <3> QED BY <3>4, <3>5, <3>6, <3>7 DEF CallerOK
  <2>8. \A d \in Callers \ {c} : Same(d)
    BY <1>1, <2>1, <2>3 DEF Same
  <2> QED BY <1>2, <2>4, <2>5, <2>6, <2>7, <2>8, OthersStay DEF InputInv
<1> QED BY <1>3, <1>4

LEMMA InputStarts == InputInit => InputInv
<1> SUFFICES ASSUME InputInit PROVE InputInv
  OBVIOUS
<1>1. inputPlan \in InputPlans
  BY DEF InputInit
<1>2. /\ inputHolder = NoCaller /\ queue = <<>> /\ processor = "runs" /\ stalls = 0
      /\ stage = [c \in Callers |-> "waits"] /\ ahead = [c \in Callers |-> Parts(c)]
      /\ todo = [c \in Callers |-> <<>>] /\ rising = [c \in Callers |-> TRUE]
      /\ down = [c \in Callers |-> <<>>] /\ failed = [c \in Callers |-> FALSE]
      /\ completed = [c \in Callers |-> 0] /\ landed = [c \in Callers |-> 0]
      /\ pressed = [c \in Callers |-> {}]
  BY DEF InputInit
<1>3. InputRanges
  <2>1. \A c \in Callers : Parts(c) \in Seq(Seq(KeyNames) \cup Seq(Batch))
    BY <1>1, PlanFacts
  <2>2. /\ <<>> \in Seq(Batch) /\ <<>> \in Seq(KeyNames) /\ Len(<<>>) = 0
        /\ <<>> \in Seq([by : Callers, batch : Batch, asks : BOOLEAN])
    <3> HIDE DEF Batch
    <3> QED OBVIOUS
  <2> HIDE DEF Batch
  <2> QED BY <1>1, <1>2, <2>1, <2>2, InputAssumption DEF InputRanges
<1>4. HolderWorks /\ QueueOK /\ NoneBetween
  BY <1>2, InputAssumption DEF HolderWorks, QueueOK, NoneBetween, Works
<1>5. ASSUME NEW c \in Callers PROVE CallerOK(c)
  <2>1. Part(c) = 0 /\ ~Works(c) /\ stage[c] = "waits" /\ ~failed[c]
    BY <1>1, <1>2, PlanFacts DEF Part, Works
  <2>2. AheadOK(c)
    <3>1. ahead[c] = Parts(c) /\ Len(Parts(c)) \in Nat \ {0} /\ Parts(c) # <<>>
      BY <1>1, <1>2, PlanFacts, EmptySeq
    <3> QED BY <2>1, <3>1 DEF AheadOK
  <2>3. LandedOK(c) /\ CompletedOK(c)
    <3>1. Through(c, 0) = {} /\ IsFiniteSet(Through(c, 0)) /\ Batches(c, 0) = 0
      BY NothingSent DEF Batches
    <3>2. landed[c] = 0 /\ completed[c] = 0
      BY <1>2
    <3> QED BY <2>1, <3>1, <3>2 DEF LandedOK, CompletedOK
  <2>4. TurnsOnError(c) /\ KeysOK(c)
    BY <1>2, <2>1 DEF TurnsOnError, KeysOK
  <2> QED BY <2>2, <2>3, <2>4 DEF CallerOK
<1> QED BY <1>3, <1>4, <1>5 DEF InputInv

LEMMA InputSteps == InputInv /\ [InputNext]_inputVars => InputInv'
<1> SUFFICES ASSUME InputInv, [InputNext]_inputVars PROVE InputInv'
  OBVIOUS
<1>1. ASSUME NEW c \in Callers,
             TakesLock(c) \/ SendsBatch(c) \/ Turns(c) \/ LetsGo(c) \/ RunsOut(c)
      PROVE  InputInv'
  BY <1>1, TakesLockKeeps, SendsBatchKeeps, TurnsKeeps, LetsGoKeeps, RunsOutKeeps
<1>2. CASE Delivers \/ CannotEncode \/ ProcessorEnds
  BY <1>2, DeliversKeeps, CannotEncodeKeeps, ProcessorEndsKeeps
<1>3. CASE UNCHANGED inputVars
  <2>1. /\ inputPlan' = inputPlan /\ inputHolder' = inputHolder /\ stage' = stage
        /\ ahead' = ahead /\ todo' = todo /\ rising' = rising /\ down' = down
        /\ failed' = failed /\ completed' = completed /\ queue' = queue
        /\ processor' = processor /\ stalls' = stalls /\ pressed' = pressed
        /\ landed' = landed
    BY <1>3 DEF inputVars, callerVars, remoteVars
  <2>2. InputRanges' /\ HolderWorks' /\ QueueOK'
    BY <2>1 DEF InputInv, InputRanges, HolderWorks, QueueOK, Works
  <2>3. NoneBetween'
    BY <2>1, PartsStay DEF InputInv, NoneBetween
  <2>4. \A c \in Callers : CallerOK(c)'
    BY <2>1, SameStays DEF InputInv, Same
  <2> QED BY <2>2, <2>3, <2>4 DEF InputInv
<1> QED BY <1>1, <1>2, <1>3 DEF InputNext

LEMMA InputInvHolds == InputSpec => []InputInv
BY InputStarts, InputSteps, PTL DEF InputSpec

(* The types of the input path, with the lock, the waits and the queue's   *)
(* capacity.                                                               *)
THEOREM InputTypeCorrect == InputSpec => []InputTypeOK
<1>1. InputInv => InputTypeOK
  <2> SUFFICES ASSUME InputInv PROVE InputTypeOK
    OBVIOUS
  <2>1. /\ inputPlan \in InputPlans /\ inputHolder \in Callers \cup {NoCaller}
        /\ stage \in [Callers -> {"waits", "sends", "asks", "done"}]
        /\ \A c \in Callers : rising[c] \in BOOLEAN /\ failed[c] \in BOOLEAN
        /\ Len(queue) <= QueueMax /\ stalls \in 0..MaxStalls
        /\ processor \in {"runs", "ended"}
    BY DEF InputInv, InputRanges
  <2>2. inputHolder # NoCaller => stage[inputHolder] \in {"sends", "asks"}
    BY <2>1 DEF InputInv, HolderWorks, Works
  <2>3. \A i \in DOMAIN queue : queue[i].asks => stage[queue[i].by] = "asks"
    BY DEF InputInv, QueueOK
  <2>4. stalls <= MaxStalls
    BY <2>1, InputAssumption
  <2> QED BY <2>1, <2>2, <2>3, <2>4 DEF InputTypeOK
<1> QED BY <1>1, InputInvHolds, PTL

(* A caller told that its input was sent finds all of it at the socket and *)
(* every key up again, and the count of a failed sequence is of            *)
(* combinations that were sent: for any callers, operations and queue.     *)
THEOREM ToldInputIsLanded == InputSpec => []ToldIsLanded
<1>1. InputInv => ToldIsLanded
  <2> SUFFICES ASSUME InputInv, NEW c \in Callers, stage[c] = "done"
               PROVE  /\ ~failed[c] => landed[c] = Batches(c, Len(Parts(c)))
                      /\ Combination(c) => /\ ~failed[c] => pressed[c] = {}
                                           /\ landed[c] >= Batches(c, completed[c])
    BY DEF ToldIsLanded
  <2>1. ~Works(c)
    BY DEF Works
  <2>2. ~failed[c] => Part(c) = Len(Parts(c))
    <3>1. Len(Parts(c)) \in Nat
      BY InvFacts, PlanFacts DEF InputRanges
    <3>2. ~failed[c] => Len(ahead[c]) = 0
      BY EmptySeq, InvFacts DEF CallerOK, AheadOK
    <3> QED BY <3>1, <3>2 DEF Part
  <2>3. ~failed[c] => landed[c] = Batches(c, Part(c))
    BY <2>1, InvFacts DEF CallerOK, LandedOK
  <2>4. Combination(c) => /\ ~failed[c] => pressed[c] = {}
                          /\ landed[c] >= Batches(c, completed[c])
    BY <2>1, InvFacts DEF CallerOK, KeysOK, CompletedOK
  <2> QED BY <2>2, <2>3, <2>4
<1> QED BY <1>1, InputInvHolds, PTL

(* Nobody else's input reaches the remote desktop between the first press  *)
(* and the last release of a combination without an error, whatever was    *)
(* left in the queue by callers that gave up: for any callers, operations  *)
(* and queue.                                                              *)
THEOREM CombosAreUnbroken == InputSpec => ComboUnbroken
<1> DEFINE Unbroken ==
      \A c, d \in Callers :
          landed'[c] # landed[c] /\ d # c /\ Combination(d) /\ ~failed[d]
              => pressed[d] = {}
<1>1. InputInv /\ [InputNext]_inputVars => [Unbroken]_inputVars
  <2> SUFFICES ASSUME InputInv, InputNext, NEW c \in Callers, NEW d \in Callers,
                      landed'[c] # landed[c], d # c, Combination(d), ~failed[d]
               PROVE  pressed[d] = {}
    OBVIOUS
  <2>1. Delivers
    BY DEF InputNext, TakesLock, SendsBatch, Turns, LetsGo, RunsOut, CannotEncode,
           ProcessorEnds, remoteVars
  <2>2. queue # <<>> /\ landed' = [landed EXCEPT ![Head(queue).by] = landed[Head(queue).by] + 1]
    BY <2>1 DEF Delivers
  <2>3. Head(queue) = queue[1] /\ 1 \in DOMAIN queue
    <3> HIDE DEF Batch
    <3> QED BY <2>2, QueueTyped, HeadTailProperties, EmptySeq
  <2>4. queue[1].by = c
    BY <2>2, <2>3 DEF InputInv, InputRanges
  <2> QED BY <2>3, <2>4 DEF InputInv, NoneBetween
<1> QED BY <1>1, InputInvHolds, PTL DEF InputSpec, ComboUnbroken

-----------------------------------------------------------------------------
(* ScreenText: the inductive invariant.                                    *)

(* What a request reads of the desktop.                                    *)
RegionFor(a) ==
  IF a.kind = "clickAt" THEN ClampTo(WindowAround(Target(a), a.window), DesktopSize)
  ELSE RegionOf(a)

LookFields ==
  look = [phase |-> look.phase, verdict |-> look.verdict, crop |-> look.crop, frame |-> look.frame,
          blank |-> look.blank, seq |-> look.seq, pixels |-> look.pixels, from |-> look.from,
          matches |-> look.matches, point |-> look.point, passes |-> look.passes]

LookRanges ==
  /\ look.phase \in {"asked", "numbered", "read", "located", "judged", "done"}
  /\ (look.phase = "done") = (look.verdict # "none")
  /\ look.passes \in 1 .. MaxPasses
  /\ look.frame \in Pictures \cup {{}}
  /\ look.crop # None => /\ look.crop.x + look.crop.w <= DesktopSize.w
                         /\ look.crop.y + look.crop.h <= DesktopSize.h

DeskRanges ==
  /\ ask \in ScreenAsks /\ login \in 0 .. MaxLogins /\ dropped \in BOOLEAN
  /\ screen.seq \in 0 .. MaxPaints /\ screen.boxes \in Pictures \cup {{}}

(* What a pass has read of the picture.                                    *)
Legible == look.frame \ look.blank

(* Of what a phase leaves behind, the next one needs this.                 *)
LookStands ==
  /\ look.phase = "numbered" => ask.kind = "shot" /\ RegionOf(ask) # None
  /\ look.phase = "read" =>
       /\ look.crop = RegionFor(ask) /\ RegionFor(ask) # None
       /\ \/ ask.kind = "locate"
          \/ ask.kind = "clickAt" /\ ~Diverges(ask) /\ ~OffDesktop(Target(ask))
  /\ look.phase = "located" => /\ ask.kind = "locate"
                               /\ \A b \in look.matches : WellJudged(Center(b), Legible)
  /\ look.phase \in {"read", "located", "judged"} =>
       look.blank \subseteq ShowInPart(look.frame, look.crop)

(* The point of a click that was decided on is right for the picture.      *)
JudgedWell == look.phase = "judged" => WellJudged(look.point, Legible)

ScreenInv ==
  /\ DeskRanges /\ LookFields /\ LookRanges /\ LookStands /\ JudgedWell /\ ClicksJudged

-----------------------------------------------------------------------------
(* ScreenText: boxes and points.                                           *)

BoxType(b) == b.x \in Int /\ b.y \in Int /\ b.w \in Nat \ {0} /\ b.h \in Nat \ {0}

SpotType(p) == p.x \in Int /\ p.y \in Int

(* A point is near a box when it is near it in both directions.            *)
LEMMA RectWithin ==
  ASSUME NEW b, BoxType(b), NEW p, SpotType(p), NEW d \in Nat
  PROVE  RectDistance(b, p) <= d <=>
           /\ b.x - d <= p.x /\ p.x <= b.x + b.w + d
           /\ b.y - d <= p.y /\ p.y <= b.y + b.h + d
BY DEF RectDistance, Larger, BoxType, SpotType

LEMMA RectInside ==
  ASSUME NEW b, BoxType(b), NEW p, SpotType(p)
  PROVE  RectDistance(b, p) = 0 <=>
           b.x <= p.x /\ p.x <= b.x + b.w /\ b.y <= p.y /\ p.y <= b.y + b.h
BY DEF RectDistance, Larger, BoxType, SpotType

LEMMA Halves ==
  ASSUME NEW n \in Nat
  PROVE  n \div 2 \in Nat /\ 2 * (n \div 2) <= n /\ n <= 2 * (n \div 2) + 1
OBVIOUS

LEMMA CenterInside ==
  ASSUME NEW b, BoxType(b)
  PROVE  SpotType(Center(b)) /\ RectDistance(b, Center(b)) = 0
<1>1. /\ b.w \div 2 \in Nat /\ b.w \div 2 <= b.w
      /\ b.h \div 2 \in Nat /\ b.h \div 2 <= b.h
  BY Halves DEF BoxType
<1>2. Center(b).x = b.x + b.w \div 2 /\ Center(b).y = b.y + b.h \div 2
  BY DEF Center
<1>3. SpotType(Center(b))
  BY <1>1, <1>2 DEF BoxType, SpotType
<1> QED
  BY <1>1, <1>2, <1>3, RectInside DEF BoxType

(* Half way between two points is no further from either than they are     *)
(* from each other.                                                        *)
LEMMA MidpointBetween ==
  ASSUME NEW p, p.x \in Nat, p.y \in Nat, NEW q, q.x \in Nat, q.y \in Nat
  PROVE  /\ Midpoint(p, q).x \in Nat /\ Midpoint(p, q).y \in Nat
         /\ PointDistance(Midpoint(p, q), p) <= PointDistance(p, q)
         /\ PointDistance(Midpoint(p, q), q) <= PointDistance(p, q)
         /\ PointDistance(p, q) \in Nat
         /\ PointDistance(Midpoint(p, q), p) \in Nat /\ PointDistance(Midpoint(p, q), q) \in Nat
<1> DEFINE x == Midpoint(p, q).x
           y == Midpoint(p, q).y
<1>1. /\ x \in Nat /\ 2 * x <= p.x + q.x /\ p.x + q.x <= 2 * x + 1
      /\ y \in Nat /\ 2 * y <= p.y + q.y /\ p.y + q.y <= 2 * y + 1
  <2>1. x = (p.x + q.x) \div 2 /\ y = (p.y + q.y) \div 2
    BY DEF Midpoint
  <2>2. p.x + q.x \in Nat /\ p.y + q.y \in Nat
    OBVIOUS
  <2> QED
    BY <2>1, <2>2, Halves
<1> HIDE DEF x, y
<1>2. /\ Apart(x, p.x) <= Apart(p.x, q.x) /\ Apart(x, q.x) <= Apart(p.x, q.x)
      /\ Apart(y, p.y) <= Apart(p.y, q.y) /\ Apart(y, q.y) <= Apart(p.y, q.y)
      /\ Apart(x, p.x) \in Nat /\ Apart(x, q.x) \in Nat /\ Apart(p.x, q.x) \in Nat
      /\ Apart(y, p.y) \in Nat /\ Apart(y, q.y) \in Nat /\ Apart(p.y, q.y) \in Nat
  BY <1>1 DEF Apart, Larger
<1>3. /\ PointDistance(Midpoint(p, q), p) = Larger(Apart(x, p.x), Apart(y, p.y))
      /\ PointDistance(Midpoint(p, q), q) = Larger(Apart(x, q.x), Apart(y, q.y))
      /\ PointDistance(p, q) = Larger(Apart(p.x, q.x), Apart(p.y, q.y))
  BY DEF PointDistance, x, y
<1> HIDE DEF PointDistance
<1>4. /\ PointDistance(Midpoint(p, q), p) <= PointDistance(p, q)
      /\ PointDistance(Midpoint(p, q), q) <= PointDistance(p, q)
      /\ PointDistance(p, q) \in Nat
      /\ PointDistance(Midpoint(p, q), p) \in Nat /\ PointDistance(Midpoint(p, q), q) \in Nat
  BY <1>2, <1>3 DEF Larger
<1> QED
  BY <1>1, <1>4 DEF x, y

(* Sets with at most one element.                                          *)
LEMMA AtMostOneMeansEqual ==
  ASSUME NEW S, IsFiniteSet(S), Cardinality(S) <= 1, NEW a \in S, NEW b \in S
  PROVE  a = b
<1>1. IsFiniteSet(S \ {a}) /\ Cardinality(S \ {a}) = Cardinality(S) - 1
  BY FS_RemoveElement
<1>2. Cardinality(S) \in Nat /\ Cardinality(S \ {a}) \in Nat
  BY <1>1, FS_CardinalityType
<1>3. Cardinality(S \ {a}) = 0
  BY <1>1, <1>2
<1>4. S \ {a} = {}
  BY <1>1, <1>3, FS_EmptySet
<1> QED
  BY <1>4

LEMMA EqualMeansAtMostOne ==
  ASSUME NEW S, \A a, b \in S : a = b
  PROVE  Cardinality(S) <= 1
<1>1. CASE S = {}
  BY <1>1, FS_EmptySet
<1>2. CASE S # {}
  <2>1. PICK a \in S : S = {a}
    BY <1>2
  <2> QED
    BY <2>1, FS_Singleton
<1> QED
  BY <1>1, <1>2

-----------------------------------------------------------------------------
(* ScreenText: what a command crops and what is recognised of it.          *)

OnDesktop(r) ==
  /\ r.x \in Nat /\ r.w \in Nat \ {0} /\ r.x + r.w <= DesktopSize.w
  /\ r.y \in Nat /\ r.h \in Nat \ {0} /\ r.y + r.h <= DesktopSize.h

LEMMA DesktopBoxes == \A r : OnDesktop(r) => BoxType(r)
BY DEF OnDesktop, BoxType

LEMMA ClampFacts ==
  ASSUME NEW r, r.x \in Nat, r.y \in Nat, r.w \in Nat, r.h \in Nat,
         ClampTo(r, DesktopSize) # None
  PROVE  LET c == ClampTo(r, DesktopSize) IN
         /\ OnDesktop(c)
         /\ c.x = Smaller(r.x, DesktopSize.w) /\ c.x + c.w = Smaller(r.x + r.w, DesktopSize.w)
         /\ c.y = Smaller(r.y, DesktopSize.h) /\ c.y + c.h = Smaller(r.y + r.h, DesktopSize.h)
<1> DEFINE x == Smaller(r.x, DesktopSize.w)
           y == Smaller(r.y, DesktopSize.h)
           right == Smaller(r.x + r.w, DesktopSize.w)
           bottom == Smaller(r.y + r.h, DesktopSize.h)
<1>1. ~(right <= x \/ bottom <= y)
      /\ ClampTo(r, DesktopSize) = [x |-> x, y |-> y, w |-> right - x, h |-> bottom - y]
  BY DEF ClampTo
<1>2. /\ x \in Nat /\ right \in Nat /\ right <= DesktopSize.w
      /\ y \in Nat /\ bottom \in Nat /\ bottom <= DesktopSize.h
  BY ScreenAssumption DEF ScreenAssumption, Smaller
<1> HIDE DEF x, y, right, bottom
<1>3. /\ right - x \in Nat \ {0} /\ x + (right - x) = right
      /\ bottom - y \in Nat \ {0} /\ y + (bottom - y) = bottom
  BY <1>1, <1>2
<1>4. OnDesktop([x |-> x, y |-> y, w |-> right - x, h |-> bottom - y])
  BY <1>2, <1>3 DEF OnDesktop
<1> QED
  BY <1>1, <1>3, <1>4 DEF x, y, right, bottom

LEMMA WholeDesktopFacts == WholeDesktop # None /\ OnDesktop(WholeDesktop)
<1>1. OnDesktop(WholeDesktop)
  BY ScreenAssumption DEF ScreenAssumption, WholeDesktop, OnDesktop
<1>2. WholeDesktop # None
  BY DEF WholeDesktop, None
<1> QED
  BY <1>1, <1>2

(* What the recogniser makes of a box, in the desktop's coordinates: the   *)
(* part of it inside the crop.                                             *)
Sight(b, crop) ==
  [x |-> Larger(b.x, crop.x), y |-> Larger(b.y, crop.y),
   w |-> Smaller(b.x + b.w, crop.x + crop.w) - Larger(b.x, crop.x),
   h |-> Smaller(b.y + b.h, crop.y + crop.h) - Larger(b.y, crop.y),
   text |-> CutTo(b, crop).text, of |-> b]

SightsOf(boxes, crop) ==
  {s \in {Sight(b, crop) : b \in boxes} : s.w > 0 /\ s.h > 0}

MovedBack(c, crop) == [c EXCEPT !.x = @ + crop.x, !.y = @ + crop.y]

LEMMA MovedFields ==
  ASSUME NEW x, NEW y, NEW w, NEW h, NEW t, NEW b, NEW crop,
         NEW c, c = [x |-> x, y |-> y, w |-> w, h |-> h, text |-> t, of |-> b]
  PROVE  MovedBack(c, crop)
         = [x |-> x + crop.x, y |-> y + crop.y, w |-> w, h |-> h, text |-> t, of |-> b]
<1> DEFINE d == [c EXCEPT !.x = c.x + crop.x]
<1>1. d = [x |-> x + crop.x, y |-> y, w |-> w, h |-> h, text |-> t, of |-> b]
  OBVIOUS
<1>2. d.y = y /\ c.y = y
  BY <1>1
<1>3. MovedBack(c, crop) = [d EXCEPT !.y = c.y + crop.y]
  BY DEF MovedBack
<1> HIDE DEF d
<1> QED
  BY <1>1, <1>2, <1>3

LEMMA ShiftedBack ==
  ASSUME NEW b, BoxType(b), NEW crop, BoxType(crop)
  PROVE  /\ MovedBack(CutTo(b, crop), crop) = Sight(b, crop)
         /\ CutTo(b, crop).w = Sight(b, crop).w /\ CutTo(b, crop).h = Sight(b, crop).h
<1> DEFINE left == Larger(b.x, crop.x)
           top == Larger(b.y, crop.y)
           w == Smaller(b.x + b.w, crop.x + crop.w) - left
           h == Smaller(b.y + b.h, crop.y + crop.h) - top
           t == CutTo(b, crop).text
<1>1. CutTo(b, crop) = [x |-> left - crop.x, y |-> top - crop.y, w |-> w, h |-> h,
                        text |-> t, of |-> b]
  BY DEF CutTo
<1>2. Sight(b, crop) = [x |-> left, y |-> top, w |-> w, h |-> h, text |-> t, of |-> b]
  BY DEF Sight
<1>3. left - crop.x + crop.x = left /\ top - crop.y + crop.y = top
  BY DEF BoxType, Larger
<1> HIDE DEF left, top, w, h, t
<1>4. MovedBack(CutTo(b, crop), crop)
      = [x |-> left - crop.x + crop.x, y |-> top - crop.y + crop.y, w |-> w, h |-> h,
         text |-> t, of |-> b]
  BY <1>1, MovedFields
<1>5. CutTo(b, crop).w = w /\ CutTo(b, crop).h = h /\ Sight(b, crop).w = w /\ Sight(b, crop).h = h
  BY <1>1, <1>2
<1> QED
  BY <1>2, <1>3, <1>4, <1>5

LEMMA SeenAreSights ==
  ASSUME NEW boxes, \A b \in boxes : BoxType(b), NEW crop, BoxType(crop)
  PROVE  OffsetMatches(Detects(boxes, crop), crop) = SightsOf(boxes, crop)
<1>1. \A b \in boxes : /\ MovedBack(CutTo(b, crop), crop) = Sight(b, crop)
                       /\ CutTo(b, crop).w = Sight(b, crop).w
                       /\ CutTo(b, crop).h = Sight(b, crop).h
  BY ShiftedBack
<1>2. Detects(boxes, crop) = {c \in {CutTo(b, crop) : b \in boxes} : c.w > 0 /\ c.h > 0}
  BY DEF Detects
<1>3. OffsetMatches(Detects(boxes, crop), crop)
      = {MovedBack(c, crop) : c \in Detects(boxes, crop)}
  BY DEF OffsetMatches, MovedBack
<1>4. ASSUME NEW s \in OffsetMatches(Detects(boxes, crop), crop)
      PROVE  s \in SightsOf(boxes, crop)
  <2>1. PICK c \in Detects(boxes, crop) : s = MovedBack(c, crop)
    BY <1>3
  <2>2. PICK b \in boxes : c = CutTo(b, crop) /\ c.w > 0 /\ c.h > 0
    BY <1>2
  <2>3. s = Sight(b, crop) /\ s.w > 0 /\ s.h > 0
    BY <1>1, <2>1, <2>2
  <2> QED
    BY <2>3 DEF SightsOf
<1>5. ASSUME NEW s \in SightsOf(boxes, crop)
      PROVE  s \in OffsetMatches(Detects(boxes, crop), crop)
  <2>1. PICK b \in boxes : s = Sight(b, crop) /\ s.w > 0 /\ s.h > 0
    BY DEF SightsOf
  <2>2. CutTo(b, crop) \in Detects(boxes, crop) /\ s = MovedBack(CutTo(b, crop), crop)
    BY <1>1, <1>2, <2>1
  <2> QED
    BY <1>3, <2>2
<1> QED
  BY <1>4, <1>5

(* What is seen of a box lies in the box; its text is that of the box, and *)
(* then it is the whole box, or cannot be read.                            *)
LEMMA SightFacts ==
  ASSUME NEW b, BoxType(b), NEW crop, BoxType(crop),
         Sight(b, crop).w > 0, Sight(b, crop).h > 0
  PROVE  LET s == Sight(b, crop) IN
         /\ BoxType(s) /\ s.of = b
         /\ b.x <= s.x /\ s.x + s.w <= b.x + b.w
         /\ b.y <= s.y /\ s.y + s.h <= b.y + b.h
         /\ s.text # Unread =>
              s.text = b.text /\ s.x = b.x /\ s.w = b.w /\ s.y = b.y /\ s.h = b.h
<1> DEFINE left == Larger(b.x, crop.x)
           top == Larger(b.y, crop.y)
           right == Smaller(b.x + b.w, crop.x + crop.w)
           bottom == Smaller(b.y + b.h, crop.y + crop.h)
           t == CutTo(b, crop).text
<1>1. Sight(b, crop) = [x |-> left, y |-> top, w |-> right - left, h |-> bottom - top,
                        text |-> t, of |-> b]
  BY DEF Sight
<1>2. t = IF right - left = b.w /\ bottom - top = b.h THEN b.text ELSE Unread
  BY DEF CutTo
<1>3. /\ left \in Int /\ right \in Int /\ b.x <= left /\ right <= b.x + b.w
      /\ top \in Int /\ bottom \in Int /\ b.y <= top /\ bottom <= b.y + b.h
  BY DEF BoxType, Larger, Smaller
<1> HIDE DEF left, top, right, bottom, t
<1>4. right - left > 0 /\ bottom - top > 0
  BY <1>1
<1>5. /\ right - left \in Nat \ {0} /\ bottom - top \in Nat \ {0}
      /\ left + (right - left) <= b.x + b.w /\ top + (bottom - top) <= b.y + b.h
  BY <1>3, <1>4 DEF BoxType
<1>6. right - left = b.w => left = b.x
  BY <1>3 DEF BoxType
<1>7. bottom - top = b.h => top = b.y
  BY <1>3 DEF BoxType
<1>8. BoxType(Sight(b, crop)) /\ Sight(b, crop).of = b
  BY <1>1, <1>3, <1>5 DEF BoxType
<1> QED
  BY <1>1, <1>2, <1>3, <1>5, <1>6, <1>7, <1>8

LEMMA FiniteSights ==
  ASSUME NEW boxes, IsFiniteSet(boxes), NEW crop
  PROVE  IsFiniteSet(SightsOf(boxes, crop))
<1> DEFINE T == {Sight(b, crop) : b \in boxes}
           f == [b \in boxes |-> Sight(b, crop)]
<1>1. f \in Surjection(boxes, T)
  BY DEF Surjection
<1>2. IsFiniteSet(T)
  BY <1>1, FS_Surjection
<1>3. SightsOf(boxes, crop) \in SUBSET T
  BY DEF SightsOf
<1> QED
  BY <1>2, <1>3, FS_Subset

-----------------------------------------------------------------------------
(* ScreenText: judging a click-at.                                         *)

LEMMA PictureFacts ==
  ASSUME NEW picture \in Pictures \cup {{}}, NEW boxes \in SUBSET picture
  PROVE  /\ IsFiniteSet(boxes)
         /\ \A b \in boxes : OnDesktop(b) /\ BoxType(b) /\ b.text # Unread
<1>1. CASE picture \in Pictures
  <2>1. /\ IsFiniteSet(picture)
        /\ \A b \in picture : OnDesktop(b) /\ BoxType(b) /\ b.text # Unread
    BY <1>1, PicturesAssumption, DesktopBoxes DEF PicturesAssumption, OnDesktop
  <2> QED
    BY <2>1, FS_Subset
<1>2. CASE picture = {}
  BY <1>2, FS_EmptySet
<1> QED
  BY <1>1, <1>2

(* In one direction: what lies within the gap of the point shows in the    *)
(* window, and the part that shows lies within the gap too.                *)
InWindow(size, span, p, gap, x, w, from, to) ==
  /\ size \in Nat /\ p \in Nat /\ p < size /\ span \in Nat
  /\ gap \in Nat /\ gap < span \div 2
  /\ x \in Nat /\ w \in Nat \ {0} /\ x + w <= size
  /\ x - gap <= p /\ p <= x + w + gap
  /\ from = Smaller(Less(p, span \div 2), size)
  /\ to = Smaller(Less(p, span \div 2) + span, size)

LEMMA ShowsInWindow ==
  ASSUME NEW size, NEW span, NEW p, NEW gap, NEW x, NEW w, NEW from, NEW to,
         InWindow(size, span, p, gap, x, w, from, to)
  PROVE  LET left == Larger(x, from)
             right == Smaller(x + w, to)
         IN right - left > 0 /\ left - gap <= p /\ p <= left + (right - left) + gap
<1> USE DEF InWindow
<1>1. PICK half \in Nat : half = span \div 2 /\ 2 * half <= span
  BY Halves
<1>2. /\ from = Smaller(Less(p, half), size) /\ to = Smaller(Less(p, half) + span, size)
      /\ gap < half
  BY <1>1
<1>3. /\ Less(p, half) \in Nat /\ Less(p, half) <= p /\ p < Less(p, half) + span - gap
      /\ Less(p, half) = 0 \/ Less(p, half) = p - half
  BY <1>1, <1>2 DEF Less, Larger
<1>4. PICK start \in Nat : start = Less(p, half)
  BY <1>3
<1>5. from = start /\ (to = size \/ (to = start + span /\ to <= size))
  BY <1>2, <1>3, <1>4 DEF Smaller
<1>6. from \in Nat /\ to \in Nat /\ p < to
  BY <1>3, <1>4, <1>5
<1>7. x < to
  BY <1>3, <1>4, <1>5
<1>8. from < x + w
  BY <1>2, <1>3, <1>4, <1>5
<1>9. from <= p
  BY <1>3, <1>4, <1>5
<1> HIDE DEF Smaller
<1> QED
  BY <1>6, <1>7, <1>8, <1>9 DEF Larger, Smaller

ClickWindow(a) == ClampTo(WindowAround(Target(a), a.window), DesktopSize)

LEMMA TargetFacts ==
  ASSUME NEW a \in ScreenAsks, a.kind = "clickAt", ~Diverges(a)
  PROVE  /\ Target(a).x \in Nat /\ Target(a).y \in Nat
         /\ a.confirm # None => /\ PointDistance(Target(a), a.at) <= a.maxDivergence
                                /\ PointDistance(Target(a), a.confirm) <= a.maxDivergence
<1>1. /\ a.at.x \in Nat /\ a.at.y \in Nat /\ a.maxDivergence \in Nat
      /\ a.confirm # None => a.confirm.x \in Nat /\ a.confirm.y \in Nat
  BY AsksAssumption DEF AsksAssumption
<1>2. CASE a.confirm = None
  BY <1>1, <1>2 DEF Target
<1>3. CASE a.confirm # None
  <2>1. Target(a) = Midpoint(a.at, a.confirm)
    BY <1>3 DEF Target
  <2>2. ~(PointDistance(a.at, a.confirm) > a.maxDivergence)
    BY <1>3 DEF Diverges
  <2>3. /\ Midpoint(a.at, a.confirm).x \in Nat /\ Midpoint(a.at, a.confirm).y \in Nat
        /\ PointDistance(Midpoint(a.at, a.confirm), a.at) <= PointDistance(a.at, a.confirm)
        /\ PointDistance(Midpoint(a.at, a.confirm), a.confirm) <= PointDistance(a.at, a.confirm)
        /\ PointDistance(a.at, a.confirm) \in Nat
        /\ PointDistance(Midpoint(a.at, a.confirm), a.at) \in Nat
        /\ PointDistance(Midpoint(a.at, a.confirm), a.confirm) \in Nat
    BY <1>1, <1>3, MidpointBetween
  <2>4. PointDistance(a.at, a.confirm) <= a.maxDivergence
    BY <1>1, <2>2, <2>3
  <2> QED
    BY <1>1, <2>1, <2>3, <2>4
<1> QED
  BY <1>2, <1>3

LEMMA WindowFacts ==
  ASSUME NEW a \in ScreenAsks, a.kind = "clickAt", ~Diverges(a), ~OffDesktop(Target(a))
  PROVE  LET p == Target(a)
             c == ClickWindow(a)
             x == Less(p.x, a.window.w \div 2)
             y == Less(p.y, a.window.h \div 2)
         IN /\ c # None /\ OnDesktop(c)
            /\ c.x = Smaller(x, DesktopSize.w) /\ c.x + c.w = Smaller(x + a.window.w, DesktopSize.w)
            /\ c.y = Smaller(y, DesktopSize.h) /\ c.y + c.h = Smaller(y + a.window.h, DesktopSize.h)
<1> DEFINE p == Target(a)
           r == WindowAround(p, a.window)
<1>1. p.x \in Nat /\ p.y \in Nat /\ p.x < DesktopSize.w /\ p.y < DesktopSize.h
  BY TargetFacts, ScreenAssumption DEF ScreenAssumption, OffDesktop
<1>2. /\ a.window.w \in Nat /\ a.gap \in Nat /\ a.gap < a.window.w \div 2
      /\ a.window.h \in Nat /\ a.gap < a.window.h \div 2
  BY AsksAssumption DEF AsksAssumption
<1>3. /\ r.x = Less(p.x, a.window.w \div 2) /\ r.w = a.window.w
      /\ r.y = Less(p.y, a.window.h \div 2) /\ r.h = a.window.h
  BY DEF WindowAround
<1>4. /\ a.window.w \div 2 \in Nat /\ 2 * (a.window.w \div 2) <= a.window.w
      /\ a.window.h \div 2 \in Nat /\ 2 * (a.window.h \div 2) <= a.window.h
  BY <1>2, Halves
<1> HIDE DEF p, r
<1>5. /\ r.x \in Nat /\ r.x <= p.x /\ r.w \in Nat \ {0}
      /\ r.y \in Nat /\ r.y <= p.y /\ r.h \in Nat \ {0}
  BY <1>1, <1>2, <1>3, <1>4 DEF Less, Larger
<1>6. /\ ~(Smaller(r.x + r.w, DesktopSize.w) <= Smaller(r.x, DesktopSize.w))
      /\ ~(Smaller(r.y + r.h, DesktopSize.h) <= Smaller(r.y, DesktopSize.h))
  BY <1>1, <1>5, ScreenAssumption DEF ScreenAssumption, Smaller
<1>7. ClampTo(r, DesktopSize) # None
  BY <1>6 DEF ClampTo, None
<1>8. ClickWindow(a) = ClampTo(r, DesktopSize)
  BY DEF ClickWindow, p, r
<1> QED
  BY <1>3, <1>5, <1>7, <1>8, ClampFacts DEF p

LEMMA NearIsSeen ==
  ASSUME NEW a \in ScreenAsks, a.kind = "clickAt", ~Diverges(a), ~OffDesktop(Target(a)),
         NEW b, OnDesktop(b), RectDistance(b, Target(a)) <= a.gap
  PROVE  LET s == Sight(b, ClickWindow(a)) IN
         s.w > 0 /\ s.h > 0 /\ RectDistance(s, Target(a)) <= a.gap
<1> DEFINE p == Target(a)
           c == ClickWindow(a)
           s == Sight(b, c)
<1>1. p.x \in Nat /\ p.y \in Nat /\ p.x < DesktopSize.w /\ p.y < DesktopSize.h
  BY TargetFacts, ScreenAssumption DEF ScreenAssumption, OffDesktop
<1>2. /\ a.window.w \in Nat /\ a.gap \in Nat /\ a.gap < a.window.w \div 2
      /\ a.window.h \in Nat /\ a.gap < a.window.h \div 2
  BY AsksAssumption DEF AsksAssumption
<1>3. /\ c.x = Smaller(Less(p.x, a.window.w \div 2), DesktopSize.w)
      /\ c.x + c.w = Smaller(Less(p.x, a.window.w \div 2) + a.window.w, DesktopSize.w)
      /\ c.y = Smaller(Less(p.y, a.window.h \div 2), DesktopSize.h)
      /\ c.y + c.h = Smaller(Less(p.y, a.window.h \div 2) + a.window.h, DesktopSize.h)
      /\ OnDesktop(c)
  BY WindowFacts
<1>4. BoxType(b) /\ BoxType(c) /\ SpotType(p)
  BY <1>1, <1>3, DesktopBoxes DEF SpotType
<1>5. RectDistance(b, p) <= a.gap
  OBVIOUS
<1> HIDE DEF p, c, s
<1>6. /\ b.x - a.gap <= p.x /\ p.x <= b.x + b.w + a.gap
      /\ b.y - a.gap <= p.y /\ p.y <= b.y + b.h + a.gap
  BY <1>2, <1>4, <1>5, RectWithin
<1>7. /\ s.x = Larger(b.x, c.x) /\ s.w = Smaller(b.x + b.w, c.x + c.w) - Larger(b.x, c.x)
      /\ s.y = Larger(b.y, c.y) /\ s.h = Smaller(b.y + b.h, c.y + c.h) - Larger(b.y, c.y)
  BY DEF Sight, s
<1>8. s.w > 0 /\ s.x - a.gap <= p.x /\ p.x <= s.x + s.w + a.gap
  <2>1. DesktopSize.w \in Nat
    BY ScreenAssumption DEF ScreenAssumption
  <2>2. b.x \in Nat /\ b.w \in Nat \ {0} /\ b.x + b.w <= DesktopSize.w
    BY DEF OnDesktop
  <2>3. InWindow(DesktopSize.w, a.window.w, p.x, a.gap, b.x, b.w, c.x, c.x + c.w)
    BY <1>1, <1>2, <1>3, <1>6, <2>1, <2>2 DEF InWindow
  <2>4. /\ Smaller(b.x + b.w, c.x + c.w) - Larger(b.x, c.x) > 0
        /\ Larger(b.x, c.x) - a.gap <= p.x
        /\ p.x <= Larger(b.x, c.x)
                     + (Smaller(b.x + b.w, c.x + c.w) - Larger(b.x, c.x)) + a.gap
    BY <2>3, ShowsInWindow
  <2> QED
    BY <1>7, <2>4
<1>9. s.h > 0 /\ s.y - a.gap <= p.y /\ p.y <= s.y + s.h + a.gap
  <2>1. DesktopSize.h \in Nat
    BY ScreenAssumption DEF ScreenAssumption
  <2>2. b.y \in Nat /\ b.h \in Nat \ {0} /\ b.y + b.h <= DesktopSize.h
    BY DEF OnDesktop
  <2>3. InWindow(DesktopSize.h, a.window.h, p.y, a.gap, b.y, b.h, c.y, c.y + c.h)
    BY <1>1, <1>2, <1>3, <1>6, <2>1, <2>2 DEF InWindow
  <2>4. /\ Smaller(b.y + b.h, c.y + c.h) - Larger(b.y, c.y) > 0
        /\ Larger(b.y, c.y) - a.gap <= p.y
        /\ p.y <= Larger(b.y, c.y)
                     + (Smaller(b.y + b.h, c.y + c.h) - Larger(b.y, c.y)) + a.gap
    BY <2>3, ShowsInWindow
  <2> QED
    BY <1>7, <2>4
<1>10. BoxType(s)
  BY <1>4, <1>8, <1>9, SightFacts DEF s
<1>11. RectDistance(s, p) <= a.gap
  BY <1>2, <1>4, <1>8, <1>9, <1>10, RectWithin
<1> QED
  BY <1>8, <1>9, <1>11 DEF p, c, s

(* Boxes of the picture that are near the point are all in the window,     *)
(* each seen as a box of its own.                                          *)
LEMMA SafeIsWell ==
  ASSUME ask \in ScreenAsks, ask.kind = "clickAt", ~Diverges(ask), ~OffDesktop(Target(ask)),
         NEW picture \in Pictures \cup {{}}, NEW boxes \in SUBSET picture,
         Ambiguous(SightsOf(boxes, ClickWindow(ask)), Target(ask), ask.gap) = {}
  PROVE  WellJudged(Target(ask), boxes)
<1> DEFINE p == Target(ask)
           c == ClickWindow(ask)
           near == {s \in SightsOf(boxes, c) : RectDistance(s, p) <= ask.gap}
           close == {b \in boxes : RectDistance(b, p) <= ask.gap}
<1>1. OnDesktop(c) /\ BoxType(c)
  BY WindowFacts, DesktopBoxes
<1>2. IsFiniteSet(boxes) /\ \A b \in boxes : OnDesktop(b) /\ BoxType(b)
  BY PictureFacts
<1>3. IsFiniteSet(near)
  <2>1. IsFiniteSet(SightsOf(boxes, c))
    BY <1>2, FiniteSights
  <2>2. near \in SUBSET SightsOf(boxes, c)
    OBVIOUS
  <2> QED
    BY <2>1, <2>2, FS_Subset
<1>4. Cardinality(near) <= 1
  <2>1. Ambiguous(SightsOf(boxes, c), p, ask.gap) = IF Cardinality(near) <= 1 THEN {} ELSE near
    BY DEF Ambiguous
  <2>2. ASSUME near = {} PROVE Cardinality(near) <= 1
    BY <2>2, FS_EmptySet
  <2> QED
    BY <2>1, <2>2
<1>5. ASSUME NEW b \in close PROVE Sight(b, c) \in near /\ Sight(b, c).of = b
  <2>1. b \in boxes /\ OnDesktop(b) /\ BoxType(b) /\ RectDistance(b, p) <= ask.gap
    BY <1>2
  <2>2. Sight(b, c).w > 0 /\ Sight(b, c).h > 0 /\ RectDistance(Sight(b, c), p) <= ask.gap
    BY <2>1, NearIsSeen
  <2>3. Sight(b, c) \in SightsOf(boxes, c)
    BY <2>1, <2>2 DEF SightsOf
  <2>4. Sight(b, c).of = b
    BY DEF Sight
  <2> QED
    BY <2>2, <2>3, <2>4
<1> HIDE DEF near, close, c, p
<1>6. \A a, b \in close : a = b
  <2> SUFFICES ASSUME NEW a \in close, NEW b \in close PROVE a = b
    OBVIOUS
  <2>1. Sight(a, c) = Sight(b, c)
    BY <1>3, <1>4, <1>5, AtMostOneMeansEqual
  <2> QED
    BY <1>5, <2>1
<1>7. Cardinality(close) <= 1
  BY <1>6, EqualMeansAtMostOne
<1> QED
  BY <1>7, TargetFacts DEF WellJudged, close, p

-----------------------------------------------------------------------------
(* ScreenText: judging what locate found.                                  *)

LEMMA LocatedIsWell ==
  ASSUME ask \in ScreenAsks, ask.kind = "locate",
         NEW picture \in Pictures \cup {{}}, NEW boxes \in SUBSET picture,
         NEW crop, BoxType(crop),
         NEW m \in Matching(SightsOf(boxes, crop))
  PROVE  WellJudged(Center(m), boxes)
<1> DEFINE seen == SightsOf(boxes, crop)
           p == Center(m)
<1>1. ask.text # Unread /\ Unread \notin ask.near /\ ask.nearDistance \in Nat
  BY AsksAssumption DEF AsksAssumption
<1>2. m \in seen /\ (ask.all \/ m.text = ask.text)
  BY DEF Matching, FilterNear
<1>3. ask.near # {} => \E a \in seen : a.text \in ask.near /\ RectDistance(a, p) <= ask.nearDistance
  BY DEF Matching, FilterNear
<1>4. ASSUME NEW s \in seen
      PROVE  \E b \in boxes : /\ BoxType(b) /\ BoxType(s)
                              /\ b.x <= s.x /\ s.x + s.w <= b.x + b.w
                              /\ b.y <= s.y /\ s.y + s.h <= b.y + b.h
                              /\ s.text # Unread => /\ s.text = b.text /\ s.x = b.x /\ s.w = b.w
                                                    /\ s.y = b.y /\ s.h = b.h
  <2>1. PICK b \in boxes : s = Sight(b, crop) /\ s.w > 0 /\ s.h > 0
    BY DEF SightsOf
  <2>2. BoxType(b)
    BY PictureFacts
  <2> QED
    BY <2>1, <2>2, SightFacts
<1> HIDE DEF seen, p
<1>5. PICK b \in boxes : /\ BoxType(b) /\ BoxType(m)
                         /\ b.x <= m.x /\ m.x + m.w <= b.x + b.w
                         /\ b.y <= m.y /\ m.y + m.h <= b.y + b.h
                         /\ m.text # Unread => m.text = b.text
  BY <1>2, <1>4
<1>6. RectDistance(b, p) = 0
  <2>1. SpotType(p) /\ RectDistance(m, p) = 0
    BY <1>5, CenterInside DEF p
  <2>2. m.x <= p.x /\ p.x <= m.x + m.w /\ m.y <= p.y /\ p.y <= m.y + m.h
    BY <1>5, <2>1, RectInside
  <2>3. b.x <= p.x /\ p.x <= b.x + b.w /\ b.y <= p.y /\ p.y <= b.y + b.h
    BY <1>5, <2>1, <2>2 DEF BoxType, SpotType
  <2> QED
    BY <1>5, <2>1, <2>3, RectInside
<1>7. ask.all \/ b.text = ask.text
  BY <1>1, <1>2, <1>5
<1>8. ask.near # {} => \E a \in boxes : a.text \in ask.near /\ RectDistance(a, p) <= ask.nearDistance
  <2> SUFFICES ASSUME ask.near # {}
               PROVE  \E a \in boxes : a.text \in ask.near /\ RectDistance(a, p) <= ask.nearDistance
    OBVIOUS
  <2>1. PICK s \in seen : s.text \in ask.near /\ RectDistance(s, p) <= ask.nearDistance
    BY <1>3
  <2>2. s.text # Unread
    BY <1>1, <2>1
  <2>3. PICK a \in boxes : s.text = a.text /\ s.x = a.x /\ s.w = a.w /\ s.y = a.y /\ s.h = a.h
    BY <1>4, <2>2
  <2>4. RectDistance(a, p) = RectDistance(s, p)
    BY <2>3 DEF RectDistance
  <2> QED
    BY <2>1, <2>3, <2>4
<1> QED
  BY <1>6, <1>7, <1>8 DEF WellJudged, p

(* What a command reads lies on the desktop.                               *)
LEMMA RegionFacts ==
  ASSUME NEW a \in ScreenAsks, a.kind # "clickAt", RegionOf(a) # None
  PROVE  OnDesktop(RegionOf(a))
<1>1. CASE a.region = None
  BY <1>1, WholeDesktopFacts DEF RegionOf
<1>2. CASE a.region # None
  <2>1. a.region.x \in Nat /\ a.region.y \in Nat /\ a.region.w \in Nat /\ a.region.h \in Nat
    BY <1>2, AsksAssumption DEF AsksAssumption
  <2>2. RegionOf(a) = ClampTo(a.region, DesktopSize)
    BY <1>2 DEF RegionOf
  <2> QED
    BY <2>1, <2>2, ClampFacts
<1> QED
  BY <1>1, <1>2

-----------------------------------------------------------------------------
(* ScreenText: the steps.                                                  *)

USE DEF screenVars

LookWith(ph, vd, cr, fr, bl, sq, px, fm, ma, pt, ps) ==
  [phase |-> ph, verdict |-> vd, crop |-> cr, frame |-> fr, blank |-> bl, seq |-> sq,
   pixels |-> px, from |-> fm, matches |-> ma, point |-> pt, passes |-> ps]

LEMMA FieldsKept ==
  ASSUME NEW ph, NEW vd, NEW cr, NEW fr, NEW bl, NEW sq, NEW px, NEW fm, NEW ma, NEW pt, NEW ps,
         look' = LookWith(ph, vd, cr, fr, bl, sq, px, fm, ma, pt, ps)
  PROVE  /\ LookFields'
         /\ look'.phase = ph /\ look'.verdict = vd /\ look'.crop = cr /\ look'.frame = fr
         /\ look'.blank = bl /\ look'.matches = ma /\ look'.point = pt /\ look'.passes = ps
BY DEF LookWith, LookFields

(* What each kind of step leaves of look.                                  *)
LEMMA ConcludesLook ==
  ASSUME LookFields, NEW v, Concludes(v)
  PROVE  /\ LookFields' /\ look'.phase = "done" /\ look'.verdict = v
         /\ look'.crop = look.crop /\ look'.frame = look.frame
         /\ look'.blank = look.blank /\ look'.passes = look.passes
<1>1. look' = LookWith("done", v, look.crop, look.frame, look.blank, look.seq, look.pixels, look.from,
                       look.matches, look.point, look.passes)
  BY DEF Concludes, LookFields, LookWith
<1> QED
  BY <1>1, FieldsKept

LEMMA ReadsLook ==
  ASSUME LookFields, NEW crop, Reads(crop)
  PROVE  /\ LookFields' /\ look'.phase = "read" /\ look'.verdict = look.verdict
         /\ look'.crop = crop /\ look'.frame = screen.boxes /\ look'.passes = look.passes
         /\ look'.blank \subseteq ShowInPart(screen.boxes, crop)
<1>1. PICK blank \in SUBSET ShowInPart(screen.boxes, crop) :
        look' = LookWith("read", look.verdict, crop, screen.boxes, blank, screen.seq, look.pixels,
                         login, look.matches, look.point, look.passes)
  BY DEF Reads, LookFields, LookWith
<1> QED
  BY <1>1, FieldsKept

LEMMA OtherLooks ==
  ASSUME LookFields
  PROVE  /\ Numbers => /\ LookFields' /\ look'.phase = "numbered" /\ look'.verdict = look.verdict
                       /\ look'.crop = look.crop /\ look'.frame = look.frame
                       /\ look'.blank = look.blank
                       /\ look'.passes = look.passes
         /\ Copies => /\ LookFields' /\ look'.phase = "done" /\ look'.verdict = "shot"
                      /\ look'.crop = RegionOf(ask) /\ look'.frame = screen.boxes
                      /\ look'.passes = look.passes
         /\ Locates => /\ LookFields' /\ look'.phase = "located" /\ look'.verdict = look.verdict
                       /\ look'.crop = look.crop /\ look'.frame = look.frame
                       /\ look'.blank = look.blank
                       /\ look'.matches = Matching(Seen) /\ look'.passes = look.passes
         /\ JudgedSafe => /\ LookFields' /\ look'.phase = "judged" /\ look'.verdict = look.verdict
                          /\ look'.crop = look.crop /\ look'.frame = look.frame
                          /\ look'.blank = look.blank
                          /\ look'.point = Target(ask) /\ look'.passes = look.passes
<1>1. ASSUME Numbers
      PROVE  look' = LookWith("numbered", look.verdict, look.crop, look.frame, look.blank, screen.seq,
                              look.pixels, login, look.matches, look.point, look.passes)
  BY <1>1 DEF Numbers, LookFields, LookWith
<1>2. ASSUME Copies
      PROVE  look' = LookWith("done", "shot", RegionOf(ask), screen.boxes, look.blank, look.seq,
                              screen.seq, look.from, look.matches, look.point, look.passes)
  BY <1>2 DEF Copies, LookFields, LookWith
<1>3. ASSUME Locates
      PROVE  look' = LookWith("located", look.verdict, look.crop, look.frame, look.blank, look.seq,
                              look.pixels, look.from, Matching(Seen), look.point, look.passes)
  BY <1>3 DEF Locates, LookFields, LookWith
<1>4. ASSUME JudgedSafe
      PROVE  look' = LookWith("judged", look.verdict, look.crop, look.frame, look.blank, look.seq,
                              look.pixels, look.from, look.matches, Target(ask), look.passes)
  BY <1>4 DEF JudgedSafe, SettlesOn, LookFields, LookWith
<1> QED
  BY <1>1, <1>2, <1>3, <1>4, FieldsKept

LooksAgain == look' = [look EXCEPT !.phase = "asked", !.passes = @ + 1]

LEMMA ChosenLook ==
  ASSUME LookFields, NEW p, SettlesOn(p)
  PROVE  /\ LookFields' /\ look'.phase = "judged" /\ look'.verdict = look.verdict
         /\ look'.crop = look.crop /\ look'.frame = look.frame /\ look'.blank = look.blank
         /\ look'.point = p /\ look'.passes = look.passes
<1>1. look' = LookWith("judged", look.verdict, look.crop, look.frame, look.blank, look.seq,
                       look.pixels, look.from, look.matches, p, look.passes)
  BY DEF SettlesOn, LookFields, LookWith
<1> QED
  BY <1>1, FieldsKept

LEMMA AgainLook ==
  ASSUME LookFields, LooksAgain
  PROVE  /\ LookFields' /\ look'.phase = "asked" /\ look'.verdict = look.verdict
         /\ look'.crop = look.crop /\ look'.frame = look.frame /\ look'.blank = look.blank
         /\ look'.passes = look.passes + 1
<1> DEFINE more == look.passes + 1
<1>1. look' = [look EXCEPT !.phase = "asked", !.passes = more]
  BY DEF LooksAgain
<1> HIDE DEF more
<1>2. look' = LookWith("asked", look.verdict, look.crop, look.frame, look.blank, look.seq,
                       look.pixels, look.from, look.matches, look.point, more)
  BY <1>1 DEF LookFields, LookWith
<1> QED
  BY <1>2, FieldsKept DEF more

(* The paintings and sessions come and go without touching the command.    *)
LEMMA DeskSteps ==
  ASSUME ScreenInv, UNCHANGED <<ask, look, clicks>>, DeskRanges'
  PROVE  ScreenInv'
<1>1. LookFields' /\ LookRanges'
  BY DEF ScreenInv, LookFields, LookRanges
<1>2. LookStands' /\ JudgedWell' /\ ClicksJudged'
  BY DEF ScreenInv, LookStands, JudgedWell, Legible, ClicksJudged, WellJudged, RegionFor
<1> QED
  BY <1>1, <1>2 DEF ScreenInv

LEMMA DeskUntouched ==
  ASSUME DeskRanges, UNCHANGED <<login, dropped, screen, ask>>
  PROVE  DeskRanges'
BY DEF DeskRanges

LEMMA ClicksUntouched ==
  ASSUME ClicksJudged, UNCHANGED <<ask, clicks>>
  PROVE  ClicksJudged'
BY DEF ClicksJudged, WellJudged

LEMMA ConcludingSteps ==
  ASSUME ScreenInv, NEW v, v # "none", Concludes(v), UNCHANGED <<login, dropped, screen, ask>>,
         ClicksJudged'
  PROVE  ScreenInv'
<1>1. /\ LookFields' /\ look'.phase = "done" /\ look'.verdict = v
      /\ look'.crop = look.crop /\ look'.frame = look.frame
      /\ look'.blank = look.blank /\ look'.passes = look.passes
  BY ConcludesLook DEF ScreenInv
<1>2. LookRanges'
  BY <1>1 DEF ScreenInv, LookRanges
<1>3. LookStands' /\ JudgedWell'
  BY <1>1 DEF LookStands, JudgedWell, Legible
<1> QED
  BY <1>1, <1>2, <1>3, DeskUntouched DEF ScreenInv

LEMMA QuietConclusions ==
  ASSUME ScreenInv, NEW v, v # "none", Concludes(v),
         UNCHANGED <<login, dropped, screen, ask, clicks>>
  PROVE  ScreenInv'
BY ConcludingSteps, ClicksUntouched DEF ScreenInv

LEMMA ReadingSteps ==
  ASSUME ScreenInv, OnePass \/ LooksAround
  PROVE  ScreenInv'
<1>1. PICK crop : /\ Reads(crop) /\ crop = RegionFor(ask) /\ crop # None /\ OnDesktop(crop)
                  /\ \/ ask.kind = "locate"
                     \/ ask.kind = "clickAt" /\ ~Diverges(ask) /\ ~OffDesktop(Target(ask))
  <2>1. CASE OnePass
    <3>1. /\ Reads(RegionOf(ask)) /\ ask.kind = "locate" /\ RegionOf(ask) # None
          /\ RegionOf(ask) = RegionFor(ask)
      BY <2>1 DEF OnePass, RegionFor
    <3>2. OnDesktop(RegionOf(ask))
      BY <3>1, RegionFacts DEF ScreenInv, DeskRanges
    <3> QED
      BY <3>1, <3>2
  <2>2. CASE LooksAround
    <3>1. /\ Reads(ClickWindow(ask)) /\ ask.kind = "clickAt" /\ ~Diverges(ask)
          /\ ~OffDesktop(Target(ask)) /\ ClickWindow(ask) = RegionFor(ask)
      BY <2>2 DEF LooksAround, RegionFor, ClickWindow
    <3>2. ClickWindow(ask) # None /\ OnDesktop(ClickWindow(ask))
      BY <3>1, WindowFacts DEF ScreenInv, DeskRanges
    <3> QED
      BY <3>1, <3>2
  <2> QED
    BY <2>1, <2>2
<1>2. look.phase = "asked" /\ UNCHANGED <<login, dropped, screen, ask, clicks>>
  BY DEF OnePass, LooksAround
<1>3. /\ LookFields' /\ look'.phase = "read" /\ look'.verdict = look.verdict
      /\ look'.crop = crop /\ look'.frame = screen.boxes /\ look'.passes = look.passes
      /\ look'.blank \subseteq ShowInPart(screen.boxes, crop)
  BY <1>1, ReadsLook DEF ScreenInv
<1>4. LookRanges'
  BY <1>1, <1>2, <1>3 DEF ScreenInv, LookRanges, DeskRanges, OnDesktop
<1>5. RegionFor(ask)' = RegionFor(ask) /\ Diverges(ask)' = Diverges(ask)
      /\ OffDesktop(Target(ask))' = OffDesktop(Target(ask))
  BY <1>2
<1>6. LookStands' /\ JudgedWell'
  BY <1>1, <1>2, <1>3, <1>5 DEF LookStands, JudgedWell, Legible
<1> QED
  BY <1>2, <1>3, <1>4, <1>6, DeskUntouched, ClicksUntouched DEF ScreenInv

(* What a pass comes back with.                                            *)
LEMMA SeenFacts ==
  ASSUME ScreenInv, look.phase = "read"
  PROVE  /\ Seen = SightsOf(Legible, look.crop) /\ BoxType(look.crop)
         /\ look.frame \in Pictures \cup {{}} /\ Legible \in SUBSET look.frame /\ ask \in ScreenAsks
         /\ ask.kind = "locate" \/ (ask.kind = "clickAt" /\ ~Diverges(ask) /\ ~OffDesktop(Target(ask))
                                    /\ look.crop = ClickWindow(ask))
<1>1. /\ look.crop = RegionFor(ask) /\ RegionFor(ask) # None
      /\ ask.kind = "locate" \/ (ask.kind = "clickAt" /\ ~Diverges(ask) /\ ~OffDesktop(Target(ask)))
      /\ look.frame \in Pictures \cup {{}} /\ ask \in ScreenAsks
  BY DEF ScreenInv, LookStands, LookRanges, DeskRanges
<1>2. OnDesktop(look.crop) /\ (ask.kind = "clickAt" => look.crop = ClickWindow(ask))
  <2>1. CASE ask.kind = "locate"
    BY <1>1, <2>1, RegionFacts DEF RegionFor
  <2>2. CASE ask.kind = "clickAt"
    BY <1>1, <2>2, WindowFacts DEF RegionFor, ClickWindow
  <2> QED
    BY <1>1, <2>1, <2>2
<1>3. BoxType(look.crop) /\ Legible \in SUBSET look.frame /\ \A b \in Legible : BoxType(b)
  BY <1>1, <1>2, PictureFacts, DesktopBoxes DEF Legible
<1>4. Seen = SightsOf(Legible, look.crop)
  BY <1>3, SeenAreSights DEF Seen, TextLines, Legible
<1> QED
  BY <1>1, <1>2, <1>3, <1>4

LEMMA LocatesKeeps ==
  ASSUME ScreenInv, Locates
  PROVE  ScreenInv'
<1>1. /\ look.phase = "read" /\ ask.kind = "locate"
      /\ UNCHANGED <<login, dropped, screen, ask, clicks>>
  BY DEF Locates
<1>2. /\ LookFields' /\ look'.phase = "located" /\ look'.verdict = look.verdict
      /\ look'.crop = look.crop /\ look'.frame = look.frame /\ look'.blank = look.blank
      /\ look'.matches = Matching(Seen) /\ look'.passes = look.passes
  BY OtherLooks DEF ScreenInv
<1>3. \A b \in Matching(Seen) : WellJudged(Center(b), Legible)
  BY <1>1, SeenFacts, LocatedIsWell
<1>4. LookRanges'
  BY <1>1, <1>2 DEF ScreenInv, LookRanges
<1>5. LookStands' /\ JudgedWell'
  BY <1>1, <1>2, <1>3 DEF ScreenInv, LookStands, JudgedWell, Legible, WellJudged
<1> QED
  BY <1>1, <1>2, <1>4, <1>5, DeskUntouched, ClicksUntouched DEF ScreenInv

LEMMA ChoosesKeeps ==
  ASSUME ScreenInv, Chooses
  PROVE  ScreenInv'
<1>1. look.phase = "located" /\ UNCHANGED <<login, dropped, screen, ask, clicks>>
  BY DEF Chooses
<1>2. PICK b \in look.matches : SettlesOn(Center(b))
  <2>1. Chosen(look.matches, ask.index) \subseteq look.matches
    BY DEF Chosen
  <2>2. PICK b \in Chosen(look.matches, ask.index) : SettlesOn(Center(b))
    BY DEF Chooses
  <2> QED
    BY <2>1, <2>2
<1>3. /\ LookFields' /\ look'.phase = "judged" /\ look'.verdict = look.verdict
      /\ look'.crop = look.crop /\ look'.frame = look.frame /\ look'.blank = look.blank
      /\ look'.point = Center(b) /\ look'.passes = look.passes
  BY <1>2, ChosenLook DEF ScreenInv
<1>4. WellJudged(Center(b), Legible)
  BY <1>1, <1>2 DEF ScreenInv, LookStands
<1>5. LookRanges'
  BY <1>1, <1>3 DEF ScreenInv, LookRanges
<1>6. LookStands' /\ JudgedWell'
  BY <1>1, <1>3, <1>4 DEF ScreenInv, LookStands, JudgedWell, Legible, WellJudged
<1> QED
  BY <1>1, <1>3, <1>5, <1>6, DeskUntouched, ClicksUntouched DEF ScreenInv

LEMMA JudgedSafeKeeps ==
  ASSUME ScreenInv, JudgedSafe
  PROVE  ScreenInv'
<1>1. /\ look.phase = "read" /\ ask.kind = "clickAt"
      /\ Ambiguous(Seen, Target(ask), ask.gap) = {}
      /\ UNCHANGED <<login, dropped, screen, ask, clicks>>
  BY DEF JudgedSafe
<1>2. /\ LookFields' /\ look'.phase = "judged" /\ look'.verdict = look.verdict
      /\ look'.crop = look.crop /\ look'.frame = look.frame /\ look'.blank = look.blank
      /\ look'.point = Target(ask) /\ look'.passes = look.passes
  BY OtherLooks DEF ScreenInv
<1>3. WellJudged(Target(ask), Legible)
  <2>1. /\ Seen = SightsOf(Legible, ClickWindow(ask)) /\ ask \in ScreenAsks
        /\ Legible \in SUBSET look.frame
        /\ ~Diverges(ask) /\ ~OffDesktop(Target(ask)) /\ look.frame \in Pictures \cup {{}}
    BY <1>1, SeenFacts
  <2> QED
    BY <1>1, <2>1, SafeIsWell
<1>4. LookRanges'
  BY <1>1, <1>2 DEF ScreenInv, LookRanges
<1>5. LookStands' /\ JudgedWell'
  BY <1>1, <1>2, <1>3 DEF ScreenInv, LookStands, JudgedWell, Legible, WellJudged
<1> QED
  BY <1>1, <1>2, <1>4, <1>5, DeskUntouched, ClicksUntouched DEF ScreenInv

LEMMA NumbersKeeps ==
  ASSUME ScreenInv, Numbers
  PROVE  ScreenInv'
<1>1. /\ look.phase = "asked" /\ ask.kind = "shot" /\ RegionOf(ask) # None
      /\ UNCHANGED <<login, dropped, screen, ask, clicks>>
  BY DEF Numbers
<1>2. /\ LookFields' /\ look'.phase = "numbered" /\ look'.verdict = look.verdict
      /\ look'.crop = look.crop /\ look'.frame = look.frame
      /\ look'.blank = look.blank /\ look'.passes = look.passes
  BY OtherLooks DEF ScreenInv
<1>3. LookRanges'
  BY <1>1, <1>2 DEF ScreenInv, LookRanges
<1>4. LookStands' /\ JudgedWell'
  BY <1>1, <1>2 DEF LookStands, JudgedWell, Legible
<1> QED
  BY <1>1, <1>2, <1>3, <1>4, DeskUntouched, ClicksUntouched DEF ScreenInv

LEMMA CopiesKeeps ==
  ASSUME ScreenInv, Copies
  PROVE  ScreenInv'
<1>1. look.phase = "numbered" /\ UNCHANGED <<login, dropped, screen, ask, clicks>>
  BY DEF Copies
<1>2. /\ LookFields' /\ look'.phase = "done" /\ look'.verdict = "shot"
      /\ look'.crop = RegionOf(ask) /\ look'.frame = screen.boxes /\ look'.passes = look.passes
  BY OtherLooks DEF ScreenInv
<1>3. OnDesktop(RegionOf(ask))
  BY <1>1, RegionFacts DEF ScreenInv, LookStands, DeskRanges
<1>4. LookRanges'
  BY <1>1, <1>2, <1>3 DEF ScreenInv, LookRanges, DeskRanges, OnDesktop
<1>5. LookStands' /\ JudgedWell'
  BY <1>1, <1>2 DEF LookStands, JudgedWell, Legible
<1> QED
  BY <1>1, <1>2, <1>4, <1>5, DeskUntouched, ClicksUntouched DEF ScreenInv

LEMMA WaitsOnKeeps ==
  ASSUME ScreenInv, WaitsOn
  PROVE  ScreenInv'
<1>1. look.phase = "read" /\ UNCHANGED <<login, dropped, screen, ask, clicks>>
  BY DEF WaitsOn
<1>2. CASE Concludes("timeout")
  BY <1>1, <1>2, QuietConclusions
<1>3. CASE look.passes < MaxPasses /\ LooksAgain
  <2>1. /\ LookFields' /\ look'.phase = "asked" /\ look'.verdict = look.verdict
        /\ look'.crop = look.crop /\ look'.frame = look.frame
        /\ look'.blank = look.blank /\ look'.passes = look.passes + 1
    BY <1>3, AgainLook DEF ScreenInv
  <2>2. look.passes + 1 \in 1 .. MaxPasses
    BY <1>3, ScreenAssumption DEF ScreenInv, LookRanges, ScreenAssumption
  <2>3. LookRanges'
    BY <1>1, <2>1, <2>2 DEF ScreenInv, LookRanges
  <2>4. LookStands' /\ JudgedWell'
    BY <2>1 DEF LookStands, JudgedWell, Legible
  <2> QED
    BY <1>1, <2>1, <2>3, <2>4, DeskUntouched, ClicksUntouched DEF ScreenInv
<1> QED
  BY <1>2, <1>3 DEF WaitsOn, LooksAgain

LEMMA ClicksKeeps ==
  ASSUME ScreenInv, Clicks
  PROVE  ScreenInv'
<1>1. look.phase = "judged" /\ UNCHANGED <<login, dropped, screen, ask>>
  BY DEF Clicks
<1>2. CASE clicks' = clicks \union {[at |-> look.point, judged |-> look.frame,
                                     blank |-> look.blank, crop |-> look.crop,
                                     on |-> look.from, into |-> login]} /\ Concludes("clicked")
  <2>1. /\ WellJudged(look.point, look.frame \ look.blank)
        /\ look.blank \subseteq ShowInPart(look.frame, look.crop)
    BY <1>1 DEF ScreenInv, JudgedWell, LookStands, Legible
  <2>2. ASSUME NEW c \in clicks'
        PROVE  /\ c.blank \subseteq ShowInPart(c.judged, c.crop)
               /\ WellJudged(c.at, c.judged \ c.blank)
    <3>1. CASE c \in clicks
      BY <3>1 DEF ScreenInv, ClicksJudged
    <3>2. CASE c = [at |-> look.point, judged |-> look.frame, blank |-> look.blank,
                    crop |-> look.crop, on |-> look.from, into |-> login]
      BY <2>1, <3>2
    <3> QED
      BY <1>2, <2>2, <3>1, <3>2
  <2>3. ClicksJudged'
    BY <1>1, <2>2 DEF ClicksJudged, WellJudged
  <2> QED
    BY <1>1, <1>2, <2>3, ConcludingSteps
<1>3. CASE Concludes("notConnected") /\ UNCHANGED clicks
  BY <1>1, <1>3, QuietConclusions
<1> QED
  BY <1>2, <1>3 DEF Clicks

LEMMA RefusalsKeep ==
  ASSUME ScreenInv,
         \/ NoRecogniser \/ RecogniserFails \/ NothingInSlot \/ RefuseIfDropped \/ RegionRefused
         \/ NotChosen \/ MeasurementsDiverge \/ PointRefused \/ ClickRefused
  PROVE  ScreenInv'
<1>1. PICK v \in {"unavailable", "failed", "notConnected", "invalid", "ambiguous", "found",
                  "diverged"} :
        Concludes(v) /\ UNCHANGED <<login, dropped, screen, ask, clicks>>
  BY DEF NoRecogniser, RecogniserFails, NothingInSlot, RefuseIfDropped, RefusedAtSlot,
         RegionRefused, NotChosen, MeasurementsDiverge, PointRefused, ClickRefused
<1>2. v # "none"
  BY <1>1
<1> QED
  BY <1>1, <1>2, QuietConclusions

LEMMA WorldKeeps ==
  ASSUME ScreenInv, Repaints \/ Drops \/ SlotChanges
  PROVE  ScreenInv'
<1>1. DeskRanges /\ UNCHANGED <<ask, look, clicks>>
  BY DEF ScreenInv, Repaints, Drops, SlotChanges
<1>2. CASE Repaints
  <2>1. PICK boxes \in Pictures : screen' = [seq |-> screen.seq + 1, boxes |-> boxes]
    BY <1>2 DEF Repaints
  <2>2. screen.seq + 1 \in 0 .. MaxPaints
    BY <1>1, <1>2, ScreenAssumption DEF ScreenAssumption, DeskRanges, Repaints
  <2>3. screen'.seq \in 0 .. MaxPaints /\ screen'.boxes \in Pictures \cup {{}}
    BY <2>1, <2>2
  <2>4. DeskRanges'
    BY <1>1, <1>2, <2>3 DEF DeskRanges, Repaints
  <2> QED
    BY <1>1, <2>4, DeskSteps
<1>3. CASE Drops
  BY <1>1, <1>3, DeskSteps DEF DeskRanges, Drops
<1>4. CASE SlotChanges
  <2>1. /\ login' \in 0 .. MaxLogins /\ dropped' = FALSE /\ screen' = Blank
    BY <1>1, <1>4, ScreenAssumption DEF ScreenAssumption, SlotChanges, DeskRanges, NoLogin
  <2>2. Blank.seq \in 0 .. MaxPaints /\ Blank.boxes \in Pictures \cup {{}}
    BY ScreenAssumption DEF ScreenAssumption, Blank
  <2>3. DeskRanges'
    BY <1>1, <2>1, <2>2 DEF DeskRanges
  <2> QED
    BY <1>1, <2>3, DeskSteps
<1> QED
  BY <1>2, <1>3, <1>4

LEMMA InitScreenInv == ScreenInit => ScreenInv
<1> SUFFICES ASSUME ScreenInit PROVE ScreenInv
  OBVIOUS
<1>1. Blank.seq \in 0 .. MaxPaints /\ Blank.boxes \in Pictures \cup {{}}
  BY ScreenAssumption DEF ScreenAssumption, Blank
<1>2. DeskRanges
  <2>1. ask \in ScreenAsks /\ login = 1 /\ dropped = FALSE /\ screen = Blank
    BY DEF ScreenInit
  <2>2. 1 \in 0 .. MaxLogins
    BY ScreenAssumption DEF ScreenAssumption
  <2> QED
    BY <1>1, <2>1, <2>2 DEF DeskRanges
<1>3. LookFields
  BY DEF ScreenInit, NotLooking, LookFields
<1>4. LookRanges
  BY ScreenAssumption DEF ScreenAssumption, ScreenInit, NotLooking, LookRanges
<1>5. LookStands /\ JudgedWell /\ ClicksJudged
  BY DEF ScreenInit, NotLooking, LookStands, JudgedWell, ClicksJudged
<1> QED
  BY <1>2, <1>3, <1>4, <1>5 DEF ScreenInv

LEMMA ScreenStep == ScreenInv /\ [ScreenNext]_screenVars => ScreenInv'
<1> SUFFICES ASSUME ScreenInv, [ScreenNext]_screenVars PROVE ScreenInv'
  OBVIOUS
<1>1. CASE UNCHANGED screenVars
  BY <1>1, DeskSteps DEF ScreenInv, DeskRanges
<1>2. CASE ScreenNext
  BY <1>2, WorldKeeps, RefusalsKeep, NumbersKeeps, CopiesKeeps, ReadingSteps, LocatesKeeps,
     WaitsOnKeeps, ChoosesKeeps, JudgedSafeKeeps, ClicksKeeps DEF ScreenNext
<1> QED
  BY <1>1, <1>2

LEMMA ScreenInvHolds == ScreenSpec => []ScreenInv
BY InitScreenInv, ScreenStep, PTL DEF ScreenSpec

(* Type correctness: commands end with a verdict, and what they read lies  *)
(* on the desktop.                                                         *)
THEOREM ScreenTypeCorrect == ScreenSpec => []ScreenTypeOK
<1>1. ScreenInv => ScreenTypeOK
  BY DEF ScreenInv, DeskRanges, LookRanges, ScreenTypeOK
<1> QED
  BY <1>1, ScreenInvHolds, PTL

(* A click by click-at has at most one text box of the picture within the  *)
(* gap, of those that show whole in the window or were read in part, and   *)
(* one on a located text is inside a box that reads as asked: though only  *)
(* a window of the picture was recognised, and cut and translated on the   *)
(* way.                                                                    *)
THEOREM ClicksAreJudged == ScreenSpec => []ClicksJudged
<1>1. ScreenInv => ClicksJudged
  BY DEF ScreenInv
<1> QED
  BY <1>1, ScreenInvHolds, PTL

-----------------------------------------------------------------------------
(* DaemonProcess.                                                          *)

USE ProcessAssumption
    DEF ProcessAssumption, processVars, filesAndDaemons, Daemons, NoDaemon, Commands, Connects,
        IsReadOnly

-----------------------------------------------------------------------------
(* The inductive invariant.                                                *)

DaemonPhases == {"none", "spawned", "numbered", "binding", "listening", "stopping", "unfiled",
           "dead"}

BeforeSending  == {"look", "tidy", "start", "dial", "ping", "stop", "wait", "clean", "await", "send"}
Talking == {"ping", "stop", "wait", "send", "effected"}

MaybeDaemon == {NoDaemon} \cup Daemons

CliStates == [run : Commands, pc : BeforeSending \cup {"effected", "done"},
              pid : MaybeDaemon, conn : MaybeDaemon, tries : 0 .. Confirmations + 1,
              verdict : {"none", "ok", "not_running", "unresponsive", "mismatch", "timeout",
                         "closed"}]

ProcessRanges ==
  /\ pidFile \in MaybeDaemon /\ socket \in MaybeDaemon
  /\ daemon \in [Daemons -> [phase : DaemonPhases, build : {"ours", "old"}]]
  /\ cli \in [Clis -> CliStates]
  /\ executed \in [Clis -> Nat]
  /\ stopped \subseteq Daemons \X Clis
  /\ crashes \in Nat

(* A pid or a socket, once seen, is that of a daemon that was started.     *)
Started(d) == d # NoDaemon => daemon[d].phase # "none"

(* The one daemon of another build is the first; as long as its socket is  *)
(* in place nothing has replaced it: there is no other daemon, none is     *)
(* about to be started, and its pid is the one anybody has read.           *)
OldInPlace == daemon[1].build = "old" /\ socket = 1

OldIsFirst ==
  /\ \A d \in Daemons : daemon[d].build = "old" =>
       d = 1 /\ daemon[d].phase \notin {"none", "spawned", "numbered", "binding"}
  /\ OldInPlace => pidFile = 1 /\ \A d \in Daemons \ {1} : daemon[d].phase = "none"

(* Where a command line stands: it knows the daemon it talks to, and one   *)
(* it cleans up after is gone; the daemon it stops for its build is the    *)
(* one whose pid it will kill; its request takes effect when it is sent,   *)
(* and not before.                                                         *)
KnowsDaemon(r) ==
  /\ Started(r.pid) /\ Started(r.conn)
  /\ r.pc \in Talking => r.conn # NoDaemon
  /\ r.pc \in {"dial", "ping", "stop", "wait"} => r.pid # NoDaemon
  /\ r.pc = "clean" => r.pid \notin Alive
  /\ OldInPlace => r.pc # "start" /\ r.pid \in {NoDaemon, 1}

JudgedIsKilled(r) ==
  /\ r.pc = "ping" /\ daemon[1].build = "old" /\ r.conn = 1 => r.pid = 1
  /\ r.pc \in {"stop", "wait"} /\ r.run # "replace" =>
       daemon[1].build = "old" /\ r.conn = 1 /\ r.pid = 1

Effected(r, n) ==
  /\ r.run \notin IsReadOnly => n <= 1 /\ (r.pc \in BeforeSending => n = 0)
  /\ r.pc = "effected" \/ r.verdict = "ok" => n >= 1

RightlyPlaced(r, n) == KnowsDaemon(r) /\ JudgedIsKilled(r) /\ Effected(r, n)

ProcessInv ==
  /\ ProcessRanges /\ Started(pidFile) /\ Started(socket) /\ OldIsFirst /\ BusyDaemonSpared
  /\ \A c \in Clis : RightlyPlaced(cli[c], executed[c])

LEMMA InitProcessInv == ProcessInit => ProcessInv
<1> SUFFICES ASSUME ProcessInit
             PROVE  ProcessInv
  OBVIOUS
<1> PICK p \in ProcessPlans :
       /\ cli = [c \in Clis |-> Fresh(p.runs[c])]
       /\ crashes = p.crashes
       /\ daemon = [d \in Daemons |->
                      IF d = 1 /\ p.first # "none" THEN [phase |-> "listening", build |-> p.first]
                      ELSE [phase |-> "none", build |-> "ours"]]
       /\ pidFile = IF p.first = "none" THEN NoDaemon ELSE 1
  BY DEF ProcessInit
<1>1. p.runs \in [Clis -> Commands] /\ p.crashes \in Nat /\ p.first \in {"none", "old", "ours"}
  OBVIOUS
<1>2. ProcessRanges
  BY <1>1 DEF ProcessRanges, ProcessInit, CliStates, BeforeSending, DaemonPhases, Fresh, MaybeDaemon
<1> QED
  BY <1>1, <1>2 DEF ProcessInv, Started, OldInPlace, OldIsFirst, BusyDaemonSpared, RightlyPlaced,
       KnowsDaemon, JudgedIsKilled, Effected, ProcessInit, Fresh, BeforeSending, Talking

-----------------------------------------------------------------------------
(* What every step does to the daemons: builds stay, what was started      *)
(* stays started, what is dead stays dead, and the first daemon of another *)
(* build, once unlinked, stays so.                                         *)
Advance ==
  /\ daemon' \in [Daemons -> [phase : DaemonPhases, build : {"ours", "old"}]]
  /\ \A d \in Daemons :
       /\ daemon'[d].build = daemon[d].build
       /\ daemon[d].phase # "none" => daemon'[d].phase # "none"
       /\ daemon[d].phase = "dead" => daemon'[d].phase = "dead"
  /\ socket' = 1 /\ daemon[1].build = "old" => socket = 1

LEMMA StillStands ==
  ASSUME ProcessRanges, Advance, NEW r \in CliStates, NEW n \in Nat, RightlyPlaced(r, n)
  PROVE  RightlyPlaced(r, n)'
<1>1. Started(r.pid)' /\ Started(r.conn)'
  BY DEF ProcessRanges, Advance, RightlyPlaced, KnowsDaemon, Started, CliStates, MaybeDaemon
<1>2. r.pid \notin Alive => r.pid \notin Alive'
  <2>1. r.pid \in Daemons /\ r.pid \notin Alive => daemon[r.pid].phase = "dead"
    BY DEF RightlyPlaced, KnowsDaemon, Started, Alive
  <2> QED
    BY <2>1 DEF Advance, Alive
<1>3. KnowsDaemon(r)'
  BY <1>1, <1>2 DEF Advance, RightlyPlaced, KnowsDaemon, OldInPlace
<1> QED
  BY <1>3 DEF Advance, RightlyPlaced, JudgedIsKilled, Effected

(* A step of one command line: it is enough to look at that one, at the    *)
(* files and at the daemons.                                               *)
LEMMA CliMoves ==
  ASSUME ProcessInv, NEW c \in Clis, NEW r \in CliStates, NEW n \in Nat,
         cli' = [cli EXCEPT ![c] = r], executed' = [executed EXCEPT ![c] = n],
         r.run = cli[c].run, RightlyPlaced(r, n)', Advance,
         pidFile' \in MaybeDaemon, socket' \in MaybeDaemon, Started(pidFile)', Started(socket)',
         OldIsFirst', stopped' \subseteq Daemons \X Clis, crashes' \in Nat,
         \A s \in stopped' \ stopped :
           daemon'[s[1]].build = "ours" => cli[s[2]].run \in {"replace", "disconnect"}
  PROVE  ProcessInv'
<1>1. ProcessRanges'
  BY DEF ProcessInv, ProcessRanges, Advance
<1>2. ASSUME NEW e \in Clis
      PROVE  RightlyPlaced(cli[e], executed[e])'
  <2>1. CASE e = c
    BY <2>1 DEF ProcessInv, ProcessRanges
  <2>2. CASE e # c
    <3>1. cli'[e] = cli[e] /\ executed'[e] = executed[e]
      BY <2>2 DEF ProcessInv, ProcessRanges
    <3>2. cli[e] \in CliStates /\ executed[e] \in Nat /\ RightlyPlaced(cli[e], executed[e]) /\ ProcessRanges
      BY DEF ProcessInv, ProcessRanges
    <3> DEFINE q == cli[e]
               m == executed[e]
    <3> HIDE DEF q, m
    <3>3. RightlyPlaced(q, m) => (q = q' /\ m = m' => RightlyPlaced(q, m)')
      BY <3>2, StillStands DEF q, m
    <3> QED
      BY <3>1, <3>2, <3>3 DEF q, m
  <2> QED
    BY <2>1, <2>2
<1>3. BusyDaemonSpared'
  <2> SUFFICES ASSUME NEW s \in stopped', daemon'[s[1]].build = "ours"
               PROVE  cli'[s[2]].run \in {"replace", "disconnect"}
    BY DEF BusyDaemonSpared
  <2>1. s[1] \in Daemons /\ s[2] \in Clis /\ cli'[s[2]].run = cli[s[2]].run
    BY DEF ProcessInv, ProcessRanges
  <2>2. daemon[s[1]].build = "ours"
    BY <2>1 DEF Advance
  <2> QED
    BY <2>1, <2>2 DEF ProcessInv, BusyDaemonSpared
<1> QED
  BY <1>1, <1>2, <1>3 DEF ProcessInv

(* A daemon goes to another phase.                                         *)
LEMMA NewPhase ==
  ASSUME ProcessInv, NEW d \in Daemons, NEW to \in DaemonPhases \ {"none"},
         daemon' = [daemon EXCEPT ![d].phase = to],
         daemon[d].phase = "dead" => to = "dead"
  PROVE  /\ daemon' \in [Daemons -> [phase : DaemonPhases, build : {"ours", "old"}]]
         /\ \A e \in Daemons :
              /\ daemon'[e].build = daemon[e].build
              /\ daemon[e].phase # "none" => daemon'[e].phase # "none"
              /\ daemon[e].phase = "dead" => daemon'[e].phase = "dead"
              /\ e # d => daemon'[e] = daemon[e]
         /\ daemon'[d].phase = to
  BY DEF ProcessInv, ProcessRanges

(* A step of a daemon leaves the command lines where they are.             *)
LEMMA DaemonMoves ==
  ASSUME ProcessInv, UNCHANGED <<cli, executed, stopped>>, Advance,
         pidFile' \in MaybeDaemon, socket' \in MaybeDaemon, Started(pidFile)', Started(socket)',
         OldIsFirst', crashes' \in Nat
  PROVE  ProcessInv'
<1>1. ProcessRanges'
  BY DEF ProcessInv, ProcessRanges, Advance
<1>2. ASSUME NEW e \in Clis
      PROVE  RightlyPlaced(cli[e], executed[e])'
  <2>1. cli[e] \in CliStates /\ executed[e] \in Nat /\ RightlyPlaced(cli[e], executed[e]) /\ ProcessRanges
    BY DEF ProcessInv, ProcessRanges
  <2> DEFINE q == cli[e]
             m == executed[e]
  <2>2. q' = q /\ m' = m
    OBVIOUS
  <2> HIDE DEF q, m
  <2>3. RightlyPlaced(q, m) => (q = q' /\ m = m' => RightlyPlaced(q, m)')
    BY <2>1, StillStands DEF q, m
  <2> QED
    BY <2>1, <2>2, <2>3 DEF q, m
<1>3. BusyDaemonSpared'
  BY DEF ProcessInv, BusyDaemonSpared, ProcessRanges, Advance
<1> QED
  BY <1>1, <1>2, <1>3 DEF ProcessInv

LEMMA DaemonStepProcessInv ==
  ASSUME ProcessInv, NEW d \in Daemons, DaemonStep(d)
  PROVE  ProcessInv'
<1> USE DEF ProcessInv, ProcessRanges, Phase, DaemonPhases
<1>1. CASE DaemonWritesPid(d)
  <2>1. Advance
    BY <1>1 DEF DaemonWritesPid, Advance
  <2>2. OldIsFirst'
    BY <1>1 DEF DaemonWritesPid, OldIsFirst, OldInPlace
  <2> QED
    BY <1>1, <2>1, <2>2, DaemonMoves DEF DaemonWritesPid, Started, MaybeDaemon
<1>2. CASE DaemonUnlinks(d)
  <2>1. Advance
    BY <1>2 DEF DaemonUnlinks, Advance
  <2>2. OldIsFirst'
    BY <1>2 DEF DaemonUnlinks, OldIsFirst, OldInPlace
  <2> QED
    BY <1>2, <2>1, <2>2, DaemonMoves DEF DaemonUnlinks, Started, MaybeDaemon
<1>3. CASE DaemonBinds(d)
  <2>1. daemon[d].build = "ours"
    BY <1>3 DEF DaemonBinds, OldIsFirst
  <2>2. CASE socket = NoDaemon
    <3>1. daemon' = [daemon EXCEPT ![d].phase = "listening"] /\ daemon[d].phase = "binding"
          /\ socket' = d
      BY <1>3, <2>2 DEF DaemonBinds
    <3>2. Advance
      BY <2>1, <3>1, NewPhase DEF Advance
    <3>3. OldIsFirst'
      BY <1>3, <2>1, <3>1, NewPhase DEF DaemonBinds, OldIsFirst, OldInPlace
    <3> QED
      BY <1>3, <2>2, <3>1, <3>2, <3>3, DaemonMoves DEF DaemonBinds, Started, MaybeDaemon
  <2>3. CASE socket # NoDaemon
    <3>1. daemon' = [daemon EXCEPT ![d].phase = "dead"] /\ daemon[d].phase = "binding"
          /\ socket' = socket
      BY <1>3, <2>3 DEF DaemonBinds
    <3>2. Advance
      BY <2>1, <3>1, NewPhase DEF Advance
    <3>3. OldIsFirst'
      BY <1>3, <2>1, <3>1, NewPhase DEF DaemonBinds, OldIsFirst, OldInPlace
    <3> QED
      BY <1>3, <2>3, <3>1, <3>2, <3>3, DaemonMoves DEF DaemonBinds, Started, MaybeDaemon
  <2> QED
    BY <2>2, <2>3
<1>4. CASE DaemonUnfiles(d)
  <2>1. /\ daemon' = [daemon EXCEPT ![d].phase = "unfiled"] /\ daemon[d].phase \notin {"none", "dead"}
        /\ pidFile' = NoDaemon /\ socket' = NoDaemon
    BY <1>4 DEF DaemonUnfiles
  <2>2. Advance
    BY <2>1, NewPhase DEF Advance
  <2>3. OldIsFirst'
    BY <2>1, NewPhase DEF OldIsFirst, OldInPlace
  <2> QED
    BY <1>4, <2>1, <2>2, <2>3, DaemonMoves DEF DaemonUnfiles, Started, MaybeDaemon
<1>5. CASE DaemonExits(d)
  <2>1. /\ daemon' = [daemon EXCEPT ![d].phase = "dead"] /\ daemon[d].phase \notin {"none", "dead"}
        /\ pidFile' = NoDaemon /\ socket' = NoDaemon
    BY <1>5 DEF DaemonExits
  <2>2. Advance
    BY <2>1, NewPhase DEF Advance
  <2>3. OldIsFirst'
    BY <2>1, NewPhase DEF OldIsFirst, OldInPlace
  <2> QED
    BY <1>5, <2>1, <2>2, <2>3, DaemonMoves DEF DaemonExits, Started, MaybeDaemon
<1>6. CASE DaemonDies(d)
  <2>1. daemon' = [daemon EXCEPT ![d].phase = "dead"] /\ daemon[d].phase \notin {"none", "dead"}
    BY <1>6 DEF DaemonDies, Alive
  <2>2. Advance
    BY <1>6, <2>1, NewPhase DEF Advance, DaemonDies
  <2>3. OldIsFirst'
    BY <1>6, <2>1, NewPhase DEF OldIsFirst, OldInPlace, DaemonDies
  <2>4. Started(pidFile)' /\ Started(socket)'
    BY <1>6 DEF DaemonDies, Started, MaybeDaemon
  <2> QED
    BY <1>6, <2>1, <2>2, <2>3, <2>4, DaemonMoves DEF DaemonDies
<1> QED
  BY <1>1, <1>2, <1>3, <1>4, <1>5, <1>6 DEF DaemonStep

-----------------------------------------------------------------------------
(* The steps of a command line.                                            *)

(* One that leaves the files and the daemons as they are.                  *)
LEMMA CliOnly ==
  ASSUME ProcessInv, NEW c \in Clis, NEW r \in CliStates, NEW n \in Nat,
         cli' = [cli EXCEPT ![c] = r], executed' = [executed EXCEPT ![c] = n],
         r.run = cli[c].run, RightlyPlaced(r, n),
         UNCHANGED <<pidFile, socket, daemon, stopped, crashes>>
  PROVE  ProcessInv'
<1>1. Advance
  BY DEF Advance, ProcessInv, ProcessRanges
<1>2. RightlyPlaced(r, n)' /\ OldIsFirst' /\ Started(pidFile)' /\ Started(socket)'
  BY DEF ProcessInv, RightlyPlaced, KnowsDaemon, JudgedIsKilled, Effected, Started, Alive, OldInPlace,
         OldIsFirst
<1> QED
  BY <1>1, <1>2, CliMoves DEF ProcessInv, ProcessRanges

LEMMA CliLooksProcessInv ==
  ASSUME ProcessInv, NEW c \in Clis, CliLooks(c)
  PROVE  ProcessInv'
<1> USE DEF CliLooks, ProcessInv, ProcessRanges
<1>0. PICK q \in CliStates, n \in Nat : q = cli[c] /\ n = executed[c]
  OBVIOUS
<1>1. CASE pidFile = NoDaemon /\ TriesSocket(c)
  <2> DEFINE r == [q EXCEPT !.pc = "start"]
  <2>1. cli' = [cli EXCEPT ![c] = r] /\ executed' = [executed EXCEPT ![c] = n]
    BY <1>0, <1>1 DEF Go
  <2>2. r \in CliStates /\ r.run = cli[c].run
    BY <1>0 DEF CliStates, BeforeSending
  <2>3. ~OldInPlace
    BY <1>1 DEF OldIsFirst, OldInPlace
  <2>4. RightlyPlaced(r, n)
    BY <1>0, <1>1, <2>3 DEF RightlyPlaced, KnowsDaemon, JudgedIsKilled, Effected, BeforeSending, Talking,
         MaybeDaemon, Started, CliStates
  <2> QED
    BY <2>1, <2>2, <2>4, CliOnly
<1>2. CASE pidFile = NoDaemon /\ ~TriesSocket(c)
  <2> DEFINE r == [q EXCEPT !.pc = "done", !.verdict = "not_running"]
  <2>1. cli' = [cli EXCEPT ![c] = r] /\ executed' = [executed EXCEPT ![c] = n]
    BY <1>0, <1>2 DEF Says
  <2>2. r \in CliStates /\ r.run = cli[c].run
    BY <1>0 DEF CliStates, BeforeSending
  <2>3. RightlyPlaced(r, n)
    BY <1>0, <1>2 DEF OldIsFirst, OldInPlace, RightlyPlaced, KnowsDaemon, JudgedIsKilled, Effected,
         BeforeSending, Talking, MaybeDaemon, Started, CliStates
  <2> QED
    BY <2>1, <2>2, <2>3, CliOnly
<1>3. CASE pidFile # NoDaemon
  <2>0. PICK p \in MaybeDaemon, pc \in BeforeSending :
          p = pidFile /\ pc = IF pidFile \in Alive THEN "dial" ELSE "tidy"
    BY DEF BeforeSending
  <2> DEFINE r == [q EXCEPT !.pid = p, !.pc = pc]
  <2>1. cli' = [cli EXCEPT ![c] = r] /\ executed' = [executed EXCEPT ![c] = n]
    BY <1>0, <1>3, <2>0
  <2>2. r \in CliStates /\ r.run = cli[c].run
    BY <1>0 DEF CliStates
  <2>3. RightlyPlaced(r, n)
    BY ZenonT(30), <1>0, <1>3, <2>0 DEF OldIsFirst, OldInPlace, RightlyPlaced, KnowsDaemon, JudgedIsKilled,
         Effected, BeforeSending, Talking, MaybeDaemon, Started, CliStates
  <2> QED
    BY <2>1, <2>2, <2>3, CliOnly
<1> QED
  BY <1>1, <1>2, <1>3

(* The command line ends, with this verdict.                               *)
LEMMA SaysProcessInv ==
  ASSUME ProcessInv, NEW c \in Clis,
         NEW v \in {"ok", "not_running", "unresponsive", "mismatch", "timeout", "closed"},
         Says(c, v), v = "ok" => executed[c] >= 1,
         UNCHANGED <<pidFile, socket, daemon, executed, stopped, crashes>>
  PROVE  ProcessInv'
<1> USE DEF ProcessInv, ProcessRanges
<1>1. PICK q \in CliStates, n \in Nat : q = cli[c] /\ n = executed[c]
  OBVIOUS
<1> DEFINE r == [q EXCEPT !.pc = "done", !.verdict = v]
<1>2. cli' = [cli EXCEPT ![c] = r] /\ executed' = [executed EXCEPT ![c] = n]
  BY <1>1 DEF Says
<1>3. r \in CliStates /\ r.run = cli[c].run
  BY <1>1 DEF CliStates
<1>4. RightlyPlaced(r, n)
  BY <1>1 DEF RightlyPlaced, KnowsDaemon, JudgedIsKilled, Effected, BeforeSending, Talking, Started, CliStates
<1> QED
  BY <1>2, <1>3, <1>4, CliOnly

(* It goes on, to a place it may be at.                                    *)
LEMMA GoProcessInv ==
  ASSUME ProcessInv, NEW c \in Clis, NEW pc \in BeforeSending, Go(c, pc), cli[c].pc \in BeforeSending,
         pc \in Talking => cli[c].conn # NoDaemon,
         pc \in {"dial", "ping", "stop", "wait"} => cli[c].pid # NoDaemon,
         pc = "clean" => cli[c].pid \notin Alive,
         pc \notin {"start", "ping", "wait"},
         pc = "stop" /\ cli[c].run # "replace" =>
           daemon[1].build = "old" /\ cli[c].conn = 1 /\ cli[c].pid = 1,
         UNCHANGED <<pidFile, socket, daemon, executed, stopped, crashes>>
  PROVE  ProcessInv'
<1> USE DEF ProcessInv, ProcessRanges
<1>1. PICK q \in CliStates, n \in Nat : q = cli[c] /\ n = executed[c]
  OBVIOUS
<1> DEFINE r == [q EXCEPT !.pc = pc]
<1>2. cli' = [cli EXCEPT ![c] = r] /\ executed' = [executed EXCEPT ![c] = n]
  BY <1>1 DEF Go
<1>3. r \in CliStates /\ r.run = cli[c].run
  BY <1>1 DEF CliStates
<1>4. RightlyPlaced(r, n)
  BY <1>1 DEF RightlyPlaced, KnowsDaemon, JudgedIsKilled, Effected, BeforeSending, Talking, Started, CliStates
<1> QED
  BY <1>2, <1>3, <1>4, CliOnly

(* It is connected to whoever listens at the socket.                       *)
LEMMA DialProcessInv ==
  ASSUME ProcessInv, NEW c \in Clis, NEW pc \in {"ping", "send"}, NEW t \in 0 .. Confirmations + 1, Connectable,
         cli' = [cli EXCEPT ![c] = [cli[c] EXCEPT !.conn = socket, !.pc = pc, !.tries = t]],
         pc = "ping" => cli[c].pid # NoDaemon,
         cli[c].run \in IsReadOnly \/ cli[c].pc \in BeforeSending,
         UNCHANGED <<pidFile, socket, daemon, executed, stopped, crashes>>
  PROVE  ProcessInv'
<1> USE DEF ProcessInv, ProcessRanges
<1>1. PICK q \in CliStates, n \in Nat, k \in MaybeDaemon : q = cli[c] /\ n = executed[c] /\ k = socket
  OBVIOUS
<1> DEFINE r == [q EXCEPT !.conn = k, !.pc = pc, !.tries = t]
<1>2. cli' = [cli EXCEPT ![c] = r] /\ executed' = [executed EXCEPT ![c] = n]
  BY <1>1
<1>3. r \in CliStates /\ r.run = cli[c].run
  BY <1>1 DEF CliStates, BeforeSending
<1>4. KnowsDaemon(r)
  BY <1>1 DEF RightlyPlaced, KnowsDaemon, Talking, Started, CliStates, Connectable
<1>5. JudgedIsKilled(r)
  BY <1>1 DEF RightlyPlaced, KnowsDaemon, JudgedIsKilled, CliStates, OldInPlace
<1>6. Effected(r, n)
  BY <1>1 DEF RightlyPlaced, Effected, BeforeSending, CliStates
<1> QED
  BY <1>2, <1>3, <1>4, <1>5, <1>6, CliOnly DEF RightlyPlaced

LEMMA CliDialsProcessInv ==
  ASSUME ProcessInv, NEW c \in Clis, CliDials(c)
  PROVE  ProcessInv'
<1>1. cli[c] \in CliStates /\ RightlyPlaced(cli[c], executed[c]) /\ cli[c].pid # NoDaemon
  BY DEF ProcessInv, ProcessRanges, RightlyPlaced, KnowsDaemon, CliDials
<1>2. CASE Connectable
  <2>1. [cli[c] EXCEPT !.conn = socket, !.pc = "ping"]
          = [cli[c] EXCEPT !.conn = socket, !.pc = "ping", !.tries = cli[c].tries]
    BY <1>1 DEF CliStates
  <2>2. cli' = [cli EXCEPT ![c] = [cli[c] EXCEPT !.conn = socket, !.pc = "ping"]]
    BY <1>2 DEF CliDials
  <2> QED
    BY <1>1, <1>2, <2>1, <2>2, DialProcessInv DEF CliDials, CliStates, BeforeSending
<1>3. CASE ~Connectable /\ TriesSocket(c)
  BY <1>1, <1>3, GoProcessInv DEF CliDials, BeforeSending, Talking
<1>4. CASE ~Connectable /\ ~TriesSocket(c)
  BY <1>1, <1>4, SaysProcessInv DEF CliDials
<1> QED
  BY <1>2, <1>3, <1>4

(* A verdict on the ping.                                                  *)
LEMMA CliJudgesProcessInv ==
  ASSUME ProcessInv, NEW c \in Clis, NEW health \in {"healthy", "mismatch", "unresponsive"},
         cli[c].pc = "ping", CliJudges(c, health),
         health = "mismatch" => daemon[cli[c].conn].build = "old",
         UNCHANGED <<pidFile, socket, daemon, executed, stopped, crashes>>
  PROVE  ProcessInv'
<1>1. /\ cli[c] \in CliStates /\ RightlyPlaced(cli[c], executed[c])
      /\ cli[c].pid # NoDaemon /\ cli[c].conn \in Daemons
  BY DEF ProcessInv, ProcessRanges, RightlyPlaced, KnowsDaemon, Talking, CliStates, MaybeDaemon
<1>2. CASE Go(c, "send")
  BY <1>1, <1>2, GoProcessInv DEF BeforeSending
<1>3. CASE Go(c, "stop") /\ (health = "mismatch" \/ cli[c].run = "replace")
  <2>1. health = "mismatch" => daemon[1].build = "old" /\ cli[c].conn = 1 /\ cli[c].pid = 1
    BY <1>1 DEF ProcessInv, OldIsFirst, RightlyPlaced, JudgedIsKilled
  <2> QED
    BY <1>1, <1>3, <2>1, GoProcessInv DEF BeforeSending
<1>4. CASE Says(c, "unresponsive") \/ Says(c, "mismatch")
  BY <1>1, <1>4, SaysProcessInv
<1> QED
  BY <1>1, <1>2, <1>3, <1>4 DEF CliJudges, Decision, CliStates

LEMMA PingsProcessInv ==
  ASSUME ProcessInv, NEW c \in Clis, PingAnswered(c) \/ PingUnanswered(c)
  PROVE  ProcessInv'
<1>1. /\ cli[c] \in CliStates /\ cli[c].pc = "ping"
      /\ cli[c].pid # NoDaemon /\ cli[c].conn \in Daemons
  BY DEF ProcessInv, ProcessRanges, RightlyPlaced, KnowsDaemon, Talking, CliStates, MaybeDaemon, PingAnswered,
         PingUnanswered
<1>2. CASE PingAnswered(c)
  <2>1. daemon[cli[c].conn].build \in {"ours", "old"}
    BY <1>1 DEF ProcessInv, ProcessRanges
  <2> QED
    BY <1>1, <1>2, <2>1, CliJudgesProcessInv DEF PingAnswered
<1>3. CASE PingUnanswered(c) /\ CliJudges(c, "unresponsive")
  BY <1>1, <1>3, CliJudgesProcessInv DEF PingUnanswered
<1>4. CASE PingUnanswered(c) /\ ~CliJudges(c, "unresponsive")
  <2>1. /\ Connectable
        /\ cli' = [cli EXCEPT ![c] = [cli[c] EXCEPT !.tries = @ + 1, !.conn = socket]]
    BY <1>4 DEF PingUnanswered
  <2>2. [cli[c] EXCEPT !.tries = @ + 1, !.conn = socket]
          = [cli[c] EXCEPT !.conn = socket, !.pc = "ping", !.tries = cli[c].tries + 1]
    BY <1>1 DEF CliStates
  <2>3. cli[c].tries + 1 \in 0 .. Confirmations + 1
    BY <1>1, <1>4 DEF CliStates, PingUnanswered
  <2> QED
    BY <1>1, <1>4, <2>1, <2>2, <2>3, DialProcessInv DEF PingUnanswered, BeforeSending
<1> QED
  BY <1>2, <1>3, <1>4

LEMMA WaitsProcessInv ==
  ASSUME ProcessInv, NEW c \in Clis, DaemonIsGone(c) \/ CliAwaits(c)
  PROVE  ProcessInv'
<1>1. cli[c] \in CliStates
  BY DEF ProcessInv, ProcessRanges
<1>2. CASE DaemonIsGone(c)
  BY <1>1, <1>2, GoProcessInv DEF DaemonIsGone, BeforeSending, Talking
<1>3. CASE CliAwaits(c) /\ Says(c, "timeout")
  BY <1>1, <1>3, SaysProcessInv DEF CliAwaits
<1>4. CASE CliAwaits(c) /\ ~Says(c, "timeout")
  <2>1. /\ Connectable
        /\ cli' = [cli EXCEPT ![c] = [cli[c] EXCEPT !.conn = socket, !.pc = "send"]]
    BY <1>4 DEF CliAwaits
  <2>2. [cli[c] EXCEPT !.conn = socket, !.pc = "send"]
          = [cli[c] EXCEPT !.conn = socket, !.pc = "send", !.tries = cli[c].tries]
    BY <1>1 DEF CliStates
  <2>3. cli' = [cli EXCEPT ![c] = [cli[c] EXCEPT !.conn = socket, !.pc = "send",
                                                 !.tries = cli[c].tries]]
    BY <2>1, <2>2
  <2>4. cli[c].tries \in 0 .. Confirmations + 1 /\ cli[c].pc \in BeforeSending
    BY <1>1, <1>4 DEF CliStates, CliAwaits, BeforeSending
  <2>5. UNCHANGED <<pidFile, socket, daemon, executed, stopped, crashes>>
    BY <1>4 DEF CliAwaits
  <2> QED
    BY <2>1, <2>3, <2>4, <2>5, DialProcessInv
<1> QED
  BY <1>2, <1>3, <1>4

LEMMA RequestStepsProcessInv ==
  ASSUME ProcessInv, NEW c \in Clis, RequestTimesOut(c) \/ ConnectionClosed(c)
  PROVE  ProcessInv'
<1>1. cli[c] \in CliStates
  BY DEF ProcessInv, ProcessRanges
<1>2. CASE RequestTimesOut(c)
  BY <1>1, <1>2, SaysProcessInv DEF RequestTimesOut
<1>3. CASE ConnectionClosed(c) /\ Says(c, "closed")
  BY <1>1, <1>3, SaysProcessInv DEF ConnectionClosed
<1>4. CASE ConnectionClosed(c) /\ ~Says(c, "closed")
  <2>1. /\ Connectable /\ cli[c].run \in IsReadOnly
        /\ cli' = [cli EXCEPT ![c] = [cli[c] EXCEPT !.conn = socket, !.pc = "send",
                                                    !.tries = Confirmations + 1]]
    BY <1>4 DEF ConnectionClosed, MayRetry
  <2>2. Confirmations + 1 \in 0 .. Confirmations + 1
    OBVIOUS
  <2>3. UNCHANGED <<pidFile, socket, daemon, executed, stopped, crashes>>
    BY <1>4 DEF ConnectionClosed
  <2> QED
    BY <2>1, <2>2, <2>3, DialProcessInv
<1> QED
  BY <1>2, <1>3, <1>4

LEMMA RequestTakesEffectProcessInv ==
  ASSUME ProcessInv, NEW c \in Clis, RequestTakesEffect(c)
  PROVE  ProcessInv'
<1> USE DEF ProcessInv, ProcessRanges, RequestTakesEffect
<1>1. PICK q \in CliStates, n \in Nat : q = cli[c] /\ n = executed[c]
  OBVIOUS
<1> DEFINE r == [q EXCEPT !.pc = "effected"]
<1>2. cli' = [cli EXCEPT ![c] = r] /\ executed' = [executed EXCEPT ![c] = n + 1]
  BY <1>1 DEF Go
<1>3. r \in CliStates /\ r.run = cli[c].run
  BY <1>1 DEF CliStates
<1>4. n + 1 \in Nat /\ RightlyPlaced(r, n + 1)
  BY <1>1 DEF RightlyPlaced, KnowsDaemon, JudgedIsKilled, Effected, BeforeSending, Talking, Started, CliStates
<1> QED
  BY <1>2, <1>3, <1>4, CliOnly

(* The files are removed, whoever's they are.                              *)
LEMMA RemovesFilesProcessInv ==
  ASSUME ProcessInv, NEW c \in Clis, CliTidies(c) \/ CliCleans(c)
  PROVE  ProcessInv'
<1> USE DEF ProcessInv, ProcessRanges
<1>0. PICK q \in CliStates, n \in Nat : q = cli[c] /\ n = executed[c]
  OBVIOUS
<1>1. /\ pidFile' = NoDaemon /\ socket' = NoDaemon
      /\ UNCHANGED <<daemon, executed, stopped, crashes>>
  BY DEF CliTidies, CliCleans
<1>2. Advance /\ OldIsFirst' /\ ~OldInPlace' /\ Started(pidFile)' /\ Started(socket)'
  BY <1>1 DEF Advance, OldIsFirst, OldInPlace, Started
<1>3. CASE Go(c, "start")
  <2> DEFINE r == [q EXCEPT !.pc = "start"]
  <2>1. cli' = [cli EXCEPT ![c] = r] /\ executed' = [executed EXCEPT ![c] = n]
    BY <1>0, <1>1, <1>3 DEF Go
  <2>2. r \in CliStates /\ r.run = cli[c].run
    BY ZenonT(30), <1>0 DEF CliStates, BeforeSending
  <2>3. cli[c].pc \in BeforeSending
    BY DEF CliTidies, CliCleans, BeforeSending
  <2>4. RightlyPlaced(r, n)'
    BY SMTT(20), <1>0, <1>1, <1>2, <2>3 DEF RightlyPlaced, KnowsDaemon, JudgedIsKilled, Effected, BeforeSending,
         Talking, Started, CliStates
  <2> QED
    BY <1>1, <1>2, <2>1, <2>2, <2>4, CliMoves DEF MaybeDaemon
<1>4. CASE Says(c, "not_running")
  <2> DEFINE r == [q EXCEPT !.pc = "done", !.verdict = "not_running"]
  <2>1. cli' = [cli EXCEPT ![c] = r] /\ executed' = [executed EXCEPT ![c] = n]
    BY <1>0, <1>1, <1>4 DEF Says
  <2>2. r \in CliStates /\ r.run = cli[c].run
    BY <1>0 DEF CliStates
  <2>3. RightlyPlaced(r, n)'
    BY <1>0, <1>1, <1>2 DEF RightlyPlaced, KnowsDaemon, JudgedIsKilled, Effected, BeforeSending,
         Talking, Started, CliStates
  <2> QED
    BY <1>1, <1>2, <2>1, <2>2, <2>3, CliMoves DEF MaybeDaemon
<1> QED
  BY <1>3, <1>4 DEF CliTidies, CliCleans

(* A daemon is stopped or killed, in the name of a command line.           *)
LEMMA StopsProcessInv ==
  ASSUME ProcessInv, NEW c \in Clis, NEW r \in CliStates, NEW d \in Daemons,
         NEW to \in {"stopping", "dead"},
         cli' = [cli EXCEPT ![c] = r], r.run = cli[c].run, RightlyPlaced(r, executed[c])',
         daemon' = [daemon EXCEPT ![d].phase = to],
         daemon[d].phase \notin {"none", "spawned", "numbered", "binding"} \/ to = "dead",
         daemon[d].phase \notin {"none", "dead"},
         stopped' = stopped \cup {<<d, c>>},
         daemon[d].build = "ours" => cli[c].run \in {"replace", "disconnect"},
         UNCHANGED <<pidFile, socket, executed, crashes>>
  PROVE  ProcessInv'
<1> USE DEF ProcessInv, ProcessRanges
<1>1. PICK n \in Nat : n = executed[c]
  OBVIOUS
<1>2. executed' = [executed EXCEPT ![c] = n] /\ RightlyPlaced(r, n)'
  BY <1>1
<1>3. Advance
  BY NewPhase DEF Advance, DaemonPhases
<1>4. OldIsFirst' /\ Started(pidFile)' /\ Started(socket)'
  BY NewPhase DEF DaemonPhases, OldIsFirst, OldInPlace, Started, MaybeDaemon
<1>5. \A s \in stopped' \ stopped :
        daemon'[s[1]].build = "ours" => cli[s[2]].run \in {"replace", "disconnect"}
  BY <1>3 DEF Advance
<1>6. stopped' \subseteq Daemons \X Clis
  OBVIOUS
<1> QED
  BY <1>2, <1>3, <1>4, <1>5, <1>6, CliMoves

LEMMA CliSendsShutdownProcessInv ==
  ASSUME ProcessInv, NEW c \in Clis, CliSendsShutdown(c)
  PROVE  ProcessInv'
<1> USE DEF ProcessInv, ProcessRanges
<1>0. PICK q \in CliStates, n \in Nat : q = cli[c] /\ n = executed[c]
  OBVIOUS
<1> DEFINE r == [q EXCEPT !.pc = "wait"]
<1>1. cli' = [cli EXCEPT ![c] = r]
  BY <1>0 DEF Go, CliSendsShutdown
<1>2. r \in CliStates /\ r.run = cli[c].run
  BY ZenonT(30), <1>0 DEF CliStates, BeforeSending
<1>3. RightlyPlaced(r, n)
  BY <1>0 DEF CliSendsShutdown, RightlyPlaced, KnowsDaemon, JudgedIsKilled, Effected, BeforeSending, Talking,
       Started, CliStates
<1>4. CASE daemon' = daemon /\ stopped' = stopped
  <2>1. executed' = [executed EXCEPT ![c] = n]
    BY <1>0 DEF CliSendsShutdown
  <2> QED
    BY <1>1, <1>2, <1>3, <1>4, <2>1, CliOnly DEF CliSendsShutdown
<1>5. CASE ~(daemon' = daemon /\ stopped' = stopped)
  <2>1. PICK d \in Daemons : d = cli[c].conn
    BY DEF RightlyPlaced, KnowsDaemon, Talking, CliSendsShutdown, CliStates, MaybeDaemon
  <2>2. /\ daemon[d].phase = "listening"
        /\ daemon' = [daemon EXCEPT ![d].phase = "stopping"]
        /\ stopped' = stopped \cup {<<d, c>>}
        /\ UNCHANGED <<pidFile, socket, executed, crashes>>
    BY <1>5, <2>1 DEF CliSendsShutdown
  <2>3. daemon[d].build = "ours" => cli[c].run \in {"replace", "disconnect"}
    BY <2>1 DEF CliSendsShutdown, RightlyPlaced, JudgedIsKilled
  <2>4. Advance
    BY <2>2, NewPhase DEF Advance, DaemonPhases
  <2>5. RightlyPlaced(r, n)'
    BY <1>2, <1>3, <2>4, StillStands
  <2> QED
    BY <1>0, <1>1, <1>2, <2>2, <2>3, <2>5, StopsProcessInv
<1> QED
  BY <1>4, <1>5

LEMMA CliKillsProcessInv ==
  ASSUME ProcessInv, NEW c \in Clis, CliKills(c)
  PROVE  ProcessInv'
<1> USE DEF ProcessInv, ProcessRanges
<1>0. PICK q \in CliStates, n \in Nat : q = cli[c] /\ n = executed[c]
  OBVIOUS
<1> DEFINE r == [q EXCEPT !.pc = "clean"]
<1>1. cli' = [cli EXCEPT ![c] = r]
  BY <1>0 DEF Go, CliKills
<1>2. r \in CliStates /\ r.run = cli[c].run
  BY ZenonT(30), <1>0 DEF CliStates, BeforeSending
<1>3. PICK d \in Daemons : d = cli[c].pid
  BY DEF RightlyPlaced, KnowsDaemon, CliKills, CliStates, MaybeDaemon
<1>4. /\ daemon' = [daemon EXCEPT ![d].phase = "dead"]
      /\ daemon[d].phase \notin {"none", "dead"}
      /\ stopped' = stopped \cup {<<d, c>>}
      /\ UNCHANGED <<pidFile, socket, executed, crashes>>
  BY <1>3 DEF CliKills, Alive
<1>5. daemon[d].build = "ours" => cli[c].run \in {"replace", "disconnect"}
  BY <1>3 DEF CliKills, RightlyPlaced, JudgedIsKilled
<1>6. Advance /\ daemon'[d].phase = "dead"
  BY <1>4, NewPhase DEF Advance, DaemonPhases
<1>7. KnowsDaemon(r)'
  BY <1>0, <1>3, <1>4, <1>6 DEF CliKills, Advance, RightlyPlaced, KnowsDaemon, Started, Talking, Alive,
       OldInPlace, CliStates, MaybeDaemon
<1>8. JudgedIsKilled(r)' /\ Effected(r, n)'
  BY <1>0 DEF CliKills, RightlyPlaced, JudgedIsKilled, Effected, BeforeSending, CliStates
<1> QED
  BY <1>0, <1>1, <1>2, <1>4, <1>5, <1>7, <1>8, StopsProcessInv DEF RightlyPlaced

LEMMA CliStartsDaemonProcessInv ==
  ASSUME ProcessInv, NEW c \in Clis, CliStartsDaemon(c)
  PROVE  ProcessInv'
<1> USE DEF ProcessInv, ProcessRanges
<1>0. PICK q \in CliStates, n \in Nat : q = cli[c] /\ n = executed[c]
  OBVIOUS
<1> DEFINE r == [q EXCEPT !.pc = "await"]
<1>1. cli' = [cli EXCEPT ![c] = r] /\ executed' = [executed EXCEPT ![c] = n]
  BY <1>0 DEF Go, CliStartsDaemon
<1>2. r \in CliStates /\ r.run = cli[c].run
  BY ZenonT(30), <1>0 DEF CliStates, BeforeSending
<1>3. PICK d \in Daemons :
        /\ daemon[d].phase = "none"
        /\ daemon' = [daemon EXCEPT ![d].phase = "spawned"]
  BY DEF CliStartsDaemon
<1>4. UNCHANGED <<pidFile, socket, stopped, crashes>>
  BY DEF CliStartsDaemon
<1>5. ~OldInPlace
  BY DEF CliStartsDaemon, RightlyPlaced, KnowsDaemon
<1>6. Advance
  BY <1>3, <1>4, NewPhase DEF Advance, DaemonPhases
<1>7. OldIsFirst' /\ Started(pidFile)' /\ Started(socket)'
  BY <1>3, <1>4, <1>5, <1>6, NewPhase DEF DaemonPhases, OldIsFirst, OldInPlace, Started, MaybeDaemon
<1>8. RightlyPlaced(r, n)
  BY <1>0 DEF CliStartsDaemon, RightlyPlaced, KnowsDaemon, JudgedIsKilled, Effected, BeforeSending, Talking,
       Started, CliStates
<1>9. RightlyPlaced(r, n)'
  BY <1>2, <1>6, <1>8, StillStands
<1> QED
  BY <1>1, <1>2, <1>4, <1>6, <1>7, <1>9, CliMoves

LEMMA RequestAnsweredProcessInv ==
  ASSUME ProcessInv, NEW c \in Clis, RequestAnswered(c)
  PROVE  ProcessInv'
<1> USE DEF ProcessInv, ProcessRanges
<1>0. PICK q \in CliStates, n \in Nat : q = cli[c] /\ n = executed[c]
  OBVIOUS
<1>1. CASE daemon' = daemon /\ stopped' = stopped
  BY <1>0, <1>1, SaysProcessInv DEF RequestAnswered, RightlyPlaced, Effected
<1>2. CASE ~(daemon' = daemon /\ stopped' = stopped)
  <2> DEFINE r == [q EXCEPT !.pc = "done", !.verdict = "ok"]
  <2>1. cli' = [cli EXCEPT ![c] = r]
    BY <1>0 DEF Says, RequestAnswered
  <2>2. r \in CliStates /\ r.run = cli[c].run
    BY <1>0 DEF CliStates
  <2>3. PICK d \in Daemons : d = cli[c].conn
    BY DEF RightlyPlaced, KnowsDaemon, Talking, RequestAnswered, CliStates, MaybeDaemon
  <2>4. /\ daemon[d].phase = "listening" /\ cli[c].run = "disconnect"
        /\ daemon' = [daemon EXCEPT ![d].phase = "stopping"]
        /\ stopped' = stopped \cup {<<d, c>>}
        /\ UNCHANGED <<pidFile, socket, executed, crashes>>
    BY <1>2, <2>3 DEF RequestAnswered
  <2>5. RightlyPlaced(r, n)
    BY <1>0 DEF RequestAnswered, RightlyPlaced, KnowsDaemon, JudgedIsKilled, Effected, BeforeSending, Talking,
         Started, CliStates
  <2>6. Advance
    BY <2>4, NewPhase DEF Advance, DaemonPhases
  <2>7. RightlyPlaced(r, n)'
    BY <2>2, <2>5, <2>6, StillStands
  <2> QED
    BY <1>0, <2>1, <2>2, <2>4, <2>7, StopsProcessInv
<1> QED
  BY <1>1, <1>2

LEMMA CliStepProcessInv ==
  ASSUME ProcessInv, NEW c \in Clis, CliStep(c)
  PROVE  ProcessInv'
BY CliLooksProcessInv, RemovesFilesProcessInv, CliDialsProcessInv, PingsProcessInv, CliSendsShutdownProcessInv, WaitsProcessInv,
   CliKillsProcessInv, CliStartsDaemonProcessInv, RequestTakesEffectProcessInv, RequestAnsweredProcessInv,
   RequestStepsProcessInv DEF CliStep

LEMMA StutterProcessInv == ProcessInv /\ UNCHANGED processVars => ProcessInv'
BY DEF ProcessInv, ProcessRanges, Started, OldInPlace, OldIsFirst, BusyDaemonSpared, RightlyPlaced, KnowsDaemon,
   JudgedIsKilled, Effected, Alive

LEMMA NextProcessInv == ProcessInv /\ [ProcessNext]_processVars => ProcessInv'
<1>1. ProcessInv /\ ProcessNext => ProcessInv'
  BY DaemonStepProcessInv, CliStepProcessInv DEF ProcessNext
<1> QED
  BY <1>1, StutterProcessInv

LEMMA ProcessInvHolds == ProcessSpec => []ProcessInv
BY InitProcessInv, NextProcessInv, PTL DEF ProcessSpec

-----------------------------------------------------------------------------
(* The variables keep to their ranges; a command line asks again as often  *)
(* as it may, and once more (session_manager.rs UNRESPONSIVE_CONFIRMATIONS,*)
(* ipc_client.rs send_with_retry).                                         *)
THEOREM ProcessTypeCorrect == ProcessSpec => []ProcessTypeOK
<1>1. ProcessInv => ProcessTypeOK
  BY DEF ProcessInv, ProcessRanges, ProcessTypeOK, CliStates, DaemonPhases, MaybeDaemon
<1> QED
  BY <1>1, ProcessInvHolds, PTL

(* A request that changes something takes effect at most once, whichever   *)
(* daemons die, are stopped or take over while the command line waits, and *)
(* one that is reported done took effect (ipc_client.rs send_with_retry    *)
(* retries what only reads, and nothing else).                             *)
THEOREM RequestsTakeEffectOnce == ProcessSpec => []EffectOnce
<1>1. ProcessInv => EffectOnce
  BY DEF ProcessInv, ProcessRanges, EffectOnce, RightlyPlaced, Effected
<1> QED
  BY <1>1, ProcessInvHolds, PTL

(* A daemon of this build is stopped in the name of disconnect and connect *)
(* --replace alone, however often its pings go unanswered and however many *)
(* command lines judge it at once (session_manager.rs decide_replacement,  *)
(* stop_daemon).                                                           *)
THEOREM BusyDaemonsAreSpared == ProcessSpec => []BusyDaemonSpared
<1>1. ProcessInv => BusyDaemonSpared
  BY DEF ProcessInv
<1> QED
  BY <1>1, ProcessInvHolds, PTL

(* A command line that has stopped a daemon starts another only after the  *)
(* process whose pid it read is gone, asked or killed (session_manager.rs  *)
(* stop_daemon).                                                           *)
THEOREM ReplacedDaemonsAreGone == ProcessSpec => []ReplacedIsGone
<1>1. ProcessInv => ReplacedIsGone
  BY DEF ProcessInv, ReplacedIsGone, RightlyPlaced, KnowsDaemon
<1> QED
  BY <1>1, ProcessInvHolds, PTL

=============================================================================
