---------------------------- MODULE ViewerStream ----------------------------
(***************************************************************************)
(* Viewers of the desktop.  The frame processor paints the image and       *)
(* counts its generations; on every tick the daemon's loop compares the    *)
(* count with the one it broadcast last and sends a new image to a channel *)
(* that holds the last few messages for each subscriber; notices that the  *)
(* remote clipboard has changed go the same way.  A viewer that            *)
(* connects is subscribed when its connection is accepted, registered when *)
(* the handshake is over, and sent the image of that moment before it      *)
(* starts on the channel.                                                  *)
(*                                                                         *)
(* An image is the number of the generation that painted it.  One session  *)
(* is followed.                                                            *)
(***************************************************************************)
EXTENDS Naturals, Sequences

CONSTANTS
    Viewers,        \* viewers that connect
    Kept,           \* messages the channel keeps per subscriber
    MaxPaintings    \* bound: generations painted

ASSUME ViewerAssumption == {Kept, MaxPaintings} \subseteq Nat \ {0}

VARIABLES
    painted,        \* frame_generation, and the image itself
    lastBroadcast,  \* last_broadcast_generation
    tick,           \* the loop: idle, or the generation and image it read
    viewer,         \* each viewer: away, accepted, registered, streams
    channel,        \* each subscriber's messages, oldest first
    shown,          \* what each viewer shows
    passedOver      \* observer: viewers that an image was lost to which no
                    \* broadcast since has made good

viewerVars == <<painted, lastBroadcast, tick, viewer, channel, shown,
                passedOver>>

NoImage == 0
Notice == 0    \* clipboard_changed, among the images of a channel
Resting == <<"idle", 0, 0>>
Registered == {v \in Viewers : viewer[v] \in {"registered", "streams"}}
Subscribed == {v \in Viewers : viewer[v] # "away"}

ViewerInit ==
    /\ painted = 1
    /\ lastBroadcast = NoImage
    /\ tick = Resting
    /\ viewer = [v \in Viewers |-> "away"]
    /\ channel = [v \in Viewers |-> <<>>]
    /\ shown = [v \in Viewers |-> NoImage]
    /\ passedOver = {}

Paints ==
    /\ painted < MaxPaintings
    /\ painted' = painted + 1
    /\ UNCHANGED <<lastBroadcast, tick, viewer, channel, shown, passedOver>>

-----------------------------------------------------------------------------
(* The frame arm: with someone registered, the generation is read first,   *)
(* then the image, each under its own lock; an image that is newer than    *)
(* its generation is broadcast again on the next tick.                     *)
ReadsGeneration ==
    /\ tick = Resting /\ Registered # {} /\ lastBroadcast # painted
    /\ tick' = <<"generation", painted, 0>>
    /\ UNCHANGED <<painted, lastBroadcast, viewer, channel, shown, passedOver>>

ReadsImage ==
    /\ tick[1] = "generation"
    /\ tick' = <<"read", tick[2], painted>>
    /\ UNCHANGED <<painted, lastBroadcast, viewer, channel, shown, passedOver>>

LastOf(s) == IF Len(s) > Kept THEN Tail(s) ELSE s

Queues(m) ==
    channel' = [v \in Viewers |-> IF v \in Subscribed
                                  THEN LastOf(Append(channel[v], m))
                                  ELSE channel[v]]

(* broadcast_frame, unless the last viewer has left meanwhile or the image *)
(* cannot be encoded; the generation counts as broadcast in any case.      *)
Sends ==
    /\ \/ Registered # {} /\ Queues(tick[3]) /\ passedOver' = {}
       \/ UNCHANGED channel /\ passedOver' = Subscribed
    /\ tick' = Resting
    /\ UNCHANGED <<painted, viewer, shown>>

(* Mutant: the generation is noted after the broadcast.                    *)
BroadcastsThenReads ==
    tick[1] = "read" /\ Sends /\ lastBroadcast' = painted

Broadcasts ==
    tick[1] = "read" /\ Sends /\ lastBroadcast' = tick[2]

Images(s) == {i \in DOMAIN s : s[i] # Notice}

(* broadcast_clipboard_changed, from the same loop.  In a full channel the *)
(* notice takes the place of the oldest message, be it the last image.     *)
Notifies ==
    /\ tick = Resting /\ Registered # {}
    /\ Queues(Notice)
    /\ passedOver' = passedOver \cup
           {v \in Viewers : viewer[v] = "streams" /\ Images(channel'[v]) = {}
                                                 /\ Images(channel[v]) # {}}
    /\ UNCHANGED <<painted, lastBroadcast, tick, viewer, shown>>

-----------------------------------------------------------------------------
(* A viewer: accepted and subscribed, then registered; the image of the    *)
(* moment, if it can be encoded; the channel, whose oldest messages are    *)
(* lost to one that lags.                                                  *)
Accepts(v) ==
    /\ viewer[v] = "away"
    /\ viewer' = [viewer EXCEPT ![v] = "accepted"]
    /\ UNCHANGED <<painted, lastBroadcast, tick, channel, shown, passedOver>>

Registers(v) ==
    /\ viewer[v] = "accepted"
    /\ viewer' = [viewer EXCEPT ![v] = "registered"]
    /\ UNCHANGED <<painted, lastBroadcast, tick, channel, shown, passedOver>>

FirstImage(v) ==
    /\ viewer[v] = "registered"
    /\ \/ shown' = [shown EXCEPT ![v] = painted] /\ UNCHANGED passedOver
       \/ passedOver' = passedOver \cup {v} /\ UNCHANGED shown
    /\ viewer' = [viewer EXCEPT ![v] = "streams"]
    /\ UNCHANGED <<painted, lastBroadcast, tick, channel>>

TakesMessage(v) ==
    /\ viewer[v] = "streams" /\ channel[v] # <<>>
    /\ shown' = IF Head(channel[v]) = Notice THEN shown
                ELSE [shown EXCEPT ![v] = Head(channel[v])]
    /\ channel' = [channel EXCEPT ![v] = Tail(@)]
    /\ UNCHANGED <<painted, lastBroadcast, tick, viewer, passedOver>>

Leaves(v) ==
    /\ viewer[v] # "away"
    /\ viewer' = [viewer EXCEPT ![v] = "away"]
    /\ channel' = [channel EXCEPT ![v] = <<>>]
    /\ shown' = [shown EXCEPT ![v] = NoImage]
    /\ passedOver' = passedOver \ {v}
    /\ UNCHANGED <<painted, lastBroadcast, tick>>

ViewerNext ==
    \/ Paints \/ ReadsGeneration \/ ReadsImage \/ Broadcasts \/ Notifies
    \/ \E v \in Viewers :
          Accepts(v) \/ Registers(v) \/ FirstImage(v) \/ TakesMessage(v)
          \/ Leaves(v)

ViewerSpec == ViewerInit /\ [][ViewerNext]_viewerVars

-----------------------------------------------------------------------------
ViewerTypeOK ==
    /\ painted \in 1..MaxPaintings
    /\ lastBroadcast \in 0..painted
    /\ tick[2] \in 0..painted /\ tick[3] \in 0..painted
    /\ viewer \in [Viewers -> {"away", "accepted", "registered", "streams"}]
    /\ \A v \in Viewers : Len(channel[v]) <= Kept /\ shown[v] \in 0..painted
    /\ passedOver \subseteq Subscribed

(* No viewer is left with an old picture of a desktop that has gone quiet: *)
(* the current image is on its screen, on its way in its channel, or will  *)
(* be broadcast by the next tick.  The exceptions, until the next          *)
(* broadcast: a viewer still on its way in when the last registered one    *)
(* leaves in the middle of a broadcast, one that lags so far behind that   *)
(* clipboard notices push the last image out of its channel, and images    *)
(* that cannot be encoded.                                                 *)
NoViewerLeftBehind ==
    \A v \in Viewers \ passedOver : viewer[v] = "streams" =>
        \/ painted \in {shown[v]} \cup {channel[v][i] : i \in DOMAIN channel[v]}
        \/ lastBroadcast # painted
=============================================================================
