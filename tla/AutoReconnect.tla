--------------------------- MODULE AutoReconnect ---------------------------
(***************************************************************************)
(* What the daemon remembers in order to bring a dropped session back, and *)
(* the rule that decides whether to try (agent-rdp-daemon/reconnect.rs).   *)
(*                                                                         *)
(* The record is one tokio mutex in the code: each operator below is one   *)
(* critical section.  Times are reduced to what the decisions read: that a *)
(* next attempt is published, and that some reconnect has succeeded.       *)
(***************************************************************************)
EXTENDS Naturals

CONSTANTS
  Requests,   \* the connect requests users may send (see DaemonSession)
  NoRequest,  \* "no request is retained"
  MaxShort    \* MAX_SHORT_SESSIONS: short-lived reconnects before giving up

ASSUME RequestsAssumption ==
  /\ Requests # {}
  /\ Requests \subseteq [auto : BOOLEAN, stream : BOOLEAN, automation : BOOLEAN]
  /\ NoRequest \notin Requests

ASSUME MaxShortAssumption == MaxShort \in Nat \ {0}

AutoReconnectState ==
  [ enabled     : BOOLEAN,
    request     : Requests \cup {NoRequest},
    stopped     : BOOLEAN,               \* stopped_reason is set
    inFlight    : BOOLEAN,
    scheduled   : BOOLEAN,               \* next_attempt_at is set
    short       : 0 .. MaxShort,         \* short_sessions
    reconnected : BOOLEAN ]              \* last_success is set

Default ==
  [ enabled |-> FALSE, request |-> NoRequest, stopped |-> FALSE, inFlight |-> FALSE,
    scheduled |-> FALSE, short |-> 0, reconnected |-> FALSE ]

(* A user's connect that succeeded is what later attempts repeat.          *)
Remember(req) ==
  [ Default EXCEPT !.enabled = req.auto, !.request = req ]

(* Give up until a human connects again.                                   *)
Stop(auto) == [ auto EXCEPT !.scheduled = FALSE, !.stopped = TRUE ]

(* This loop will not act; whoever holds inFlight keeps it.                *)
StandDown(auto) == [ auto EXCEPT !.scheduled = FALSE ]

(* A session that lived less than HEALTHY_SESSION after a reconnect counts *)
(* against MaxShort; any other drop starts the count over.                 *)
NoteOutage(auto, short) ==
  IF ~short THEN [ auto EXCEPT !.short = 0 ]
  ELSE IF auto.short + 1 >= MaxShort THEN [ Stop(auto) EXCEPT !.short = MaxShort ]
  ELSE [ auto EXCEPT !.short = @ + 1 ]

WorthRetrying(auto, short) == short => auto.short + 1 < MaxShort

NoteSuccess(auto) == [ auto EXCEPT !.scheduled = FALSE, !.reconnected = TRUE ]

(* An explicit disconnect forgets the credentials, and only those.         *)
Disarm(auto) ==
  [ auto EXCEPT !.enabled = FALSE, !.request = NoRequest, !.scheduled = FALSE ]

(* should_attempt: sameOutage says that neither a newer session nor a user *)
(* request has intervened since the drop.                                  *)
ShouldAttempt(auto, sameOutage) ==
  /\ auto.enabled
  /\ auto.request # NoRequest
  /\ ~auto.stopped
  /\ ~auto.inFlight
  /\ sameOutage

=============================================================================
