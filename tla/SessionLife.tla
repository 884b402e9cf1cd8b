---------------------------- MODULE SessionLife ----------------------------
(***************************************************************************)
(* What one RDP session promises its owner.  It ends in one of two ways:   *)
(* it drops, and then owes the daemon one notice, or it is closed - but    *)
(* only after its owner has let go of it, which may also cost a notice     *)
(* still owed.  FrameProcessor keeps the promise; DaemonSession relies on  *)
(* it.                                                                     *)
(***************************************************************************)
VARIABLES
  life,    \* "none", "live", "dropped" (drop_reason is set) or "closed"
  owes,    \* a drop has yet to be notified
  given    \* the owner has given the session up

vars == <<life, owes, given>>

Init == life = "none" /\ ~owes /\ ~given

Start == life = "none" /\ life' = "live" /\ UNCHANGED <<owes, given>>

Drop == life = "live" /\ life' = "dropped" /\ owes' = TRUE /\ UNCHANGED given

Notify == owes /\ owes' = FALSE /\ UNCHANGED <<life, given>>

LetGo ==
  /\ life # "none"
  /\ given' = TRUE
  /\ life' \in {life, IF life = "live" THEN "closed" ELSE life}
  /\ owes' \in {owes, FALSE}

Next == Start \/ Drop \/ Notify \/ LetGo

Spec == Init /\ [][Next]_vars

-----------------------------------------------------------------------------
(* What that is worth to the owner.                                        *)

(* A session still held has not been closed behind its owner's back, and   *)
(* only a drop is notified.                                                *)
HeldOrTold == (life = "closed" => given) /\ (owes => life = "dropped")

(* It ends once and for good, owes a notice for its drop and only then,    *)
(* and is not taken back once it has been given up.                        *)
EndsOnce ==
  [][/\ life # "none" => life' # "none"
     /\ life \in {"dropped", "closed"} => life' = life
     /\ ~owes /\ owes' => life = "live" /\ life' = "dropped"
     /\ given => given']_vars

=============================================================================
