--------------------------- MODULE RequestOutcome ---------------------------
(***************************************************************************)
(* What the daemon promises of an automation request: the answer a caller  *)
(* gets, against what was executed on the remote desktop.  "done" is only  *)
(* said of a command that ran, "neverRan" and "notSent" only of a request  *)
(* that has not run and never will; every other answer claims nothing.     *)
(***************************************************************************)
EXTENDS Naturals, Sequences

CONSTANTS
  Requests,    \* what may be asked: records [key, cmd]
  NoKey,       \* the key of a request that has none
  MaxRequests  \* bound: requests asked

VARIABLES
  asks,  \* the requests, in the order they are asked
  told,  \* what the caller of each was told
  ran    \* those whose command took effect

Safe    == {"neverRan", "notSent"}
Claims  == Safe \cup {"done"}
NoClaim == {"failed", "refused", "closed", "unknown"}

(* Two requests stand for one execution if they share a key.               *)
OneRun(m, n) == m = n \/ (asks[m] = asks[n] /\ asks[n].key # NoKey)

OutcomeInit == asks = <<>> /\ told = [n \in 1 .. MaxRequests |-> "unasked"] /\ ran = {}

AskFor(r) ==
  /\ Len(asks) < MaxRequests
  /\ asks' = Append(asks, r)
  /\ told' = [told EXCEPT ![Len(asks) + 1] = "asked"]
  /\ UNCHANGED ran

RunOne(n) ==
  /\ told[n] \notin Safe
  /\ ran' = ran \cup {n}
  /\ UNCHANGED <<asks, told>>

AnswerOne(n, a) ==
  /\ told[n] = "asked" /\ told' = [told EXCEPT ![n] = a]
  /\ a = "done" => \E m \in ran : OneRun(m, n)
  /\ a \in Safe => n \notin ran
  /\ UNCHANGED <<asks, ran>>

OutcomeNext ==
  \/ \E r \in Requests : AskFor(r)
  \/ \E n \in DOMAIN asks : RunOne(n) \/ \E a \in Claims \cup NoClaim : AnswerOne(n, a)

OutcomeSpec == OutcomeInit /\ [][OutcomeNext]_<<asks, told, ran>>

-----------------------------------------------------------------------------
(* What that is worth to a caller.                                         *)

(* A request said to be safe to retry has not run; one said to be done     *)
(* did, itself or in the run it shares.                                    *)
AnswersTrue ==
  \A n \in 1 .. MaxRequests :
    /\ told[n] \in Safe => n \notin ran
    /\ told[n] = "done" => \E m \in ran : OneRun(m, n)

(* No answer is taken back, what ran has run, and a request said to be     *)
(* safe to retry never runs later, whatever is still on its way.           *)
AnswersStand ==
  [][/\ \A n \in 1 .. MaxRequests :
          /\ told[n] \notin {"unasked", "asked"} => told'[n] = told[n]
          /\ told[n] \in Safe => n \notin ran'
     /\ ran \subseteq ran']_<<asks, told, ran>>

=============================================================================
