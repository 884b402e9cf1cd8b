-------------------------- MODULE MCDaemonSession --------------------------
(***************************************************************************)
(* Instances of DaemonSession for TLC.                                     *)
(***************************************************************************)
EXTENDS DaemonSession, TLC

(* The requests users send: an unattended session, one that also streams   *)
(* and runs the agent, and a plain attended one.                           *)
Unattended == [auto |-> TRUE, stream |-> FALSE, automation |-> FALSE]
Full       == [auto |-> TRUE, stream |-> TRUE, automation |-> TRUE]
Plain      == [auto |-> FALSE, stream |-> FALSE, automation |-> FALSE]

UnattendedOnly == {Unattended}
FullOnly       == {Full}
AnyRequest     == {Full, Plain}

Symmetry == Permutations(Clients)

(* Bound: how many of the sessions drop.                                   *)
MaxDrops == 2

FewDropsSpec ==
  Init /\ [][Next /\ Cardinality({g \in Gens : life'[g] = "dropped"}) <= MaxDrops]_vars

(* No handler panics and no host hangs: what goes wrong, goes wrong in the *)
(* ordinary course.                                                        *)
CalmSpec     == Init /\ [][Steps]_vars
CalmFairSpec == CalmSpec /\ Fairness /\ HandshakesEnd

=============================================================================
