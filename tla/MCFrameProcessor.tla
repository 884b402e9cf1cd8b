-------------------------- MODULE MCFrameProcessor --------------------------
(***************************************************************************)
(* Instances of FrameProcessor for TLC.                                    *)
(***************************************************************************)
EXTENDS FrameProcessor

(* An idle desktop: the server sends nothing the client did not cause.     *)
IdleSpec == Init /\ [][Solicited]_vars

(* The keep-alive is on with its verdict; left out are the PDUs that just  *)
(* end the task, and clipboard commands, which do what BackgroundSends     *)
(* does.                                                                   *)
LiveInit == Init /\ config.keepAlive /\ config.silenceDrop

LiveNext ==
  /\ Next
  /\ inbox' \notin {<<"terminate">>, <<"broken">>}
  /\ queue' # <<"clipboard">>

LiveSpec == LiveInit /\ [][LiveNext]_vars /\ Fairness

=============================================================================
