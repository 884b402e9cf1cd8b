-------------------------- MODULE MCServices_proofs --------------------------
(***************************************************************************)
(* The run of the services (MCServices) composes ten specifications that   *)
(* share no variable.  It implements each of them, so what the proof       *)
(* modules of the services show of each alone holds of the composition.    *)
(***************************************************************************)
EXTENDS MCServices, Services_proofs, AgentLaunch_proofs, FileTransfer_proofs, CliWaits_proofs,
        TLAPS

servicesVars == <<service, transferVars, processVars, driveVars, inputVars, clipVars,
                  viewerVars, launchVars, ladderVars, followVars, screenVars>>

-----------------------------------------------------------------------------
(* A step of the composition, seen by each of the services.                *)
EachSteps ==
  /\ [TransferNext]_transferVars
  /\ [ProcessNext]_processVars
  /\ [DriveNext]_driveVars
  /\ [InputNext]_inputVars
  /\ [ClipNext]_clipVars
  /\ [ViewerNext]_viewerVars
  /\ [LaunchNext]_launchVars
  /\ [LadderNext]_ladderVars
  /\ [FollowNext]_followVars
  /\ [ScreenNext]_screenVars

(* Whichever service takes the step, it is a step of that service's        *)
(* specification and leaves the variables of the nine others alone.        *)
LEMMA EachServiceSteps ==
  ASSUME [ServicesNext]_servicesVars
  PROVE  EachSteps
<1>1. CASE UNCHANGED servicesVars
  BY <1>1 DEF servicesVars, EachSteps
<1>2. CASE service = "transfer" /\ TransferNext /\ OthersStand
  BY <1>2 DEF OthersStand, Stays, EachSteps
<1>3. CASE service = "process" /\ ProcessNext /\ OthersStand
  BY <1>3 DEF OthersStand, Stays, EachSteps
<1>4. CASE service = "drive" /\ DriveNext /\ OthersStand
  BY <1>4 DEF OthersStand, Stays, EachSteps
<1>5. CASE service = "input" /\ InputNext /\ OthersStand
  BY <1>5 DEF OthersStand, Stays, EachSteps
<1>6. CASE service = "clipboard" /\ ClipNext /\ OthersStand
  BY <1>6 DEF OthersStand, Stays, EachSteps
<1>7. CASE service = "viewers" /\ ViewerNext /\ OthersStand
  BY <1>7 DEF OthersStand, Stays, EachSteps
<1>8. CASE service = "launch" /\ LaunchNext /\ OthersStand
  BY <1>8 DEF OthersStand, Stays, EachSteps
<1>9. CASE service = "ladder" /\ LadderNext /\ OthersStand
  BY <1>9 DEF OthersStand, Stays, EachSteps
<1>10. CASE service = "follow" /\ FollowNext /\ OthersStand
  BY <1>10 DEF OthersStand, Stays, EachSteps
<1>11. CASE service = "screen" /\ ScreenNext /\ OthersStand
  BY <1>11 DEF OthersStand, Stays, EachSteps
<1> QED
  BY <1>1, <1>2, <1>3, <1>4, <1>5, <1>6, <1>7, <1>8, <1>9, <1>10, <1>11 DEF ServicesNext

(* The composed run is a behaviour of every service: what starts one (a    *)
(* plan of its own or the one it stands at) is an initial state of its     *)
(* specification, and no service can disturb another.                      *)
THEOREM EveryServiceRuns ==
  ServicesSpec => /\ TransferSpec /\ ProcessSpec /\ DriveSpec /\ InputSpec /\ ClipSpec
                  /\ ViewerSpec /\ LaunchSpec /\ LadderSpec /\ FollowSpec /\ ScreenSpec
<1>1. ServicesInit => /\ TransferInit /\ ProcessInit /\ DriveInit /\ InputInit /\ ClipInit
                      /\ ViewerInit /\ LaunchInit /\ LadderInit /\ FollowInit /\ ScreenInit
  BY DEF ServicesInit
<1>2. [ServicesNext]_servicesVars => EachSteps
  BY EachServiceSteps
<1> QED
  BY <1>1, <1>2, PTL DEF ServicesSpec, servicesVars, EachSteps, TransferSpec, ProcessSpec, DriveSpec,
     InputSpec, ClipSpec, ViewerSpec, LaunchSpec, LadderSpec, FollowSpec, ScreenSpec

-----------------------------------------------------------------------------
(* What holds of each service holds of the composition.                    *)

LEMMA OneServiceRuns == ServicesSpec => [](service \in Services)
<1>1. ServicesInit => service \in Services
  BY DEF ServicesInit
<1>2. service \in Services /\ [ServicesNext]_servicesVars => (service \in Services)'
  BY DEF ServicesNext, OthersStand, servicesVars
<1> QED
  BY <1>1, <1>2, PTL DEF ServicesSpec, servicesVars

(* The variables of the service that runs keep to their types, whatever    *)
(* the plans, the limits and the lengths of the queues: the argument of    *)
(* each service's own type theorem, on the specification that the run      *)
(* checks.                                                                 *)
THEOREM ServicesTypeCorrect == ServicesSpec => []ServicesTypeOK
<1>1. /\ service \in Services
      /\ TransferTypeOK /\ ProcessTypeOK /\ DriveTypeOK /\ InputTypeOK /\ ClipTypeOK
      /\ ViewerTypeOK /\ LaunchTypeOK /\ LadderTypeOK /\ FollowTypeOK /\ ScreenTypeOK
      => ServicesTypeOK
  BY DEF Services, ServicesTypeOK
<1> QED
  BY <1>1, OneServiceRuns, EveryServiceRuns, TransferTypeCorrect, ProcessTypeCorrect,
     DriveTypeCorrect, InputTypeCorrect, ClipTypeCorrect, ViewerTypeCorrect, LaunchTypeCorrect,
     LadderTypeCorrect, FollowTypeCorrect, ScreenTypeCorrect, PTL

(* The composition keeps all that its services promise: files arrive whole *)
(* and their verdicts stay true, requests take effect once and busy        *)
(* daemons live on, handles belong to their paths, reported input landed   *)
(* unbroken, the clipboard drops no getter, viewers and launches are not   *)
(* forgotten, output is counted, clicks follow a judged picture, and the   *)
(* daemon gives up before those that wait for it if it is given the time.  *)
THEOREM ServicesKeepPromises ==
  ServicesSpec =>
    /\ [](WholeFiles /\ PushVerdictsHold /\ SidecarsCleared)
    /\ [](EffectOnce /\ BusyDaemonSpared /\ ReplacedIsGone)
    /\ [](PathNamesHandle /\ ListingWhole) /\ DeletesAsAsked
    /\ []ToldIsLanded /\ ComboUnbroken
    /\ []CacheIsAnnounced /\ GetterNotDropped
    /\ [](NoViewerLeftBehind /\ InFlightHasLauncher /\ AgentDownIsScheduled)
    /\ [](OutputAccounted /\ ClicksJudged)
    /\ EnoughTime => []DaemonGivesUpFirst
<1> QED
  BY EveryServiceRuns, FilesAreWhole, PushVerdictsStayTrue, SidecarsAreCleared,
     RequestsTakeEffectOnce, BusyDaemonsAreSpared, ReplacedDaemonsAreGone, PathsNameHandles,
     ListingsAreWhole, ClosesDeleteAsAsked, ToldInputIsLanded, CombosAreUnbroken,
     CachesAreAnnounced, GettersAreNotDropped, NobodyLeftBehind, FlagsHaveLaunchers,
     DownAgentsAreScheduled, OutputIsAccounted, ClicksAreJudged,
     DaemonIsFirst, PTL

=============================================================================
