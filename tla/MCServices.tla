----------------------------- MODULE MCServices -----------------------------
(***************************************************************************)
(* The services around the session, each on its own instance.  They share  *)
(* no state, so their interleavings add nothing to what each does alone: a *)
(* behaviour picks one service and runs it, the others stay as they start. *)
(***************************************************************************)
EXTENDS MCFileTransfer, MCDaemonProcess, MCDriveRedirection, MCInputDelivery,
        MCClipboardChannel, ViewerStream, MCAgentLaunch, MCTimeoutLadder, RunFollow,
        MCScreenText

VARIABLE service  \* the one that runs

Services == {"transfer", "process", "drive", "input", "clipboard", "viewers",
             "launch", "ladder", "follow", "screen"}

(* The one that runs follows any of its plans, the others stand at a fixed *)
(* one.                                                                    *)
Stands(name, atFirst) == service # name => atFirst

First(plans) == CHOOSE p \in plans : TRUE

ServicesInit ==
  /\ service \in Services
  /\ TransferInit /\ Stands("transfer", mishaps.writes = 2 /\ remote = Absent)
  /\ ProcessInit  /\ Stands("process", socket = NoDaemon /\ crashes = 0)
  /\ DriveInit
  /\ InputInit    /\ Stands("input", inputPlan = First(InputPlans))
  /\ ClipInit     /\ Stands("clipboard", clipPlan = First(ClipPlans))
  /\ ViewerInit
  /\ LaunchInit   /\ Stands("launch", plan = <<"defer">>)
  /\ LadderInit   /\ Stands("ladder", command = First(TimedCommands))
  /\ FollowInit   /\ Stands("follow", json)
  /\ ScreenInit   /\ Stands("screen", ask = First(ScreenAsks))

Stays(name, vars) == IF service = name THEN TRUE ELSE UNCHANGED vars

OthersStand ==
  /\ UNCHANGED service
  /\ Stays("transfer", transferVars) /\ Stays("process", processVars)
  /\ Stays("drive", driveVars)       /\ Stays("input", inputVars)
  /\ Stays("clipboard", clipVars)    /\ Stays("viewers", viewerVars)
  /\ Stays("launch", launchVars)     /\ Stays("ladder", ladderVars)
  /\ Stays("follow", followVars)     /\ Stays("screen", screenVars)

ServicesNext ==
  \/ service = "transfer" /\ TransferNext /\ OthersStand
  \/ service = "process" /\ ProcessNext /\ OthersStand
  \/ service = "drive" /\ DriveNext /\ OthersStand
  \/ service = "input" /\ InputNext /\ OthersStand
  \/ service = "clipboard" /\ ClipNext /\ OthersStand
  \/ service = "viewers" /\ ViewerNext /\ OthersStand
  \/ service = "launch" /\ LaunchNext /\ OthersStand
  \/ service = "ladder" /\ LadderNext /\ OthersStand
  \/ service = "follow" /\ FollowNext /\ OthersStand
  \/ service = "screen" /\ ScreenNext /\ OthersStand

ServicesSpec ==
  ServicesInit
  /\ [][ServicesNext]_<<service, transferVars, processVars, driveVars, inputVars, clipVars,
                        viewerVars, launchVars, ladderVars, followVars, screenVars>>

(* The variables of the service that runs stay in their types: queues      *)
(* within their capacities, retries within their limits, the drive's       *)
(* tables of open files in step with each other.                           *)
ServicesTypeOK ==
  CASE service = "transfer"  -> TransferTypeOK
    [] service = "process"   -> ProcessTypeOK
    [] service = "drive"     -> DriveTypeOK
    [] service = "input"     -> InputTypeOK
    [] service = "clipboard" -> ClipTypeOK
    [] service = "viewers"   -> ViewerTypeOK
    [] service = "launch"    -> LaunchTypeOK
    [] service = "ladder"    -> LadderTypeOK
    [] service = "follow"    -> FollowTypeOK
    [] service = "screen"    -> ScreenTypeOK

=============================================================================
