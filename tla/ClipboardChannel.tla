-------------------------- MODULE ClipboardChannel --------------------------
(***************************************************************************)
(* The clipboard shared with the remote desktop: handlers that get and set *)
(* its text, the frame processor that works their commands off, the        *)
(* backend the CLIPRDR channel calls, and the two ordered directions of    *)
(* the channel.  The other end, a Windows clipboard, is external: it       *)
(* announces every copy made there, takes our announcements, asks for our  *)
(* text when something is pasted, and answers a request for its text with  *)
(* what it holds then, with an error, or not at all.                       *)
(*                                                                         *)
(* A handler holds the session's lock while it waits.  A text is a number: *)
(* how many copies the remote had made, or which handler set it.           *)
(***************************************************************************)
EXTENDS Naturals, Sequences

CONSTANTS
    ClipPlans,  \* per handler: "get" or "set"
    ClipNobody, \* no handler
    MaxCopies,  \* bound: copies made remotely
    MaxPastes   \* bound: pastes made remotely

ASSUME ClipAssumption ==
    /\ \A p \in ClipPlans : p \in Seq({"get", "set"})
    /\ {MaxCopies, MaxPastes} \subseteq Nat
    /\ ClipNobody = 0

VARIABLES
    clipPlan,       \* the handlers' operations
    clipHolder,     \* who holds rdp_session's lock
    clipStage,      \* each handler: waits, asks, done
    commands,       \* command_rx
    localText,      \* local_text
    remoteText,     \* remote_text, the cache
    pendingGet,     \* pending_get: whose answer is awaited
    backend,        \* clipboard_backend_rx: messages to send
    toServer,       \* what we sent and the remote has not taken
    toClient,       \* what the remote sent and we have not taken
    remoteClip,     \* external: the text on the remote clipboard
    copies, pastes, \* bounds
    announced       \* observer: the copy last announced to us, or our own

clipVars == <<clipPlan, clipHolder, clipStage, commands, localText, remoteText,
              pendingGet, backend, toServer, toClient, remoteClip, copies,
              pastes, announced>>
clipTexts == <<localText, remoteText, pendingGet>>
remoteSide == <<remoteClip, copies, pastes>>

NoText == <<"none", 0>>
OurText(c) == <<"ours", c>>
TheirText(n) == <<"theirs", n>>
Handlers == DOMAIN clipPlan

ClipInit ==
    /\ clipPlan \in ClipPlans
    /\ clipHolder = ClipNobody
    /\ clipStage = [c \in Handlers |-> "waits"]
    /\ commands = <<>> /\ backend = <<>>
    /\ localText = NoText /\ remoteText = NoText /\ pendingGet = ClipNobody
    /\ toServer = <<>> /\ toClient = <<<<"asks formats", NoText>>>>
    /\ remoteClip = TheirText(0) /\ copies = 0 /\ pastes = 0
    /\ announced = TheirText(0)

-----------------------------------------------------------------------------
(* A handler: take the lock, queue the command, hold the lock until the    *)
(* answer comes or the time is up.                                         *)
(* Mutant: the lock is not held for the wait.                              *)
AsksUnlocked(c) ==
    /\ clipStage[c] = "waits" /\ clipHolder = ClipNobody
    /\ clipStage' = [clipStage EXCEPT ![c] = "asks"]
    /\ commands' = Append(commands, c)
    /\ UNCHANGED <<clipPlan, clipHolder, clipTexts, backend, toServer, toClient,
                   remoteSide, announced>>

AsksClipboard(c) ==
    /\ clipStage[c] = "waits" /\ clipHolder = ClipNobody
    /\ clipHolder' = c
    /\ clipStage' = [clipStage EXCEPT ![c] = "asks"]
    /\ commands' = Append(commands, c)
    /\ UNCHANGED <<clipPlan, clipTexts, backend, toServer, toClient, remoteSide,
                   announced>>

Finishes(c) ==
    IF c \in Handlers /\ clipStage[c] = "asks"
    THEN /\ clipStage' = [clipStage EXCEPT ![c] = "done"]
         /\ clipHolder' = IF clipHolder = c THEN ClipNobody ELSE clipHolder
    ELSE UNCHANGED <<clipStage, clipHolder>>

GivesUp(c) ==
    /\ clipStage[c] = "asks"
    /\ Finishes(c)
    /\ UNCHANGED <<clipPlan, commands, clipTexts, backend, toServer, toClient,
                   remoteSide, announced>>

-----------------------------------------------------------------------------
(* The frame processor.  A set is answered once it is announced, a get     *)
(* from the cache, or by the remote through pending_get.                   *)
ProcessesSet ==
    /\ commands # <<>> /\ clipPlan[Head(commands)] = "set"
    /\ localText' = OurText(Head(commands))
    /\ announced' = OurText(Head(commands))
    /\ toServer' = Append(toServer, <<"copy", NoText>>)
    /\ Finishes(Head(commands))
    /\ commands' = Tail(commands)
    /\ UNCHANGED <<clipPlan, remoteText, pendingGet, backend, toClient, remoteSide>>

ProcessesGet ==
    /\ commands # <<>> /\ clipPlan[Head(commands)] = "get"
    /\ IF remoteText # NoText
       THEN Finishes(Head(commands)) /\ UNCHANGED <<pendingGet, toServer>>
       ELSE /\ pendingGet' = Head(commands)
            /\ toServer' = Append(toServer, <<"request", NoText>>)
            /\ UNCHANGED <<clipStage, clipHolder>>
    /\ commands' = Tail(commands)
    /\ UNCHANGED <<clipPlan, localText, remoteText, backend, toClient, remoteSide,
                   announced>>

(* Messages the backend left for the processor.                            *)
SendsBackendMessage ==
    /\ backend # <<>>
    /\ toServer' = Append(toServer, Head(backend))
    /\ backend' = Tail(backend)
    /\ UNCHANGED <<clipPlan, clipHolder, clipStage, commands, clipTexts, toClient,
                   remoteSide, announced>>

(* What the backend does with what the remote sends.                       *)
Receives(kind) ==
    /\ toClient # <<>> /\ Head(toClient)[1] = kind
    /\ toClient' = Tail(toClient)
    /\ UNCHANGED <<clipPlan, commands, localText, toServer, remoteSide>>

OnRequestFormatList ==
    /\ Receives("asks formats")
    /\ backend' = IF localText = NoText THEN backend
                  ELSE Append(backend, <<"copy", NoText>>)
    /\ UNCHANGED <<clipHolder, clipStage, remoteText, pendingGet, announced>>

(* Mutant: the text of the copy before stays cached.                       *)
RemoteCopyKeepsCache ==
    /\ Receives("copy")
    /\ announced' = Head(toClient)[2]
    /\ UNCHANGED <<clipHolder, clipStage, remoteText, pendingGet, backend>>

OnRemoteCopy ==
    /\ Receives("copy")
    /\ announced' = Head(toClient)[2]
    /\ remoteText' = NoText
    /\ UNCHANGED <<clipHolder, clipStage, pendingGet, backend>>

OnFormatDataRequest ==
    /\ Receives("request")
    /\ backend' = Append(backend, <<"data", localText>>)
    /\ UNCHANGED <<clipHolder, clipStage, remoteText, pendingGet, announced>>

(* A response answers whoever is pending now; an error caches nothing.     *)
OnFormatDataResponse ==
    /\ Receives("data")
    /\ remoteText' = IF Head(toClient)[2] = NoText THEN remoteText
                     ELSE Head(toClient)[2]
    /\ pendingGet' = ClipNobody
    /\ Finishes(pendingGet)
    /\ UNCHANGED <<backend, announced>>

-----------------------------------------------------------------------------
(* External: the remote clipboard.                                         *)
RemoteCopies ==
    /\ copies < MaxCopies /\ copies' = copies + 1
    /\ remoteClip' = TheirText(copies')
    /\ toClient' = Append(toClient, <<"copy", remoteClip'>>)
    /\ UNCHANGED <<clipPlan, clipHolder, clipStage, commands, clipTexts, backend,
                   toServer, pastes, announced>>

RemotePastes ==
    /\ pastes < MaxPastes /\ remoteClip[1] = "ours"
    /\ pastes' = pastes + 1
    /\ toClient' = Append(toClient, <<"request", NoText>>)
    /\ UNCHANGED <<clipPlan, clipHolder, clipStage, commands, clipTexts, backend,
                   toServer, remoteClip, copies, announced>>

RemoteTakes ==
    /\ toServer # <<>> /\ toServer' = Tail(toServer)
    /\ LET kind == Head(toServer)[1]
       IN  \/ /\ kind = "copy"
              /\ remoteClip' = <<"ours", 0>> /\ UNCHANGED toClient
           \/ /\ kind = "data" /\ UNCHANGED <<remoteClip, toClient>>
           \/ /\ kind = "request" /\ UNCHANGED remoteClip
              /\ \/ /\ remoteClip[1] = "theirs"
                    /\ toClient' = Append(toClient, <<"data", remoteClip>>)
                 \/ toClient' = Append(toClient, <<"data", NoText>>)
                 \/ UNCHANGED toClient
    /\ UNCHANGED <<clipPlan, clipHolder, clipStage, commands, clipTexts, backend,
                   copies, pastes, announced>>

ClipNext ==
    \/ \E c \in Handlers : AsksClipboard(c) \/ GivesUp(c)
    \/ ProcessesSet \/ ProcessesGet \/ SendsBackendMessage
    \/ OnRequestFormatList \/ OnRemoteCopy \/ OnFormatDataRequest
    \/ OnFormatDataResponse
    \/ RemoteCopies \/ RemotePastes \/ RemoteTakes

ClipSpec == ClipInit /\ [][ClipNext]_clipVars

-----------------------------------------------------------------------------
Texts == {NoText} \cup {TheirText(n) : n \in 0..MaxCopies}
             \cup {OurText(c) : c \in Handlers}

ClipTypeOK ==
    /\ clipPlan \in ClipPlans
    /\ clipHolder \in Handlers \cup {ClipNobody}
    /\ clipStage \in [Handlers -> {"waits", "asks", "done"}]
    /\ {localText, remoteText, announced} \subseteq Texts
    /\ pendingGet \in Handlers \cup {ClipNobody}
    /\ copies <= MaxCopies /\ pastes <= MaxPastes

(* There is room for one pending get.  A handler that still waits in it is *)
(* never overwritten by another's get: the slot is handed over only when   *)
(* its handler has been answered or has given up.                          *)
GetterNotDropped ==
    [][pendingGet # ClipNobody /\ pendingGet' # pendingGet =>
           \/ clipStage[pendingGet] # "asks"
           \/ clipStage'[pendingGet] = "done"]_clipVars

(* A cached text is the one the remote announced last: an answer to an     *)
(* earlier request that arrives late, for a handler long gone, is never    *)
(* kept past the next announcement.  Text set from here since then is the  *)
(* exception: a set does not touch the cache.                              *)
CacheIsAnnounced ==
    remoteText # NoText /\ announced[1] = "theirs" => remoteText = announced
=============================================================================
