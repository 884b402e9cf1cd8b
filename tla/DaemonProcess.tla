--------------------------- MODULE DaemonProcess ----------------------------
(***************************************************************************)
(* The life of a session's daemon processes: how CLI processes find one    *)
(* through the session directory, start it, replace it and send it their   *)
(* request (session_manager.rs, ipc_client.rs), and what a daemon does with*)
(* the directory between its start and its exit (lib.rs, ipc_server.rs,    *)
(* Daemon::new, handle_client and shutdown in daemon.rs).                  *)
(*                                                                         *)
(* The CLIs are separate processes: each step is one file operation, one   *)
(* signal or one exchange on a socket.  A ping that times out, a reply     *)
(* that is late and a wait that is over are left open.  A killed or exited *)
(* pid is not used again.                                                  *)
(***************************************************************************)
EXTENDS Naturals, FiniteSets

CONSTANTS
  ProcessPlans,  \* bound: the CLIs that run, what they find, and how many daemons may die
  Clis,          \* bound: the CLI invocations
  MaxDaemons,    \* bound: daemon processes ever started
  Confirmations  \* UNRESPONSIVE_CONFIRMATIONS (2 in the code)

Daemons  == 1 .. MaxDaemons
NoDaemon == 0

(* connect and connect --replace; a mutating and a read-only command; and  *)
(* disconnect, which takes a daemon of any version.                        *)
Commands   == {"connect", "replace", "mutate", "read", "disconnect", "none"}
Connects   == {"connect", "replace"}
IsReadOnly == {"read"}

ASSUME ProcessAssumption ==
  /\ MaxDaemons \in Nat \ {0} /\ Confirmations \in Nat
  /\ \A p \in ProcessPlans :
       p.runs \in [Clis -> Commands] /\ p.crashes \in Nat /\ p.first \in {"none", "old", "ours"}

VARIABLES
  pidFile,   \* the pid in the session directory
  socket,    \* the daemon whose listener the socket path names
  daemon,    \* per daemon, how far its life is, and its build
  cli,       \* per CLI invocation, where it is
  executed,  \* per CLI invocation, how often its request took effect
  stopped,   \* daemons a CLI shut down or killed, and in whose name
  crashes    \* bound: daemons that may yet die by themselves

processVars == <<pidFile, socket, daemon, cli, executed, stopped, crashes>>

Alive     == {d \in Daemons : daemon[d].phase \notin {"none", "dead"}}
Connectable == socket # NoDaemon /\ daemon[socket].phase \in {"listening", "stopping", "unfiled"}

(* What a new CLI starts from; a mutating request's outcome is its verdict.*)
Fresh(run) == [run |-> run, pc |-> IF run = "none" THEN "done" ELSE "look", pid |-> NoDaemon,
               conn |-> NoDaemon, tries |-> 0, verdict |-> "none"]

ProcessInit ==
  /\ \E p \in ProcessPlans :
       /\ cli = [c \in Clis |-> Fresh(p.runs[c])]
       /\ crashes = p.crashes
       /\ daemon = [d \in Daemons |->
                      IF d = 1 /\ p.first # "none" THEN [phase |-> "listening", build |-> p.first]
                      ELSE [phase |-> "none", build |-> "ours"]]
       /\ pidFile = IF p.first = "none" THEN NoDaemon ELSE 1
  /\ socket = pidFile
  /\ executed = [c \in Clis |-> 0]
  /\ stopped = {}

-----------------------------------------------------------------------------
(* A daemon: run_server.                                                   *)

Phase(d, from, to) == daemon[d].phase = from /\ daemon' = [daemon EXCEPT ![d].phase = to]

DaemonWritesPid(d) ==
  /\ Phase(d, "spawned", "numbered") /\ pidFile' = d
  /\ UNCHANGED <<socket, cli, executed, stopped, crashes>>

(* Whoever's socket file is there is removed ...                           *)
DaemonUnlinks(d) ==
  /\ Phase(d, "numbered", "binding") /\ socket' = NoDaemon
  /\ UNCHANGED <<pidFile, cli, executed, stopped, crashes>>

(* ... and a socket file that has come back by then is an error: the       *)
(* daemon ends, and leaves its pid behind.                                 *)
DaemonBinds(d) ==
  /\ IF socket = NoDaemon THEN Phase(d, "binding", "listening") /\ socket' = d
     ELSE Phase(d, "binding", "dead") /\ UNCHANGED socket
  /\ UNCHANGED <<pidFile, cli, executed, stopped, crashes>>

(* shutdown(): the RDP session is closed, the files removed, by name.      *)
DaemonUnfiles(d) ==
  /\ Phase(d, "stopping", "unfiled")
  /\ socket' = NoDaemon /\ pidFile' = NoDaemon
  /\ UNCHANGED <<cli, executed, stopped, crashes>>

(* cleanup_session once more, and the process exits.                       *)
DaemonExits(d) ==
  /\ Phase(d, "unfiled", "dead")
  /\ socket' = NoDaemon /\ pidFile' = NoDaemon
  /\ UNCHANGED <<cli, executed, stopped, crashes>>

(* It panics, or is killed by somebody else.                               *)
DaemonDies(d) ==
  /\ d \in Alive /\ crashes > 0 /\ crashes' = crashes - 1
  /\ daemon' = [daemon EXCEPT ![d].phase = "dead"]
  /\ UNCHANGED <<pidFile, socket, cli, executed, stopped>>

-----------------------------------------------------------------------------
(* A CLI finds its daemon.                                                 *)

Go(c, pc)      == cli' = [cli EXCEPT ![c].pc = pc]
Says(c, v)     == cli' = [cli EXCEPT ![c].pc = "done", ![c].verdict = v]
TriesSocket(c)  == cli[c].run \in Connects
filesAndDaemons == <<pidFile, socket, daemon>>

(* alive_pid: the pid file names a process, or the files of a dead one are *)
(* about to be cleaned up.                                                 *)
CliLooks(c) ==
  /\ cli[c].pc = "look"
  /\ IF pidFile = NoDaemon
     THEN IF TriesSocket(c) THEN Go(c, "start") ELSE Says(c, "not_running")
     ELSE cli' = [cli EXCEPT ![c].pid = pidFile,
                             ![c].pc = IF pidFile \in Alive THEN "dial" ELSE "tidy"]
  /\ UNCHANGED <<filesAndDaemons, executed, stopped, crashes>>

(* cleanup_stale_session: whatever pid and socket are there by now.        *)
CliTidies(c) ==
  /\ cli[c].pc = "tidy"
  /\ pidFile' = NoDaemon /\ socket' = NoDaemon
  /\ IF TriesSocket(c) THEN Go(c, "start") ELSE Says(c, "not_running")
  /\ UNCHANGED <<daemon, executed, stopped, crashes>>

(* connect_to_daemon.                                                      *)
CliDials(c) ==
  /\ cli[c].pc = "dial"
  /\ IF Connectable THEN cli' = [cli EXCEPT ![c].conn = socket, ![c].pc = "ping"]
     ELSE IF TriesSocket(c) THEN Go(c, "tidy")
     ELSE Says(c, "not_running")
  /\ UNCHANGED <<filesAndDaemons, executed, stopped, crashes>>

(* Mutant: one unanswered ping, and the daemon is replaced.                *)
KillsTheBusy(health, run) == IF health = "healthy" THEN "send" ELSE "stop"

(* decide_replacement.                                                     *)
Decision(health, run) ==
  IF health = "healthy" THEN "send"
  ELSE IF health = "mismatch" THEN "stop"
  ELSE IF run = "replace" THEN "stop" ELSE "refuse"

(* What each kind of command does about it.                                *)
CliJudges(c, health) ==
  IF TriesSocket(c)
  THEN CASE Decision(health, cli[c].run) = "send" -> Go(c, "send")
         [] Decision(health, cli[c].run) = "stop" -> Go(c, "stop")
         [] OTHER -> Says(c, "unresponsive")
  ELSE IF health = "healthy" \/ (health = "mismatch" /\ cli[c].run = "disconnect")
  THEN Go(c, "send")
  ELSE Says(c, health)

PingAnswered(c) ==
  /\ cli[c].pc = "ping" /\ daemon[cli[c].conn].phase = "listening"
  /\ CliJudges(c, IF daemon[cli[c].conn].build = "ours" THEN "healthy" ELSE "mismatch")
  /\ UNCHANGED <<filesAndDaemons, executed, stopped, crashes>>

(* Busy, or on its way out: a plain connect asks again, on a new           *)
(* connection, before it believes it.                                      *)
PingUnanswered(c) ==
  /\ cli[c].pc = "ping"
  /\ IF cli[c].run = "connect" /\ cli[c].tries < Confirmations
     THEN IF Connectable
          THEN cli' = [cli EXCEPT ![c].tries = @ + 1, ![c].conn = socket]
          ELSE CliJudges(c, "unresponsive")
     ELSE CliJudges(c, "unresponsive")
  /\ UNCHANGED <<filesAndDaemons, executed, stopped, crashes>>

-----------------------------------------------------------------------------
(* connect replaces a daemon: stop_daemon.                                 *)

(* Shutdown, which the daemon it is connected to may heed, late or never.  *)
CliSendsShutdown(c) ==
  /\ cli[c].pc = "stop"
  /\ Go(c, "wait")
  /\ \/ /\ daemon[cli[c].conn].phase = "listening"
        /\ daemon' = [daemon EXCEPT ![cli[c].conn].phase = "stopping"]
        /\ stopped' = stopped \cup {<<cli[c].conn, c>>}
     \/ UNCHANGED <<daemon, stopped>>
  /\ UNCHANGED <<pidFile, socket, executed, crashes>>

DaemonIsGone(c) ==
  /\ cli[c].pc = "wait" /\ cli[c].pid \notin Alive
  /\ Go(c, "clean")
  /\ UNCHANGED <<filesAndDaemons, executed, stopped, crashes>>

(* Mutant: the wait is over, and the daemon is left to itself.             *)
NoKill(c) ==
  /\ cli[c].pc = "wait" /\ cli[c].pid \in Alive
  /\ Go(c, "clean")
  /\ UNCHANGED <<filesAndDaemons, executed, stopped, crashes>>

CliKills(c) ==
  /\ cli[c].pc = "wait" /\ cli[c].pid \in Alive
  /\ daemon' = [daemon EXCEPT ![cli[c].pid].phase = "dead"]
  /\ stopped' = stopped \cup {<<cli[c].pid, c>>}
  /\ Go(c, "clean")
  /\ UNCHANGED <<pidFile, socket, executed, crashes>>

CliCleans(c) ==
  /\ cli[c].pc = "clean"
  /\ pidFile' = NoDaemon /\ socket' = NoDaemon
  /\ Go(c, "start")
  /\ UNCHANGED <<daemon, executed, stopped, crashes>>

CliStartsDaemon(c) ==
  /\ cli[c].pc = "start"
  /\ \E d \in Daemons :
       /\ daemon[d].phase = "none" /\ \A e \in 1 .. d - 1 : daemon[e].phase # "none"
       /\ daemon' = [daemon EXCEPT ![d].phase = "spawned"]
  /\ Go(c, "await")
  /\ UNCHANGED <<pidFile, socket, executed, stopped, crashes>>

(* wait_for_daemon takes whoever answers at the socket.                    *)
CliAwaits(c) ==
  /\ cli[c].pc = "await"
  /\ \/ Connectable /\ cli' = [cli EXCEPT ![c].conn = socket, ![c].pc = "send"]
     \/ Says(c, "timeout")
  /\ UNCHANGED <<filesAndDaemons, executed, stopped, crashes>>

-----------------------------------------------------------------------------
(* The request itself: send, send_with_retry, handle_client.               *)

(* A daemon goes on serving its clients until its process ends.            *)
Serving(d) == daemon[d].phase \in {"listening", "stopping", "unfiled"}

RequestTakesEffect(c) ==
  /\ cli[c].pc = "send" /\ Serving(cli[c].conn)
  /\ executed' = [executed EXCEPT ![c] = @ + 1]
  /\ Go(c, "effected")
  /\ UNCHANGED <<filesAndDaemons, stopped, crashes>>

(* The reply; after a Shutdown's the daemon leaves its loop.               *)
RequestAnswered(c) ==
  /\ cli[c].pc = "effected" /\ Serving(cli[c].conn)
  /\ Says(c, "ok")
  /\ IF cli[c].run = "disconnect" /\ daemon[cli[c].conn].phase = "listening"
     THEN /\ daemon' = [daemon EXCEPT ![cli[c].conn].phase = "stopping"]
          /\ stopped' = stopped \cup {<<cli[c].conn, c>>}
     ELSE UNCHANGED <<daemon, stopped>>
  /\ UNCHANGED <<pidFile, socket, executed, crashes>>

RequestTimesOut(c) ==
  /\ cli[c].pc \in {"send", "effected"} /\ Serving(cli[c].conn)
  /\ Says(c, "timeout")
  /\ UNCHANGED <<filesAndDaemons, executed, stopped, crashes>>

(* Mutant: any request is sent again.                                      *)
RetriesAll(c) == cli[c].tries <= Confirmations

MayRetry(c) == cli[c].run \in IsReadOnly /\ cli[c].tries <= Confirmations

(* The daemon is gone, and the connection with it: a read-only request is  *)
(* sent once more, to whichever daemon is at the socket now.               *)
ConnectionClosed(c) ==
  /\ cli[c].pc \in {"send", "effected"} /\ daemon[cli[c].conn].phase = "dead"
  /\ IF MayRetry(c) /\ Connectable
     THEN cli' = [cli EXCEPT ![c].conn = socket, ![c].pc = "send",
                             ![c].tries = Confirmations + 1]
     ELSE Says(c, "closed")
  /\ UNCHANGED <<filesAndDaemons, executed, stopped, crashes>>

-----------------------------------------------------------------------------
DaemonStep(d) ==
  \/ DaemonWritesPid(d) \/ DaemonUnlinks(d) \/ DaemonBinds(d)
  \/ DaemonUnfiles(d) \/ DaemonExits(d) \/ DaemonDies(d)

CliStep(c) ==
  \/ CliLooks(c) \/ CliTidies(c) \/ CliDials(c) \/ PingAnswered(c) \/ PingUnanswered(c)
  \/ CliSendsShutdown(c) \/ DaemonIsGone(c) \/ CliKills(c) \/ CliCleans(c)
  \/ CliStartsDaemon(c) \/ CliAwaits(c)
  \/ RequestTakesEffect(c) \/ RequestAnswered(c) \/ RequestTimesOut(c) \/ ConnectionClosed(c)

ProcessNext == (\E d \in Daemons : DaemonStep(d)) \/ (\E c \in Clis : CliStep(c))

ProcessSpec == ProcessInit /\ [][ProcessNext]_processVars

-----------------------------------------------------------------------------
(* Properties.                                                             *)

ProcessTypeOK ==
  /\ pidFile \in {NoDaemon} \cup Daemons /\ socket \in {NoDaemon} \cup Daemons
  /\ daemon \in [Daemons -> [phase : {"none", "spawned", "numbered", "binding", "listening",
                                      "stopping", "unfiled", "dead"},
                             build : {"ours", "old"}]]
  /\ \A c \in Clis : cli[c].tries <= Confirmations + 1 /\ cli[c].conn \in {NoDaemon} \cup Daemons
  /\ stopped \subseteq Daemons \X Clis

(* A request that changes something takes effect at most once, whatever    *)
(* becomes of the daemon it was sent to and whichever replaces it; and one *)
(* reported done took effect.                                              *)
EffectOnce ==
  \A c \in Clis :
    /\ cli[c].run \notin IsReadOnly => executed[c] <= 1
    /\ cli[c].verdict = "ok" => executed[c] >= 1

(* A daemon of this build is stopped by disconnect or connect --replace    *)
(* alone: a plain connect in a retry loop never ends a daemon that was     *)
(* busy.                                                                   *)
BusyDaemonSpared ==
  \A s \in stopped :
    daemon[s[1]].build = "ours" => cli[s[2]].run \in {"replace", "disconnect"}

(* When a replacement is started, the daemon it replaces is gone: its RDP  *)
(* session does not stay open beside the new one.                          *)
ReplacedIsGone ==
  \A c \in Clis : cli[c].pc = "clean" => cli[c].pid \notin Alive

(* README.md: "A daemon per session".                                      *)
OneDaemonPerSession == Cardinality({d \in Alive : daemon[d].phase = "listening"}) <= 1

=============================================================================
