# A TLA+ verification of agent-rdp

agent-rdp keeps one RDP session alive in a daemon process and lets a command
line, a TypeScript SDK and a browser drive it; a PowerShell agent inside the
remote desktop executes automation commands for it. This directory models the
parts of that system whose correctness depends on the order in which tasks,
processes and messages meet, checks them with TLC on small instances, and proves
the central properties with TLAPS for every value of the constants.

Paths below are relative to `src/crates/agent-rdp-daemon/src/` unless they say
otherwise, or name the CLI (`src/crates/agent-rdp/src/`); `PROJECT.json` names the
exact lines every definition stands for.

- [Inventory](#inventory)
- [Modules](#modules) and how they correspond to the code
- [Runs](#runs), their bounds, and what they show
- [Fairness](#fairness)
- [Proofs](#proofs)
- [Where the code and its comments part](#where-the-code-and-its-comments-part)
- [Plan](#plan)
- [What is not modelled](#what-is-not-modelled)

## Inventory

The daemon is a multi-threaded tokio program. `Daemon::run` is one select loop
(accept a client, take a drop notice, tick the stream, pass on clipboard
changes); every client connection gets a task (`handle_client`), every RDP
session a task (`run_frame_processor`), every drop a task (teardown, then
`reconnect_loop`), and the automation agent a relaunch supervisor. They share
state through `Arc<Mutex<..>>`, a few atomic counters and bounded channels.

| Component | State | Operations | Interacts through | Hard because | Correct if |
|---|---|---|---|---|---|
| Automatic reconnection record (`reconnect.rs`) | the retained request, `enabled`, `stopped_reason`, `in_flight`, the count of short sessions | `remember`, `disarm`, `stop`, `stand_down`, `note_outage`, `note_success`, `should_attempt`, `InFlight::drop` | one mutex, read by every drop's task and every client | the guard's destructor cannot wait for the lock; `remember` overwrites everything | the flag is always released; a session closed on purpose stays closed; an outage is pursued until it is over |
| RDP session ownership (`daemon.rs`, `handlers/connect.rs`) | `session_generation`, `connect_serial`, `rdp_session`, `last_disconnect`, `ws_handle`, `clipboard_changed_rx`, automation's `enabled` | connect, disconnect, the drop arm and its teardown, the reconnect loop | slot mutex, counters, the disconnect channel (8) | connects take minutes with no lock held, and overlap each other, drops, teardowns and reconnects | no session leaks; no drop of the newest session is missed or loses its evidence; a late teardown spares newer state |
| Frame processor (`rdp_session.rs`) | keep-alive watch, `last_frame_at`, `drop_reason`, the command queue (32), the clipboard and DVC channels | one select arm each; reactivation; six ways to end | commands and oneshots; drop notices; the socket | a silent server gives no error; drive I/O stalls the loop; a stuck loop must still be stopped | no false verdict; a dead server or socket is noticed; every end is told or was asked for |
| DVC channel and IPC (`automation/dvc_*.rs`) | pending requests by id, primary and extra channels, the handshake | request, answer, timeout, open, close, promotion, release | frame processor's DVC channel, oneshots | late answers, closes with requests pending, retries under one key, a second agent | each answer reaches the caller it is for; the daemon believes only the agent it talks to |
| Automation handler (`handlers/automate.rs`) and agent journal (`automation/scripts/`) | idempotency key; the agent's journal, in memory and on disk | send, resolve an indeterminate outcome, restart, status | DVC IPC | an answer may be lost after the command ran; the journal forgets | a command runs at most once per key; "done" and "safe to retry" are said only of what is so |
| Agent launch (`automation/bootstrap.rs`, `mod.rs`) | the epoch, the handshake, `relaunch_in_flight`, failures and strikes | initialize, launch by typed Win+R, adopt, supervise, relaunch, restart | slot, DVC state, keystrokes | settles for seconds between a check and the act on it; every drop wipes the state under it | one launch of an epoch at a time; an agent that is down is launched again |
| File transfer (`handlers/file_transfer.rs`, `actions.ps1`) | the chunk in hand; the agent's sidecar files | push, pull, verify, abort | DVC IPC | partial failure, late chunks, two transfers at once, files changed on the way | no torn file; what the caller is told of a push stays true |
| Daemon lifecycle (`lib.rs`, CLI `session_manager.rs`) and IPC (`ipc_server.rs`, CLI `ipc_client.rs`) | pid file, socket, processes | look, ping, start, stop, kill, clean up, send, retry | file system, signals, a local socket | processes that share nothing but two files; a daemon that is only busy looks dead | a command takes effect once; a busy daemon is spared; the one replaced is gone |
| Clipboard (`rdp_session/clipboard.rs`) | `local_text`, `remote_text`, the single `pending_get` | set, get, the CLIPRDR callbacks | frame processor, backend channel | one slot for the waiter; answers with no request id | a waiting get is not dropped; the cache is not stale |
| WebSocket streaming (`ws_server.rs`, `daemon.rs`) | viewers, generations, the broadcast channel | accept, register, tick, broadcast, lag | a broadcast channel | the count and the image are read apart; viewers come and go in between | nobody keeps an old picture of a quiet desktop |
| Input (`handlers/keyboard.rs`, `mouse.rs`, `ws_input.rs`) | batches queued for the processor | press, press-seq, type, click, drag, paste, a viewer's message | the session's lock, the command queue | an answer may be late and the batch land after its caller has gone | a combination is not broken into; "sent" means sent |
| Drive redirection (`rdpdr/`) | five tables keyed by file id; listings | create, write, rename, mark for deletion, close, list | the remote's requests; the local file system | handles are reached by path; other programs change the folder | a close deletes what was asked, and nothing else |
| Screenshots, OCR, locate (`handlers/locate.rs`, `screenshot.rs`) | none between requests | shot, locate, wait, click, click-at | framebuffer and session locks | the picture is cropped, judged without the lock, and older than the click | a click lands where the picture it was judged on says |
| Command line (`src/crates/agent-rdp/`) | timeouts; what `run-poll --follow` holds | every command | the socket | four layers of timeouts; output is handed out once | the daemon gives up first; lost output is said to be lost |
| Diagnostics, protocol types, SDK | none | - | - | data, not order | - |

`PROJECT.json` lists them under `components` with their sources and how far
each is modelled, and every hazard found while reading under `hazards`, at its line.

## Modules

| Module | What it is |
|---|---|
| `AutoReconnect` | the reconnection record: operators, one per critical section of `reconnect.rs` |
| `DaemonSession` | who owns the session: clients, connects, drops, teardowns, reconnect loops |
| `SessionLife` | abstract: what one RDP session promises the daemon |
| `FrameProcessor` | the session's background task, its owner, its server and the clock |
| `RequestOutcome` | abstract: what the daemon promises the caller of an automation request |
| `AgentRequests` | requests, channels, agents, journal: from a caller to the remote desktop and back |
| `AgentLaunch` | who types Win+R and what is recorded of it |
| `FileTransfer` | push and pull, with the agent's side |
| `DaemonProcess` | daemon and CLI processes around the session directory |
| `ClipboardChannel`, `ViewerStream`, `InputDelivery`, `DriveRedirection` | the session's other channels |
| `ScreenText` | screenshot, locate, click-at |
| `TimeoutLadder` | four layers of timeouts over one command |
| `RunFollow` | `run-poll --follow` |
| `MC...` | the instances for TLC; `MCServices` runs ten of the services, one a behaviour |
| `..._proofs` | theorems of `DaemonSession`, `FrameProcessor`, `AgentRequests`, `AgentLaunch` and `FileTransfer`, each in its own; `CliWaits_proofs` has those of `RunFollow` and `TimeoutLadder`, `Services_proofs` those of `DaemonProcess`, `ClipboardChannel`, `ViewerStream`, `DriveRedirection`, `InputDelivery` and `ScreenText`, `MCServices_proofs` those of the composition of all of these |

Two abstract specifications say what the parts may expect of each other, and are
checked as refinements: `SessionLife` between the frame processor and the
daemon, `RequestOutcome` between the automation stack and whoever calls it
(`RunFollow` and `FileTransfer` live with its "unknown"). What each contract is
worth to the one who relies on it is stated in it and proved of it
(`HeldOrTold`, `EndsOnce`; `AnswersTrue`, `AnswersStand`), and so holds of
whatever implements it.

`SessionLife` is the contract between the two detailed modules. `FrameProcessor`
implements it (`KeepsPromise`, checked and proved): a session starts once; it
drops, stamping `drop_reason` before it sends exactly one notice; or it closes,
but only for an owner that has let go of it. `DaemonSession` sees of each
session just that (`SessionsKeepPromise`, checked and proved): its `SessionDrops`,
`SendNotification` and `Kill` do nothing a session could not promise, and a
session is only ever closed by an owner that gives it up.

### DaemonSession

A session is named by the generation its connect claimed; `slot = g` says that
`rdp_session` holds session g. An *actor* is a client's handler task, or - named
by a generation - the task spawned for the drop of that session, which tears
down and then runs `reconnect_loop`. `pc` says where each actor is, and
`mine`, `req`, `before`, `armSerial` and `base` are its locals
(`my_generation`, the request, `disconnect_before`, `serial_at_arm`,
`dropped_generation`).

Each action is one critical section, or one stretch of code without an await,
and keeps the order of the code: `ClaimGeneration`, `TakeOld`,
`CleanAutomation`, `PrepareAutomation`, `RdpConnect`, `StoreSession` or
`RefuseDeadSession`, `StartStream`, `ProbeDrop`, `ConfirmSlot`, and then what
the caller does with the outcome. Where a stretch reads several shared counters
without a lock, it is taken to happen at its first read; where the code reads a
counter and then waits for a lock (`CheckStream`, then `TearStream`), those are
two actions. The two are what the properties are about.

`Kill` stops a frame processor. That may also abort a notification that the full
channel has yet to accept, hence its nondeterminism.

`ConnectPanics` unwinds `connect::handle` at any step but `takeOld`: between
claiming the generation and taking the old session there is only an atomic
increment and a lock, neither of which panics.

### FrameProcessor

`phase` is where the task is: in the select loop (`run`), inside a reactivation,
out of the loop with `drop_reason` stamped but the notice not sent, or ended.
Every arm of the `select!` is an action: the timer (`KeepAliveSent`,
`KeepAliveFails`), the commands (`SendInput`, `ClipboardCommand`, `Shutdown`,
`ChannelClosed`), the read (`ReadUpdate`, `ReadDeactivate`, `ReadTerminate`,
`ReadFails`), and the two background channels (`BackgroundSends`, one action:
the loop's state changes alike). `owner` is the `RdpSession` on the other side:
it queues commands, disconnects (`try_send`, then a bounded join), or is
dropped, which aborts the task.

Time is reduced to what the loop can tell of it.

- `due`: the keep-alive timer has fired. It does so when a whole period has
  passed with the loop keeping up (`PeriodElapses`: everything that arrived has
  been read, and a server that answers has answered - a period is tens of
  seconds), or because one handler took longer than a period (`Stall`), as drive
  I/O may. A timer that has fired does not fire again before it is served
  (`MissedTickBehavior::Delay`).
- `awaiting`: the two-second window after a refresh is open or has closed.
- `heard`: `last_frame_at` is later than the last keep-alive.

The server answers refreshes, is mute to them (MS-RDPBCGR allows that), or is
gone while its TCP stack goes on acknowledging. It may also send what it likes
unasked, and react to what the client sent (`stirred`), at once or late.

When the task ends its locals, its ends of the channels and its socket go with
it, so `Ends` resets them. That a strike count has nothing to say beyond
`MissedLimit` is why `UpTo` stops there; the code's `saturating_add` is far
from its own limit.

Left out: encoding a keep-alive fails only for a bug in the encoder and then
changes nothing; what a command answers to its caller; the framebuffer.

### AgentRequests

A caller (`pc`, `my`, `reply`) sends under its key or a fresh id, waits, and if
no answer comes climbs the recovery ladder: `query_result` up to `Attempts`
times, then a verdict by what the agent says of the id (`NextLookup`, `Verdict`,
`UnknownIdVerdict`, after `resolve_indeterminate` and `unknown_id_verdict`). `pending`,
`primary`, `extras` and `handshake` are the fields of `DvcSharedState`;
`chan` is what travels on each dynamic channel in both directions. The frame
processor handles one message at a time (`Greet`, `Dismiss`, `Respond`, `Close`). An
agent reads a request, executes it (or answers from its journal), records the
result, answers: a death or a cut between any two of these steps is a `Fault`,
as is a lost message. The journal has the memory tier with its eviction memory
and the disk tier with its pruning. `ran`, `runs` and `excused` are observers:
what took effect, how often per key, and for which keys the record was lost in a
way the journal's comments accept.

An id that is evicted twice is remembered by the code until its first eviction is
forgotten (`actions.ps1:1929` keeps a set and a queue), in the model until the
second is. Nothing but the answer to a lookup depends on it, and the two agree as
long as that memory has room, which `OutcomesKept` needs anyway (`Remembers`, below).

Every step of the daemon refines `RequestOutcome`, in which an answer of "done"
needs an execution, and "it never ran", once said, forbids one.

Requests are those that may be asked again: a `query_result` asked by a user is
not looked up in its turn (`skips_recovery_ladder`), and no command of the CLI
sends `shutdown`. `LimitsAssumption` says so.

### AgentLaunch

`auto` is `AutomationState`; `holder` and `closings` are, per epoch, the
handshake and the close notice of the DVC state that epoch owns. A launch is a
`job` of a connect, of the supervisor of a generation, or of `automate
restart`, with the epoch it began in; what it later writes is guarded by that
epoch, as in the code. `Wiped` is the drop's teardown (owned by
`DaemonSession`), which may come between any two steps: it follows `SessionEnds`,
and looks at the generation again. `handle_disconnect` goes the other way about:
`DisconnectWipes` cleans whatever state there is, with no look at a generation,
and `DisconnectTakes` empties the slot later; a connect may come in between.
Backoff, quiet and the hourly budget are times: whether they let a launch through
is left open.

### FileTransfer

A file is a sequence of chunks named for their content, and a hash is the
content itself, so "torn" is a sequence that is nobody's content. The handler
sends a chunk, waits, and goes on, aborts or verifies; the agent's tasks stage
into a sidecar per transfer id and swap it in with the last chunk. Messages are
lost, late, cut off with the channel; remote programs rewrite the path between
a pull's stat and its chunks. Steps of the agent fail: a chunk is not written, the
swap is refused, a sidecar cannot be removed (`Discards`, `Unstages`; nobody is
told), the file in place cannot be hashed (`Rehashes`).

### DaemonProcess

Each step of a CLI is one file operation, one signal, one exchange on the
socket: look for a pid, connect, ping (twice before a daemon is called
unresponsive), judge the build, ask it to stop, kill, clean up its files, spawn,
wait, send, retry. A daemon writes its pid, binds (over whatever is there),
serves, removes socket and pid on the way out, and dies. Daemons and CLIs share
nothing but `pidFile` and `socket`.

### The session's channels

`ClipboardChannel`: handlers hold the session lock while they wait; the backend
answers the remote's callbacks; the two directions of the channel keep order,
which is all there is, for an answer carries no request id. `ViewerStream`: the
tick reads the generation, then the image, then broadcasts, and viewers register
in between; a notice that the clipboard changed takes a place in the channel like
an image, and an image may fail to be encoded. `InputDelivery`: an operation is a list of batches in one or more
holds of the lock; a wait may run out while the batch is in the processor's
queue, and the batch then still lands. `DriveRedirection`: a node stands for an
inode, so the model tells the file a handle was opened on from the file its path
names now; other programs create and remove files between requests, and the
system may refuse any removal, any folder and any entry of a listing (`CloseDevice`,
`QueryFirst`, `Lists`), with the answers the code then gives.

### ScreenText, TimeoutLadder, RunFollow

`ScreenText` copies, crops and judges a picture in the steps the handlers do,
with repaints and another session between them; the recogniser is external, and
returns the text of a box only if the crop shows all of it. A box the crop cuts may
read as something else, or as nothing, and then the line is not in the answer
(`TextLines`, after `get_all_lines_rgb`). `TimeoutLadder` has
the real constants in milliseconds: what is waited for ends quickly or only
when its layer gives it up, so each behaviour is one way of adding up waits.
`RunFollow` is the CLI's loop of polls over output that the agent hands out
once, where a poll's request or reply is lost, a socket drops, and the caller
runs the command again.

## Runs

| Run | Configuration | Shows |
|---|---|---|
| `DaemonSession` | 2 clients, 3 generations, 2 user requests, 2 drops, channel of 1, panics | `NoOrphanSession`, `CurrentDropIsHandled`, `DropEvidenceKept`, `TeardownSparesNewerAlways` |
| `DaemonLive` | 1 client, 2 generations, requests with and without stream and automation, fairness | `DeadSessionLeaves`, `InFlightReleased`, and `SessionsKeepPromise` |
| `FrameProcessor` | the real strike limit 3, queue and buffer of 1, any server | `HealthyServerSpared`, `ToldUnlessLetGo`, `KeepsPromise` |
| `FrameLive` | strike limit 2, fairness | `SilentServerDropped`, `UnwritableDropped`, `StopsWhenAsked` |
| `AgentRequests` | 2 callers, 2 requests, 2 channels, 3 agents of which one has old scripts; one of four plans; journal of 1, one recovery lookup | `RequestsTypeOK`, `HandshakeNamesPrimary`, `WaitersAnswered`, `KeyedRunsOnce`, and the refinement `OutcomesKept` |
| `Services` | one of ten services a behaviour, on the instance of its `MC` module | twenty properties, listed below by service |
| `StaleStore`, `ClosedStaysClosed`, `StreamTeardown`, `OutageEnds` | as small as the trace allows | four places where `DaemonSession`'s code and comments part, see below |
| `MuteServer`, `StuckReactivation` | | two more in the frame processor |

What the properties say:

- `NoOrphanSession`: a live frame processor belongs to the slot, or to a connect
  that is about to store it. A leak would need a connect, a disconnect or a drop
  to overwrite or forget a session without stopping it.
- `CurrentDropIsHandled`: while the slot holds the newest session dead, its
  notice is unsent, queued, or being acted on. This is the gap that checking
  `drop_reason` under the slot lock closes; checked outside, a session that dies
  in between is stored with its notice already spent.
- `DropEvidenceKept`: until a newer connect starts, `last_disconnect` records
  the drop: a connect that was already running may not erase it on success.
- `TeardownSparesNewerAlways`: the steps of a teardown empty neither slot nor
  automation state of a newer connect.
- `DeadSessionLeaves`, `InFlightReleased`: a dead session leaves the slot; the
  in-flight flag, although its release may be left to a task, is stuck only
  behind an automatic attempt whose host never ends the handshake.
- `SessionsKeepPromise`, `KeepsPromise`: the two sides of `SessionLife`.
- `HealthyServerSpared`: a server that answers its refreshes is declared silent
  only if as many handlers in a row stalled for a period as there are strikes.
  "A stall delivers at most one strike" is the code's claim; several in a row,
  with no read between them, are the only way left to a false verdict, and the
  property says so.
- `ToldUnlessLetGo`: a task that ended with its owner still holding on has
  stamped a reason and sent one notice - the early return of the terminate arm
  and a panic included.
- `SilentServerDropped`, `UnwritableDropped`, `StopsWhenAsked`: the loop does
  not stay for good in front of an armed verdict and a silent server, nor over a
  socket that takes no bytes, and ends once it is disconnected even if its queue
  is full or it is stuck in a reactivation.

- `OutcomesKept`: what callers are told keeps `RequestOutcome`: "done" only of a
  command that took effect, "did not run, retrying is safe" only of one that did
  not and never will - with answers lost, agents dying at any step, restarts,
  old agents, and journals that forgot. This is what the recovery ladder is for,
  and a wrong conclusion from "unknown id" breaks it.
- `KeyedRunsOnce`: a keyed command takes effect once, however often it is
  retried and through whichever agent, unless its record was lost in one of the
  ways the journal's comments accept (observer `excused`).
- `WaitersAnswered`: a caller that waits is the waiter of its id, or has an
  answer, or knows that its sender is gone. Two callers with one key, a close
  and a release all take entries from `pending`.
- `HandshakeNamesPrimary`: the stored handshake is that of the agent on the
  channel requests go to, and that agent runs the daemon's scripts.

`Services`, by service:

- File transfer. `WholeFiles`: neither path ever holds a mixture of contents.
  `PushVerdictsHold`: "ok" means it was there, "untouched" that it never will
  be, late executions included, and so does "rejected", unless the channel closed
  under the last chunk or the agent could not read back what it had swapped in
  (`RejectedMeansKept`, below). `SidecarsCleared`: no sidecar of a finished push
  stays, but where its abort or last answer was lost, or the agent's last attempt
  to remove it failed; a removal that fails when a chunk or the swap does is made
  good by the abort.
- Daemon processes. `EffectOnce`: a command that is not read-only takes effect
  at most once. `BusyDaemonSpared`: a daemon of this build is stopped by
  `disconnect` and `connect --replace` alone. `ReplacedIsGone`: its replacement
  is started when it is gone.
- Drive. `PathNamesHandle`: the path a handle is reached by names its file,
  through renames. `DeletesAsAsked`: a close deletes what the latest disposition
  asked or has tried to, and data the remote was told is written survives every
  other close. `ListingWhole`: a listing that ran to the end of its iterator has
  named everything, whatever was made, opened and closed meanwhile; one that met a
  failing read, or an entry taken away, is no longer followed.
- Input. `ComboUnbroken`: nobody's input lands between the first key of a
  combination going down and the last coming up, abandoned batches included.
  `ToldIsLanded`: input reported sent was sent, and a failed sequence counts its
  completed combinations rightly.
- Clipboard. `GetterNotDropped`, `CacheIsAnnounced`: the one slot is not taken
  from a waiter; a late answer does not outlive the next announcement.
- Viewers. `NoViewerLeftBehind`: on a quiet desktop each viewer has the current
  image, or will be sent it - but for one so far behind that clipboard notices push
  the last image out of its channel, and images that cannot be encoded.
- Agent launch. `InFlightHasLauncher`: the flag is set exactly while one launch
  of the current epoch runs. `AgentDownIsScheduled`: while the agent is down
  something is going to launch it, or gave up for good, or a connect was asked
  to defer its launch - an earlier one too, see the smaller things below.
- Timeouts. `DaemonGivesUpFirst`: for every kind of command and every sum of
  waits, the caller hears the daemon's verdict and not a timeout of its own;
  `connect` with its default and with a `--timeout` that just suffices.
- Follow. `OutputAccounted`: every chunk handed out is printed, held, on its
  way, or was said to be possibly lost; in order, none twice; an exit reported
  is complete.
- Screen. `ClicksJudged`: the click is where the whole picture, in its own
  coordinates, says it should be; of its boxes none goes uncounted but those the
  crop cuts and OCR reads as nothing.
- `ServicesTypeOK`: the ranges of whichever service runs.

The bounds. Three generations are what the interesting stories take: the session
that drops, the connect that replaces it, and one more that overtakes either.
Two clients give two overlapping connects, besides the drops' own tasks. Two
drops (`MaxDrops`) put two teardowns and two reconnect loops next to each other;
with a third the run takes six times as long and finds nothing else. One
place in the disconnect channel makes it full at the second drop, which eight
places would at the ninth. `MaxShort` is 1 in `DaemonSession`, where
a short session is given up at once, and 2 in `DaemonLive`, where it is counted. In `DaemonSession` all requests are unattended ones, which is what
reconnects; streams and the agent are in `DaemonLive`. A queue of one command
is full with one; with one PDU in the buffer every order of reading and writing
occurs, because the server refills it. The liveness runs use a limit of two
strikes, the smallest for which clearing and counting differ, and `LiveNext`
leaves out the PDUs that just end the task and clipboard commands, whose effect
is that of `BackgroundSends`. `Room` keeps every actor that is about to claim a
generation supplied with one, so that the bound never blocks a connect half way.

`AgentRequests` follows one of four plans, each the smallest in which its story
happens: two callers with one key and a fault; a retry while the agent is
stopped and replaced; an agent with old scripts next to one with the daemon's;
two callers whose results push each other out of the journal. One place in
memory evicts at the second result as 64 do at the 65th; `EvictedLimit` 3 lets
ids be remembered, a key stands for one command (see `ReusedKeyRefused` below),
and `Attempts` 1 leaves one lookup, for a second one meets the
same cases. The next-state relation and the properties treat callers alike, and
the two current agents too, no choice depends on which is which, and the plans
occur in the initial predicate alone: the symmetry is sound. The one temporal
formula, `OutcomesKept`, constrains single steps.

The services share no state, so `Services` runs one of them a behaviour and the
others stand still; a product of their states would show nothing more. The
bounds are the constants of `Services.cfg` and the plans of the `MC` modules:
two transfers of up to two chunks with one break and one loss; two CLIs in
twelve pairs of commands, three daemons, a crash; two names, two opens, a change by
another program; six pairs of input operations with three waits that run out;
two gets and a set over two copies; two viewers and four images over a channel
of two, so that a viewer lags; two connects and two agents, one restart, one
break, one stuck agent, one disconnect; three chunks of output, a mishap and a second follow;
three pictures. `PullAttempts`, `LaunchAttempts`, `MaxFailures`, `WedgeStrikes`
are cut to one or two from three or six: they are counts up to a limit, and both
sides of each limit are reached. `Confirmations` is the code's own 2, and
`TimeoutLadder`'s times are the code's own.

Deadlock is not checked: users may stop asking, and a bound is reached.

Each passing property has a mutant - a plausible bug in one mapped definition,
marked "Mutant" where it is defined - that makes TLC find it violated.

## Fairness

Weak fairness of a task's own steps: tokio polls every task that is ready, and
every await in the modelled stretches but one is bounded by a timeout or waits
for another modelled step. The one is the RDP handshake: `RdpSession::connect`
(`rdp_session.rs:573`) waits for its host, and neither `handlers/connect.rs:165`
nor `daemon.rs:700` puts a timeout around it. So `DaemonSession`'s `Fairness`
asks nothing of an actor at `rdp`, and `InFlightReleased` names the attempt that
hangs there. Only the `OutageEnds` run adds `HandshakesEnd`: what it finds needs
no hanging host. The daemon's
select loop keeps serving its channel, and `select!` chooses at random among the
ready arms, so none starves. The clock (`PeriodElapses`) and a server that
answers (`ServerAnswers`) get strong fairness: traffic may disable them for a
moment, again and again, but time passes and answers are not withheld for ever.
The modules of the `AgentRequests` and `Services` runs state no fairness: their
properties are safety. That each request is answered in the end is not checked;
`WaitersAnswered` and `DaemonGivesUpFirst` are what of it is safety.

Nobody promises that users ask, that servers send, drop or stay, that sockets
recover, or that code panics.

## Proofs

TLAPS checks every leaf, with no assumption but those the modules name
(`RequestsAssumption`, `MaxShortAssumption`, `BoundsAssumption`,
`LimitsAssumption`, `ProcessAssumption`, `ClipAssumption`, `ViewerAssumption`,
`FollowAssumption`, `LaunchAssumption`, `TransferAssumption`, `DriveAssumption`,
`InputAssumption`, `LadderAssumption`, `ScreenAssumption`, `PicturesAssumption`,
`AsksAssumption`: capacities and limits are positive, clients are not generations,
a plan says what its fields may be, names differ, text boxes lie on the desktop),
and the hypotheses of a few theorems, given there: two of `OutcomesAreKept` and of
`CallersHearTheTruth`, one of `RequestsTypeCorrect` and one of `DaemonIsFirst`. They hold for every number of
clients, generations, requests, agents, channels, processes, transfers, handlers,
viewers, drives, pictures and names, every capacity and every limit.

`DaemonSession_proofs`: `TypeCorrect`, `SessionsAreOwned`,
`CurrentDropsAreHandled`, `EvidenceIsKept`, `TeardownsSpareNewer`,
`SessionsAreKept`, `SessionsEndOnce`, `DisconnectsLast`. None of the
invariants is inductive alone. `IInv` adds what the code relies on without
saying: a connect under way holds a request (`RequestHeld`); the generation it
claimed is newer than the drop it started from (`Claimed`) and nobody else's
(`Distinct`); nothing belongs to a generation not claimed yet (`Bounded`,
`Born`); a session enters the slot only at its own connect's store
(`NotStoredYet`). Steps are grouped by what they do to the slot: a move that
changes no owner (lemma `Move`), one that empties it (`Emptied`), one that ends a
connect (`Ended`), and the few with arguments of their own (claim, RDP connect,
store, refuse, drop). `TeardownsSpareNewer` is an action property: it follows
from `Bounded` and the generation check in the same step. `SessionsAreKept` is
the refinement: for each generation, `Session(g)` reads `SessionLife`'s variables
off the daemon's, and every step of the daemon is a step of each session's
contract or leaves it as it is. It needs that the contract's view of a session
follows what the daemon knows of it (`LifeFollows`), and `IInv` for the steps
that end one. `SessionsEndOnce` is what the daemon's side then has of the
contract: a session ends once and for good, is never taken back once it was given
up, and is closed only when it was.

`DisconnectsLast` draws the line around the finding `ClosedStaysClosed`: a session
closed on purpose does stay closed, if no connect was past its last look at the
record when the disconnect came. With the slot empty, the record disarmed, no
actor between `ready` and `store` and no client about to `remember`
(`Disconnected`), no session is alive - by `SessionsAreOwned` one would belong to
the slot or to a connect - and every step but a user's connect leaves it so
(`DisconnectedStays`): whichever tasks of earlier drops still tear down, sleep or
stand down, each looks at the record again before it connects.

`FrameProcessor_proofs`: `TypeCorrect`, `EndsAreTold`, `PromiseKept`,
`OwnersHearOnce`, `HealthyServersAreSpared`. Every step is first classified by
what its owner can see of it (`StepEffect`: carrying on, dropping, closing,
commanding, leaving, notifying). The invariant `Told` - the reason is stamped on
leaving the loop and only then, and nobody but an owner that gave up asks for a
`Shutdown` - then gives both that every end is told and that each step maps to a
step of `SessionLife` or to a stutter. `OwnersHearOnce` carries what the contract
is worth over to the task. `HealthyServersAreSpared` rests on `StrikesAreStalls`:
as long as nothing has been read since the last keep-alive, an answering server's
answer is owed or under way, so no period can elapse unstalled, and the strikes
are no more than the stalls.

`AgentRequests_proofs`: `HandshakesNamePrimary`, `WaitersAreAnswered`,
`KeyedRunOnce`, from one invariant. `Wired` is what the daemon relies on without
checking: an agent holds one channel, its own, and one the daemon knows
(`Opener`, `Known`); the close is the last word on a channel and says that its
agent has let go of it (`CloseIsLast`), so nothing is on its way there any more
(`Deserted`); what the daemon has no part in has been read to its end
(`ReadToItsEnd`). `Accounted` says of a key whose record was not lost that its
command is on its way or executed on the primary channel alone (`OnPrimaryOnly`),
so by one agent at a time; that once it has run its record is on disk
(`Recorded`); and that whoever executes it does so for the first time
(`NotRunYet`), having found no record. A primary that is closed or released takes
no key's command with it, or the key is excused (`NowhereOff`). Steps are grouped
by what they do to the channels: a message is handed over (`HandsOver`), heard
(`Hears`), worked on (`Works`), or the agent lets go (`Leaves`).

`CliWaits_proofs`, about `RunFollow`: `FollowTypeCorrect`, `OutputIsAccounted`.
Printed, held and in-transit chunks follow each other and were handed out
(`OutputInOrder`), cover what was handed out unless the caller is told
(`Covered`), and an answer that speaks of the exit has the last of the output
(`ExitIsLast`). About `TimeoutLadder`: `LadderTypeCorrect`, and `DaemonIsFirst`,
that the daemon gives up first. `RungsBelong` says which command may be in which
rung, `TimesAddUp` what has passed at most since the request was sent - each
rung's bound is the one before it and what that rung may take - and `SendsInTime`
when a request is sent: at once, or, by a follow, before the budget that its first
answer started is spent. With them whatever is waited for fits under the socket's
deadline and the watchdog's (`FitsUnder`, `DaemonInTime`), so the CLI never gives
up. The theorem needs `EnoughTime`: that what a connect waits - its `--timeout`, or
360 s - holds the RDP handshake and the 335.4 s of what may follow it, and that
`status` and `query-result`, whose `--timeout` is used as it is, were given the 5 s
and 10 s the daemon waits; their default is 30 s. By default a connect leaves its
handshake 24.6 s. The code bounds the handshake nowhere, and a `--timeout` of any
length is taken at its word: with a slower host or a shorter one the socket gives
up first.

`AgentLaunch_proofs`: `LaunchTypeCorrect`, `FlagsHaveLaunchers`,
`DownAgentsAreScheduled`, `SessionsKeepTheirState`, `StraysOnlyWhenOvertaken`. `OneLaunch` is what the flag promises - set exactly
while a launch of the current epoch runs, and then one - and it rests on who may
write to the state: the newest connect owns it and the slot (`NewestOwns`), and
every connect and every drop makes an epoch of its own (`EpochsCounted`), so
nobody's epoch but the newest's is current. `DownIsScheduled` is kept by the
tails of launches: one that succeeded still has its agent or the loss of it will
be seen (`SuccessStands`), which is why clearing the flag forgets nobody.
`SessionsKeepTheirState` has two parts. The state a session works on is its own
connect's or none (`OwnState`). And only a disconnect takes the state from a session
that is up or being made (`DropsSpareTheState`): the wipe that follows a drop may
come at any time, but no drop of the newest session has a wipe to come while that
session is up or being made (`NothingToWipe`). That the session then has its state
is `HasItsState` (below), which a disconnect breaks. With `OwnState`,
`StraysOnlyWhenOvertaken` says how `TypesIntoOwnSession` (below) comes to
fail, and that there is no other way: the launch has asked whether its session is
current, and a connect, a drop or a disconnect moves the state on in the two seconds
before it types.

`FileTransfer_proofs`: `TransferTypeCorrect`, `FilesAreWhole`,
`PushVerdictsStayTrue`, `SidecarsAreCleared`, from `TransferInv`. For each push it
says where the one chunk under way can be (`OnItsWay`: sent once, ahead of any
abort, and if it is the last one then its caller is waiting or was told
"unknown"), that the last chunk is put in place once and as staged (`TakenOnce`),
that a positive answer to it comes after the swap (`RightlyAnswered`), and that a push that has ended left no sidecar
that could be removed, or its abort is on the way (`Tidy`); for each pull, that what it
compares with is the hash of a whole file (`PullInv`). Overlapping pushes to one
path do not disturb each other's invariant, because each has its own sidecar:
this is what `PushInv(t)`, which speaks of `t` alone, shows.

`AgentRequests_proofs`, the second half: `OutcomesAreKept`, that the requests
implement `RequestOutcome`, and `RequestsTypeCorrect`. A lookup's answer is
evidence only if nothing can change its meaning later. So `OInv` says that every
message was made for a request and its attempt (`MessagesMade`); that on a
channel a lookup comes behind the command it asks about (`InTurn`), which is why
"unknown id" from the agent that was sent the command means that it was lost;
that no two callers serve one request and a waiter is entered under its own id
(`CallersApart`, `Entered`); that a command handed to an agent is with that agent
or nowhere, and remembered by it once executed (`Followed`, part of
`CallersServed`); that answers and records of success are of commands that took
effect (`TrueAnswers`, `TrueRecords`); and that what was reported not to have run
is nowhere any more (`SafeForEver`). TLC checked `OInv` on the instance of the
run. The theorem has two hypotheses, and the code needs both. `OneCommandPerKey`:
no key is used for two commands; the code refuses that by a fingerprint which a
lookup does not compare (`ReusedKeyRefused`, below). `[]Remembers`: the agents'
memory of evicted ids has room. An agent that has executed more than 1024 + 64
requests since has forgotten which ids it evicted, and says "unknown" of one
that ran: the memory is bounded by `$EvictedIdLimit` (`actions.ps1:1875`). `RequestsTypeCorrect` has the
bound of the journal: past its limit it holds only records read back from disk,
each the only one of its key (`ReadBack`), so at most one per key; its hypothesis
is that the keys are finitely many. `OutcomesAreTrue` is about the contract alone:
"done" stands for an execution and "safe to retry" for none, now or later
(`AnswersTrue`), and no answer is taken back (`AnswersStand`); `CallersHearTheTruth`
has the same of the daemon, through the refinement and under its two hypotheses.

`Services_proofs`, about `DaemonProcess`: `ProcessTypeCorrect`,
`RequestsTakeEffectOnce`, `BusyDaemonsAreSpared`, `ReplacedDaemonsAreGone`.
`ProcessInv` says of the files that
they name daemons that were started (`Started`), of the daemon of another build
that it was there first and that while its socket is in place nothing has
replaced it (`OldIsFirst`), and of each CLI (`Stands`) that it knows a daemon
that was started, that the one it judged to be old is the one it kills, and that
it has sent no more than its place in the code allows. Every step is either a
daemon's, which moves one daemon forward in its life (`NewPhase`,
`DaemonMoves`), a CLI's that changes nothing but that CLI (`CliOnly`), or one of
the few that remove files or stop a daemon; `Advance` and `StillStands` carry
the other CLIs over.

`Services_proofs`, about the session's channels and its screen:

- `ClipTypeCorrect`, `GettersAreNotDropped`, `CachesAreAnnounced`. The second
  rests on `SlotInv`: only the holder of the session's
  lock asks, and its command is the last in the queue, or is the pending one
  with nothing behind it. The third rests on `CacheInv`: what the
  remote has sent is in the order of its copies, and an answer is behind the
  announcement of the copy it gives.
- `ViewerTypeCorrect`, `NobodyLeftBehind`. The invariant says that, once the
  current generation counts as broadcast, it is the last image a viewer will
  have shown - the last in its channel, whether it lagged or not, with nothing but
  notices after it, or what is on its screen if the channel holds no other
  (`UpToDate`) - and that the image a tick has read is no older than the generation
  it notes (`ImageNotOlder`). A notice takes at most the oldest message away, and
  that is the last image only if all that is left is notices (`MessageQueued`).
- `DriveTypeCorrect`, `PathsNameHandles`, `ListingsAreWhole`,
  `ClosesDeleteAsAsked`, from `DriveInv`. Its heart are `OneName`, that a file has
  one name at most, without which a rename by one handle would move what another
  handle's path names, and `ListingsAccounted`: what a listing has told and what
  its iterator has yet to return are all it began with, as long as the listing is
  followed. `ClosesDeleteAsAsked` is an action property: `TablesOK` has that what is
  marked for deletion is what the remote asked last (`wanted`), and `OneName` that
  the path removed was the file's only one.
- `InputTypeCorrect`, `ToldInputIsLanded`, `CombosAreUnbroken`, from `InputInv`.
  A caller without an error has nothing in the queue but the command it waits for,
  and that is the last one there (`QueueOK`); what is at the socket are then the
  parts of its operation behind it and the answered batches of the current one
  (`LandedOK`, a count of places, so that each answer adds one element), and the
  keys that are down are those pressed, then those whose release is still to come
  (`KeysOK`). The queue may hold commands of callers that gave up, but they are
  ahead of a combination's first key, so once one of its keys is down they are
  gone, and nobody queues behind it without the lock (`NoneBetween`).

- `ScreenTypeCorrect`, `ClicksAreJudged`, from `ScreenInv`, for any desktop, any
  text boxes on it - overlapping ones too - and any requests. What a window shows
  is described box by box (`Sight`): the part inside the crop, moved back
  to where it is on the desktop, readable only if it is all of the box
  (`SightFacts`). A box within the gap of the target shows in the window, and the
  part that shows is within the gap as well (`ShowsInWindow`, `NearIsSeen`); so if
  the window does not show two such boxes, the whole picture does not have them
  (`SafeIsWell`). For locate, the centre of what was seen is inside the box it is
  part of, and what reads as asked is a whole box (`LocatedIsWell`). It rests on
  the gap being below half the window (`AsksAssumption`; the defaults are 10 of
  400x160 pixels), and on the recogniser, which is external, finding what the crop
  shows and reading something where a box shows whole. A box that shows in part may
  be dropped as blank (`ShowInPart`), so the count is one of the other boxes.

`MCServices_proofs`: `EveryServiceRuns`, `ServicesTypeCorrect`,
`ServicesKeepPromises`. The run `Services` checks ten specifications in one, and
these say that nothing is lost by it: the services share no variable and the
composition moves one at a time, so each sees steps of its own or none
(`EachServiceSteps`), the composed specification implements all ten, and what is
proved of each holds of it. The four proof modules it builds on have names of
their own throughout, so that it may extend them together.

Only model-checked, and why:

- everything under fairness: the five liveness properties of `DaemonLive` and
  `FrameLive` need `ENABLED`, and no theorem attempts them;
- that `TypesIntoOwnSession` and its like fail: a theorem can say when they hold
  (`DisconnectsLast`, `StraysOnlyWhenOvertaken`), a run shows that they do not;
- what is in no run and no theorem, the tables of the next section say.

## Where the code and its comments part

Six runs end in a counterexample, each against a sentence of the repository;
`PROJECT.json` quotes it under `findings`.

| Run | What happens |
|---|---|
| `StaleStore` | A connect that a newer one overtook stores its session late; the newer one then fails. The slot holds a session older than `session_generation`: when it dies its notice is ignored as stale, and it stays. |
| `ClosedStaysClosed` | A disconnect disarms and empties the slot while an automatic attempt is connecting; the attempt stores its session afterwards. |
| `StreamTeardown` | A teardown checks the generation, then waits for the stream's lock; a connect starts its stream in between and loses it. |
| `OutageEnds` | An attempt fails, its in-flight flag is released late because the lock was contended, and its own loop takes the flag for another attempt and ends. Nobody reconnects. |
| `MuteServer` | A reaction to input that was sent just before a keep-alive is read just after it and counts as the refresh's answer: a mute server arms the verdict, and idle periods then end a healthy session. |
| `StuckReactivation` | A server falls silent in the middle of a reactivation, which has no timeout and holds the loop: no keep-alive is sent, so neither verdict can fall. |

Others were met while modelling. They are stated in their modules, as the
property the sentence promises, and are in no run; each is known not to hold.

| Property | What happens |
|---|---|
| `AgentLaunch!TypesIntoOwnSession` | `launch_and_wait` checks that its session is current, settles for two seconds and types Win+R into whatever session the slot holds then; its comment says this is the one thing it must never do (`bootstrap.rs:1564`). |
| `AgentLaunch!HasItsState` | `handle_disconnect` wipes the automation state first, whatever connect it belongs to, and takes the session afterwards (`handlers/connect.rs:464`-`478`). A connect that is under way then stores a session whose automation is off. |
| `AgentLaunch!VerdictShown` | `automate status` sets `wedged` and clears it again when a late handshake is found, in the command that shows it (`automate.rs:483`, against `docs/AUTOMATION.md:468`). |
| `InputDelivery!NothingHeldAfterPress` | A key-down whose answer is late is still queued while the handler releases the keys before it, and stays down (`keyboard.rs:258`). `send_key_press` (`rdp_session.rs:1055`) releases nothing, and a paste whose second batch fails leaves what the first one set. |
| `RunFollow!OnlyLastPollLost` | With `--json`, a follow that fails drops everything it held, not only the output of its last poll (`src/crates/agent-rdp/src/cli/commands/automate.rs:266`). |
| `FileTransfer!RejectedMeansKept` | Two failures of the last chunk are reported like a rejection, with "the destination was not replaced" (`file_transfer.rs:678`), although it may have been: the channel closes under it (`dvc_channel.rs:577`), or the agent, having swapped the file in, cannot stat or hash it there (`actions.ps1:1766`). |
| `AgentRequests!ClosedIsFailure` | A close is said to leave the outcome unknown (`dvc_ipc.rs:351`), but reaches the caller as a failure. |
| `AgentRequests!ReusedKeyRefused` | A key reused for a different command is refused by its fingerprint (`agent.ps1:181`), but `query_result` compares no fingerprint (`actions.ps1:2005`): if the refusal is lost, the lookup reports the other command's result as this one's (`automate.rs:639`). |
| `AgentRequests!RightAgentSpared` | An agent with the daemon's own scripts is told to exit although no other is in use (`dvc_channel.rs:131`). |
| `DaemonProcess!OneDaemonPerSession` | Two CLIs that each find no daemon each start one; the second takes the socket over, the first runs on unreachable (`README.md:764`). |
| `ScreenText!JudgedOnDetection` | Clicks are said to be judged on detection, whatever recognition made of it (`handlers/locate.rs:330`), but `get_all_lines_rgb` leaves out every line recognised as nothing (`ocr/engine.rs:167`): a neighbour cut off by the window may go uncounted. |
| `ScreenText!SeqNamesPixels` | A screenshot's sequence number and pixels are read under two locks (`rdp_session.rs:988`). |
| `ScreenText!ClicksJudgedSession` | A click goes to whichever session is in the slot by then. |

Smaller things the models follow as they are: an automatic attempt whose host
hangs in the handshake keeps the in-flight flag, and with it refuses every later
attempt (`daemon.rs:700`); a `connect --defer-agent` that is
overtaken writes `launch_deferred` and its retry to whatever state there is by
then, a newer connect's too (`handlers/connect.rs:314`), though its neighbours in
`bootstrap.rs` say that "belongs to a newer session, whose own bookkeeping this
must not touch"; a primary channel that wedges is
released by `automate restart` only; `adopt_survivor` does not look at epochs;
`clipboard set` leaves the cached remote text; "the partial sidecar was
discarded" is said of an abort that may not have arrived, or found the sidecar held open: the agent
answers `discarded` whether or not it could remove it (`actions.ps1:1660`); an entry
of a folder that cannot be read, a dangling link for one, is answered as the end of
the listing and hides the entries behind it (`rdpdr/query_ops.rs:539`), an error of
the iterator does the same (`:438`), and an entry asked for in an unsupported class
is used up (`:520`); a close with a deletion that failed is answered with success
(`rdpdr/file_ops.rs:149`); clipboard notices may push the last image out of the
channel of a viewer that lags, which then keeps an old picture until the desktop
next changes (`ws_server.rs:258`), and so may an image that cannot be encoded
(`ws_server.rs:228`); of more than 32
finished processes the oldest is reported as expired whatever its age; creating
over a file with SUPERSEDE empties it in place; the drive does not answer
directory-change and lock requests; `-delta_y` overflows for the least integer; a
`click-at` gap above half its window asks about boxes the window does not show
(`AsksAssumption` rules it out); and the time a key sequence is given does not
count the fifteen seconds a stalled transport may take per batch.

## Plan

Written: everything in the table of modules. Every invariant, action property and
refinement that a passing run checks is the subject of a theorem; liveness is
TLC's alone.

What is left needs a run of its own: liveness of requests - every caller is
answered, under weak fairness of the callers' timeouts - and of the launch
supervisor; connects that overlap before they store their session in
`AgentLaunch`, where `OwnState` is to be asked again (an overtaken
connect cleans up late, `handlers/connect.rs:80`). Of proofs: that `RungsBelong`
and `TimesAddUp` give the bound of each command by itself, and not only that the
layers are in order.

Runs stay few. `StreamTeardown` says least of the violations and is the first to
go if a run is needed, for `TypesIntoOwnSession`.

## What is not modelled

- Codecs and pixels: the RDP handshakes, decoding, JPEG, the fragmentation and
  encodings of the DVC (`dvc_encode.rs`), format ids and text encodings of the
  clipboard, `keymap.rs` and the browser's scancodes. Pure data.
- `AGENT_RDP_NO_AUTO_RELAUNCH` (`bootstrap.rs:214`), with which a failed launch is
  not retried: `AgentDownIsScheduled` is about the daemon without it.
- Windows: UI Automation (`snapshot.ps1`, `selectors.ps1`, most of
  `actions.ps1`), with no state of its own.
- Times where only their passing matters: the backoffs, input quiet, the hourly
  relaunch budget, logon waits. A step that a time permits may or may not happen.
  `TimeoutLadder` has those that are compared with each other.
- The composition of `Daemon::shutdown` with `DaemonSession`: `DaemonProcess` has
  it from outside, as the end of the process.
- Drive reads, attribute and volume queries and file times, which change nothing.
- Diagnostics and transcripts (appended, never read back), the wire types, the
  SDK (one more client), argument parsing and printing.
