# A verification project for zynqel-core

zynqel-core runs AI coding agents in Docker containers ("sessions") and streams
their terminals to browsers.  This directory holds TLA+ models of its server and of
its web console, the TLC configurations that check them on small instances, and
TLAPS proofs of what matters most.  Paths below are relative to the repository.

## 1. The system

### Components

| component | code | state | operations |
|---|---|---|---|
| session manager | `internal/session/manager.go`, `session.go` | map of sessions, `creating` guard, per session: status, `cleaned`, `stopDone`, container id | Create, Stop, Restart, Delete, DeleteWorkspace, RenameWorkspace, the reaper (idle and maximal duration), Shutdown |
| sandbox | `internal/sandbox/docker.go` | containers, one committed image per workspace, one volume per workspace | Create, Start, Stop, Remove, Commit, TagImage, RemoveImage, CopyVolume, RemoveVolume, Exec, Sweep |
| broadcaster | `internal/session/broadcaster.go` | the PTY connection, subscribers with two bounded channels each, ring buffer, log file, `stopped` | the read loop and its deferred calls, Subscribe, Unsubscribe, Write, Close |
| ring buffer | `internal/pty/ringbuf.go` | array, write position, full flag | Write, Bytes |
| intercepter | `internal/intercept/` | the incomplete line | Scan |
| WebSocket and REST server | `internal/server/` | one handler per request, three goroutines per stream | stream a session, input, REST calls of the manager and the stores |
| agent config store | `internal/agentcfg/store.go` | map of agents and its JSON file | Load, Put, Delete, Get, List |
| session log store | `internal/sessionlog/store.go` | one JSON record and one PTY log per session | Save, Get, List, Delete, OpenLogWriter, Cleanup |
| boot and shutdown | `cmd/zynqel-core/main.go` | none of its own | sweep, load, serve, HTTP shutdown, session shutdown |
| terminal of the console | `web/src/components/terminal-view.tsx` | per view: terminal, socket, timer; per component: refs, retry counter, status | mount, change of session, unmount, connect, messages, retry, input |
| session page | `web/src/app/workspace/page.tsx`, `session-overlay.tsx`, `confirm-dialog.tsx` | the session shown, loading, dialogs, spinners | read, poll, Stop, Start, Remove, navigation |
| list | `workspace-list.tsx`, `workspace-card.tsx`, `rename-dialog.tsx` | sessions, saved workspaces, dialogs, spinner | read, poll, Stop, Start, Remove, Resume, Rename, Delete workspace |
| agent page | `agent-config.tsx` | agents, form | read, save, delete |
| creation dialog | `create-dialog.tsx`, `app/page.tsx` | fields, choices, `creating` | open, close, create |
| history | `session-history.tsx`, `log-viewer.tsx` | records, log on the screen | read, delete, open and close a log |
| policy, adapters, logger, shortid, `pty/stream.go` | `internal/...` | none that changes | parse the environment, name an image, format; `stream.go` has no caller |

### How they interact

An HTTP handler is a goroutine that calls the manager.  The manager holds its
lock only to look at the map and the guard; every Docker call is made without
it, and takes from milliseconds to 30 seconds.  Stop answers at once and leaves
commit, container stop and history record to a background goroutine, which
closes the channel `stopDone`; Delete, Restart, Shutdown, the reaper and
RenameWorkspace wait for that channel.  Create evicts the stopped session of its
workspace and leaves its container to another goroutine.  A compare-and-swap on
`cleaned` decides who cleans a session up.

A session has one broadcaster.  Its read loop copies what the container prints
to the log file, the ring buffer and the channel of every subscriber, and never
blocks on one.  A WebSocket handler finds the broadcaster through the manager's
map, sends the replay from the ring buffer, and starts goroutines that copy the
two channels to the browser.  Close closes the connection and waits until the
read loop's deferred calls have closed the log file and the channels.

The agent store keeps a map under a lock and writes it to a temporary file that
it renames; the log store has no lock and one JSON record and one log per session.
At start the process sweeps containers, loads the agents and removes old records.

The console keeps nothing but React state.  Each component reads with `fetch` when
it is mounted, two of them again on a timer, and changes its state when an answer
arrives, which may be after the user has gone on to something else.  The terminal
has a WebSocket of its own to the stream handler.

### What is hard

* Requests, background goroutines, the reaper and the shutdown interleave at
  every Docker call, and some session fields are read and written without the
  lock (`Status`, `stopDone`).
* Create and RenameWorkspace have a dozen early returns, each of which has to
  undo just what was done.
* A sandbox call may fail or time out between any two steps.
* The end of a stream meets viewers that come, lag behind, or leave.
* Output is cut anywhere: by reads, by the ring buffer, by the line buffer.
* Nothing but files and Docker's objects survives a crash, which may come between
  any two file operations.
* In the browser every await is a point where the component may have been given
  another session, closed a dialog, or been unmounted.  Answers come late, in any
  order, or never.

### What makes each component correct

* Session manager: two running sessions never share a workspace; the guard is
  released by the one who took it, on every path; a container is cleaned up by
  one goroutine and leaked by none; a session that ends leaves a record; a
  rename neither runs beside a session nor loses files; every call returns and
  none ends the process.  Section 3 says which of these the code does not keep.
* Broadcaster: no channel is closed twice or used after; a viewer sees an
  unbroken piece of the output across replay and live data; Close returns
  whatever viewers do, and what was read is in the log by then; viewers are told
  when the stream ends.
* Ring buffer: it holds the last `size` bytes of the output.
* Intercepter: a prompt is found however reads cut it, once; the buffer is
  bounded.
* Agent store: an acknowledged change is never lost, and nothing is served that
  was not asked for.  Log store: a record that names a log has one.
* Terminal: one connection and one terminal at a time, for the session on display,
  showing its output and no other, up to date once connected.
* Pages: what is shown comes to agree with the server; an optimistic status and a
  spinner are always backed by a request under way; one click makes one session.

`PROJECT.json` lists the hazards one by one, at the lines where they bite, with
the properties that cover them.

## 2. The modules

| module | models | state and actions |
|---|---|---|
| `Sandbox` | `docker.go` as the manager uses it | `ctr`, `tagged`, `layers`, `volumes`, `data`; one operator per call, and `...Failed` where a failure leaves something behind.  An image or a volume is the set of sessions whose work it holds |
| `SessionManager` | `manager.go`, `session.go` | `sessions`, `creating`, `obj` are the map, the guard and the Session objects; `pc`, `loc` the goroutines.  Actions are named for the call and its part: `CreateAdmit` is the locked section of Create, `StopMark`/`StopSpawn` the status write and the `stopDone` write of Stop, `StopDefer`/`StopClaim` what its goroutine begins with, `CleanCommit`/`CleanHalt`/`CleanRemove` `cleanupSession`, `WaitBegin`/`WaitEnd` `waitStopDone`, `Rename...` the steps of RenameWorkspace.  `Work` is what the agent in a container does, until the container stops |
| `MC_Sessions` | | which request makes which call in each run |
| `Windows`, `RingBuffer` | `ringbuf.go` | operators on the buffer's value: `Write`, `Bytes` |
| `Intercepter` | `intercepter.go`, `patterns.go` | operators `Scan`, `StripANSI`, `MatchLine` on output cut into the pieces they tell apart |
| `Broadcaster` | `broadcaster.go`, the stream handler of `ws.go`, `alignReplayToLineStart` | extends the two modules above.  `rl` is the read loop (`ReadChunk`, `Deliver`, `ReadError`, then the deferred `CloseLog`, `CloseAllSubscribers`, `Signal`); `subs`, `sub` the subscribers; `pc`, `screen` the viewers; `place`, `status`, `closing` what the manager does to the session |
| `MC_Broadcast` | | outputs and symmetry |
| `MC_Intercept` | every caller of `Scan` | outputs chosen byte by byte |
| `Terminal` | `terminal-view.tsx`, its part of `ws.go` | an effect of the component is a number; `disposed`, `term`, `sock`, `sidOf` are its closure, `wsRef`, `termRef`, `reconnectTimer`, `reconnectAttempts`, `status` the component's.  `Cleanup`, `Loaded`, `Connect`, `Open`, `Message`, `OnClose`, `ReconnectTimer` are the functions of the source; `Join` subscribes and sends the replay, aligned by `Replay`; `Dropped`, `AgentPrints`, `StreamEnds` are the network and the server |
| `MC_Terminal` | | two sessions, and what the first prints |
| `Api` | `lib/api.ts`, the REST handlers of `sessions.go` | `calls` are the requests in flight, each with the steps the server has made and its answer; `Serve...` one operator per handler, `Lost` a request or answer that is lost, `Elsewhere` another tab or the reaper |
| `WorkspacePage`, `WorkspaceList` | `page.tsx`, `workspace-list.tsx` and the dialogs and cards they use | the `useState` variables under their names (`shown` is the page's `session`, `rows` and `saved` the list's `sessions` and `workspaces`); `Handle...` is a handler up to its await, `...Done` the rest |
| `Dashboard` | the router | composes the three above: `Route` mounts, unmounts, or runs the effect of `[id]` again |
| `WorkspaceSessions` | | the abstract specification of the sessions and their workspaces: open, stop, remove and move, each done at once.  `SessionManager` and `Api` both implement it |
| `DurableMap` | | the abstract specification of a store of named values |
| `AgentStore` | `agentcfg/store.go`, `server/agents.go` | `mem`, `file`, `tmp`, `lock`; `Change`, `OpenTmp`, `WriteTmp`, `RenameTmp`, `FlushFails` are the steps of Put and Delete; `may` is history: what each agent may be |
| `AgentConfig`, `CreateDialog` | `agent-config.tsx`, `create-dialog.tsx` | extend `AgentStore`, whose clients send their requests |
| `SessionLog` | `sessionlog/store.go` | `rec`, `logged` are the files of a session; `save` the two saves a session can have; `LookForLog`/`WriteRecord` are `Save`, `DeleteFiles` in two steps, `CrashAndCleanup` |
| `SessionHistory` | `session-history.tsx`, `log-viewer.tsx` | extends `SessionLog` |
| `Stores` | | composes the stores with the three pages that use them, one page at a time; other tabs |
| `MC_Stores` | | two agents and two sessions, and where they start |
| `StreamLemmas` | | lemmas on sequences, induction, folds, and the operators of the intercepter |
| `SessionManagerProofs`, `SessionEndProofs`, `BroadcasterProofs`, `InterceptProofs`, `TerminalProofs`, `StoresProofs`, `DashboardProofs` | | the theorems of section 5 |

A section under a mutex is one step.  Each sandbox call is a step of its own,
and so is each access to a session field outside the lock that another goroutine
can race with.  A goroutine that has returned keeps no locals.

The definitions marked `mutant` are variants of the one below them with a
plausible bug; nothing uses them.  Each property is violated when the variant of
some definition takes its place, which `PROJECT.json` lists.

### Abstractions to know about

* `SessionManager` takes `broadcaster.Close`, with which a cleanup begins, to
  return: that it does, whatever viewers and the container do, is `CloseReturns`
  of `Broadcaster`, and what has been written when it does is `CloseWaits`.
* `waitStopDone` gives up after 35 seconds, later than the 30 seconds after which
  the cleanup's own calls fail.  The model waits for the channel only, so that
  `CallsReturn` does not lean on the timeout.
* The part of a session id that names the workspace of a session created without
  `workspace_id` is taken to be unique.
* The sends of one locked section of the read loop are made at once; a receive
  that would fall between two of them counts as made before or after.
* Whether a log file can be opened or written changes nothing but the log and is
  left out.
* A prompt is the place where its indicator ends; its text and options are not
  modelled.
* Fields named "history" in the modules record what happened and steer nothing; of
  a session these are `stops`, the Stops that found it running, `guarded`, whether its Create
  held the guard, `replaced`, whether a Restart took it out of the map, and `late`,
  whether its container wrote on a volume that a rename had copied already.
* The work done in a container is one piece of files and packages, added at any time
  while the container runs, whether or not the session is still in the map.
* The output of `Terminal` is cut into pieces, and an end of a line is a piece of its
  own.  The channel of a viewer and the messages the network holds for it are one queue;
  a piece may be dropped once `Queue` pieces are on their way, and need not be.
* `Api` reduces the manager to what a client can tell apart: `SessionManager` is the
  model of Create, Restart and Rename step by step.  That an agent's exit leaves its
  session "running" is in `Terminal` (`exited`); the pages never learn of it.
* A new session takes any id that is not in use, in place of a random one; a fixed
  choice stands for all of them, since nothing compares ids but for equality.
* The router is modelled by what it mounts: a push takes effect some time later, and
  the last one wins.  A page that is left keeps its requests; what they set is ignored.
* A modal dialog keeps the user from the buttons under it.  Search, filters and
  toasts are left out.
* In `AgentStore` what has been handed to the kernel survives a crash of the process;
  a power failure is outside the model (the code does not call fsync).  `Configs` are
  whole configurations; the form of the console can express `FormConfigs` only.
* `SessionLog` takes a removal of a file to succeed, and has one removal of a session
  under way at a time.  Requests to remove are for sessions the history lists: the API
  would also unlink the log of a session that runs.
* The page of the agents and the list stay open while a save or a creation is under way:
  `OneSave` and `OneCreation` are about their form and their dialog being closed and opened
  again, not about the page being left and mounted again, after which a second request can
  go out beside the first.

## 3. The runs

| run | module, cfg | checks |
|---|---|---|
| `rename` | `MC_Sessions`, `MC_Rename` | `TypeOK`, `GuardedExclusive`, `RenameExcludesRunning`, `FilesSurvive`, `ImplementsSessions` |
| `timeouts` | `MC_Sessions`, `MC_Timeouts` | `GuardHasOneOwner`, `OneCleaner`, `WaitCoversCleanup`, `HistoryKept`, `ContainerOwned`, `CallsReturn` |
| `broadcast` | `MC_Broadcast`, `MC_Broadcast` | `TypeOK`, `OpenIffSubscribed`, `CloseWaits`, `RingIsWindow`, `ViewersSeeAll`, `CloseReturns`, `ViewersLeave` |
| `intercept` | `MC_Intercept`, `MC_Intercept` | `BufferIsBounded`, `PromptsFound`, `NoPromptTwice` |
| `terminal` | `MC_Terminal`, `MC_Terminal` | `TypeOK`, `SoleSocket`, `SoleTerminal`, `NoForeignOutput`, `CaughtUp`, `Settles` |
| `dashboard` | `Dashboard`, `MC_Dashboard` | `StoppedIsBacked`, `SpinnersAreTrue`, `ServesSessions`, `NoForeignRead`, `PageConverges`, `ListConverges` |
| `stores` | `MC_Stores`, `MC_Stores` | `AckedSurvives`, `OneSave`, `OneCreation`, `RecordHasItsLog`, `LogIsOfTarget`, `ImplementsDurableMap`, `RequestsSettle` |
| `resume` | `MC_Sessions`, `MC_Resume` | violates `ResumeSeesWork` |
| `failed_setup` | `MC_Sessions`, `MC_FailedSetup` | violates `RemovedVolumeIsEmpty` |
| `late_subscriber` | `MC_Broadcast`, `MC_LateSubscriber` | violates `ChannelsCloseAtEnd` |
| `two_stops` | `MC_Sessions`, `MC_TwoStops` | violates `StopIsGraceful` |
| `deleted` | `MC_Sessions`, `MC_Deleted` | violates `CopiesAtRest` |

What they show:

* **rename.** RenameWorkspace against two Creates, a Stop and a Delete, where
  every sandbox call and every command of a setup may fail and containers write until
  they are stopped.  Two sessions created under the guard never run on one workspace, and
  none runs on the workspace being moved.  Files are lost in two ways only, those of
  `failed_setup` and `deleted`: with the volume that a Create removes when its setup has
  failed, and when a container writes on a volume between the rename's copy and its
  removal.  Whatever else fails, and however the rollback goes, what leaves a volume is on
  another one.  To its clients the manager does one thing at a time
  (`ImplementsSessions`): the steps of a rename, with the waits and the copy between them,
  are one move that nobody comes between, and a session once stopped never runs again.
* **timeouts.** The reaper, Shutdown, DeleteWorkspace, Restart, Create with or without a
  workspace id, and two Stops, at a capacity of one.  The guard is always released by its
  owner.  Two Stops that both pass the unlocked status check still leave one cleaner;
  whoever waited for the channel of a session's only Stop comes after its commit and its
  record.  Every session that has left the map has its record unless a Restart replaced
  it (which keeps none, `manager.go:394`), and no container is left without an owner.
  Every call returns although calls wait for one another, unless the process has died of
  the double close that `two_stops` shows; and that takes two Stops of one session.
* **broadcast.** One viewer that may never read, on a line followed by a coloured
  prompt, with a ring buffer of half the output and a container that ends at any moment,
  against Stop and Delete.  No channel is closed twice or sent on after; replay and live
  output fit without gap or repetition, the replay starts at a line, Close returns with the
  log complete, and a viewer that is subscribed at the end leaves.
* **intercept.** Every output of up to six pieces, cut in every way, on a line
  buffer shorter than the longest line.
* **terminal.** A view is mounted, switched to another session, switched back and
  left, at any point of its imports, its connection, its retries and its closing,
  while agents print and exit, connections drop and sessions are stopped, also
  between the upgrade of a connection and its subscription.  One socket or pending retry
  at most, to the session on display; no output of another session on the screen; the view
  comes to rest.  `CaughtUp` says what a terminal has once it has received what was sent:
  of the last `Window` pieces all that follow the first end of a line among them, whenever
  they were printed, but for those dropped because the viewer's channel was full.  It says
  nothing of a buffer without the end of a line, of which the replay is empty
  (`ws.go:226`).
* **dashboard.** The session page and the list, their dialogs and the router, with
  answers that are late, reordered or lost, deletions that fail, and another tab that stops
  and deletes.  What is shown as stopped without the server's word is backed by a Stop
  under way, no spinner sticks, an answer about a page that was left does not come
  back but in the two cases `NoForeignRead` names, and both pages converge to what
  the server has.  That server is reduced (`Api`), and does nothing that
  `WorkspaceSessions` forbids (`ServesSessions`).
* **stores.** The agent page, the creation dialog and the history, each beside
  another tab and a server that crashes at any file operation, and, for the agents,
  writes that fail.  The agent store implements `DurableMap`, no acknowledged change
  is lost, the record of a session that was saved once has the log it names, a form or
  dialog sends one save or one creation at a time, and the viewer shows the log it was
  asked for, also when that is closed and opened again.

### Disagreements between the code and what it says of itself

1. `README.md:129` promises to "pick up where you left off".  A Create on a
   workspace whose Stop is still committing chooses the image before that commit
   (`resume`).
2. `manager.go:212` removes "the empty volume" after a failed setup; after a
   failed branch checkout in a populated workspace the volume holds all its files
   (`failed_setup`).  Any failed command of the setup has that effect: when the test for
   a repository fails, git is asked to clone into the files that are there, and refuses.
3. `broadcaster.go:28` says both channels are closed when the stream ends.  A
   viewer that subscribes after the end is registered, and nobody closes its
   channels.  When an agent exits by itself its session stays "running", so this
   is what every later viewer meets (`late_subscriber`).
4. `manager.go:303` says Stop stops a session "gracefully", `session.go:211` that its
   `stopDone` is "closed when background stop cleanup finishes".  Two Stops of one session
   that both pass the check of the status, and whose goroutines both begin after the second
   has replaced the channel, close the same channel: the server panics (`two_stops`).
5. `manager.go:546` says a rename waits "for any mid-stop sessions to finish cleanup
   (commit + container stop) before copying the volume".  It looks for them in the map,
   which Delete and the reaper have taken their session out of before they stop it: its
   container may write on the volume while it is copied and removed (`deleted`).

### What else the code does

The models contain these behaviours, or were cut so that they are outside; none of
the properties contradicts them.

Server:

* Stop writes the status (`manager.go:319`) before it makes the channel (321).  A
  Delete or Restart in between has nothing to wait for and may remove the
  container before it is committed.  `WaitCoversCleanup` is about those who found a channel.
* The limit of `ZYNQEL_MAX_SESSIONS` is compared with the map, which admitted
  Creates enter only when they are done: Creates in flight can exceed it.
* `alignReplayToLineStart` is there for a replay that "begins mid-line" (`ws.go:207`), but
  also trims one that begins at the very start of the output: a viewer of a session whose
  first line is not ended yet gets no replay, and no later viewer gets that line.
* A session may be saved twice: a Delete that finds it running and waits for nothing saves
  it, although the Stop that comes in between wins the compare-and-swap and saves it, too
  (`manager.go:346` and `398`).  A deletion of the history entry between the two brings the
  record back, and one between the look at the log and the write leaves a record that names
  a log that is gone; `RecordHasItsLog` is about sessions saved once.
* A Create without `workspace_id` takes no guard, and the workspace it names after
  its id can be asked for by another client as soon as its volume exists.  Two
  running sessions on one volume are possible then; `GuardedExclusive` is stated
  for sessions created under the guard for that reason.
* A session that was running when the server crashed leaves no record; its log,
  and a record torn by a crash, are not cleaned up.
* A boot that cannot read `agents.json` goes on with an empty store, and the next
  Put overwrites the file: this is `Forget` of `DurableMap`.  A Put whose write
  fails answers with an error and leaves its change in memory, for the next write
  that succeeds to save.
* The image of an agent is built before its Put, under a name made of the agent's
  (`agents.go:54`): two concurrent updates may leave the image of one and the
  configuration of the other.

Terminal:

* The retry counter is reset by a connection only, so a view inherits what the
  view before it has used up; the status of the session before stays on the screen
  until the new connection changes it.
* After a reconnect the replay is written below what is on the screen already.
* Messages are decoded one by one: a character cut by a read shows as
  replacement characters.

Pages:

* A failed first read shows "Session not found" until the next poll.
* A Stop of a session that is deleted before its answer is made is answered with
  `null` (`sessions.go:94`); the list puts it among its rows and fails to render.
  `blank` is that state, and the reason for the condition of `ListConverges`.
* Stop, then Start before the answer of Stop has come, restarts a session that
  still runs.
* Who leaves the page while a session is being created is taken to it anyway when
  it is there.  The success of a rename closes whatever rename dialog is open, and a
  late save whatever form of an agent.
* Editing an agent in the form drops its `env` and image and takes a quoted
  argument apart.  Cancel keeps what was typed in the creation dialog, Esc does not.

### Bounds

* Sessions: two sessions, three or four requests, one or two workspaces.  A
  hazard of the manager needs a session and its successor on one workspace and at
  most two requests that race with a third; with two sessions each can be
  evicted, reaped, restarted and replaced.  Each request makes at most one call;
  `Calls` says which, so that every run is about one question.
* `MaxSessions` is 0 (unlimited) or 1, so that the limit is reached.
* `SandboxFaults` lets any sandbox call fail at any time; it is on in `rename`,
  where error paths are the question, and off where leaks are: a sandbox that
  refuses to remove a container leaks it whatever the manager does.  Calls on a
  container that is gone fail in every run.
* `Size` 2 or 3, `MaxOutput` 3 or 6, `MaxChunk` 2, `ChanSize` and `EventChanSize`
  1: the ring wraps, a chunk can end exactly at the boundary or be as large as the
  buffer, and channels are full after one send.  There is one viewer, since the read loop
  serves each by itself.  The proofs of section 5 do away
  with these bounds for the properties they cover.
* `MaxLine` 3 or 4 against lines of up to six pieces: an ANSI sequence and an
  indicator of two pieces each can be cut by a read, and by the line buffer.
* `Workers` are the sessions in whose containers work is done: both in `rename`, `deleted`,
  `resume` and `failed_setup`, none in `timeouts` and `two_stops`, whose properties do not
  look at files.
* `Creators` permutes the two requests of `rename` that create, which no property tells
  apart; that run checks no liveness.
* `timeouts` has Creates without a workspace id beside those with one.  `rename` has only the
  latter, since a Create without the guard can lose files to a rename, which
  `FilesSurvive` and `FilesAreKept` leave out.
* `terminal`: two sessions and two views, so that there is one before and one
  after; one retry; a first session that prints text, the end of its line, and both again,
  with a buffer of three pieces, and a second that prints nothing, since output of the first
  is enough to show up in the wrong place: the replay is empty, begins after the end of a
  line, or begins with the end of a line, and has lost what was printed first.  `Queue` is
  2, so that pieces are dropped; one dropped connection; one keystroke, which is what finds
  out that a server has hung up.  The theorems of section 5 hold for any number.
* `dashboard`: two workspaces and two sessions, two calls of the user in flight,
  one poll per component, two acts of the user, one of another tab, one lost
  request.  A stale answer needs a call, what overtakes it, and a third party that
  changes the session meanwhile.
* `stores`: two agents with two configurations, two requests, one crash, one
  failed write; two sessions, one crash or lost answer (`MaxTroubles`), two visits to the
  history, two reads of logs under way, of the same or of different ones.  Another tab
  deletes what the history lists and can be read.
  One crash is enough between any two file operations; what a second could meet is
  in the proofs.  The page that is open is chosen at the start, since the stores share no
  state.
* Deadlock is not checked in `terminal`, `dashboard` and `stores`: the user may stop and
  the bounds may be used up; their liveness properties say more than the absence of
  deadlock.  `Quiescent` and
  `Quiet` are the states in which the other models may stop.

## 4. Fairness

* `SessionManager!FairSpec`: weak fairness of each goroutine's steps after its
  call has begun.  The Go scheduler runs every runnable goroutine, and each Docker
  call has a context with a deadline, so that it returns.  Nobody has to call.
* `Broadcaster!FairSpec`: weak fairness of the read loop once it has a chunk or an
  error, and of the goroutine in Close.  Reading is not fair: the container need
  not print.  Viewers are not fair either, which is the point of `CloseReturns`.
* `ViewersLeave` assumes fairness of the viewers' server goroutines in its
  statement.  A write to a client that does not read blocks until the handler's
  read deadline (`ws.go:73` and `146`) passes and it closes the connection; a client
  that keeps sending and never reads is outside the assumption.
* `Terminal!FairSpec`: weak fairness of each effect's events.  The browser's event
  loop runs what is queued, imports arrive, a socket opens or fails, and a timer
  fires; and of `Join`: a handler that has upgraded a connection subscribes or gives up.
  The user, the network's drops and the agents owe nothing.
* `Dashboard!FairSpec`: weak fairness of the two poll timers, of the router, and,
  for each kind of call, of the server's steps and the delivery of the answer: `fetch`
  ends with an answer or an error.  `PageConverges` and `ListConverges` lean on the
  timers, which run as long as the component is mounted.
* `MC_Stores!MCSpec`: weak fairness of the server's handlers, of the delivery of
  answers, of the reads of logs, and of the cleanup at boot.  Nobody has to ask.

## 5. The proofs

All theorems are checked by TLAPS for every value of the constants, from named
assumptions that TLC evaluates in the runs of their modules:

* `ConstantsAssumption`: the kinds of ids are distinct, the parameters of the
  manager have their types;
* `RingAssumption`, `LineAssumption`, `StreamAssumption`: sizes are positive, outputs
  are sequences of bytes, each of which carries its place (how the model tells bytes
  apart); `OutputAssumption`: the bounds of `MC_Intercept` are numbers;
* `TerminalAssumption`: bounds are numbers, what sessions print are sequences of pieces, the
  buffer holds one at least;
* `ApiAssumption`: the bounds of the console are numbers, there is an id for a session, and
  `NoWs` names no workspace;
* `StoreAssumption`, `LogAssumption`: the values that stand for nothing are no
  values, bounds are numbers; `FormAssumption`, `OthersAssumption`: what the form and
  what other tabs put are configurations; `DialogAssumption`, `HistoryAssumption`:
  how often a list is read is a number, the history is opened once at least.

**Session manager** (`SessionManagerProofs`).  `TypeCorrect`, `GuardExcludes`,
`GuardIsOwned`, `RenameIsExclusive` and `SingleCleaner` hold for any number of
requests, sessions and workspaces and any sandbox failure.  None of the
properties is inductive: that a Create may publish its session depends on what it
knew many steps ago.  The invariant `IInv` adds

* `ProcOK(p)`, what a goroutine relies on at its control point: `SidsOK` (the
  session it works on is published, or is its own and unknown to others),
  `StopOK` (the channel a Stop will close exists), `HeldOK` (which guard entries it
  has, and that no guarded session runs on those workspaces meanwhile), `KindOK`
  (which calls get to which control point);
* `SessOK(i)`: published sessions have ids that were issued and a workspace;
* `OneMaker`: no two Creates make the same session.

`HeldOK` is the heart: from admission to publication a Create holds the entry of
its workspace and no guarded session runs there, which only the owner of that
entry can change.  `StepLemma` says when a step of one goroutine keeps `IInv`: it
keeps `ProcOK` of that goroutine, takes only free guard entries, gives up only its
own, and publishes nothing but what it made.  Every action has a lemma that shows
it to be such a step.

**The end of sessions** (`SessionEndProofs`, which extends the former), under the
same generality.  `WaitsLongEnough`, `OnlyTwoStopsPanic`, `RecordsAreKept` and
`ContainersAreOwned` follow from `EndInvariance`.  Most actions are alike to the end of a
session, so the proofs first show that each step is one of a dozen kinds (`EndStep`: it marks a session as
stopped, makes its channel, claims its cleanup, closes the channel, saves, starts to wait,
takes a session out of the map, ...), and then that each kind keeps each part of
`EndInv`:

* `Flow`: which operations can be at which control point with which session;
* `Channels`: the `stopDone` of a session, and what a caller waits for or a Stop
  will close, is the channel of one of its Stops, and a closed one is that of a Stop
  that is over, or its session has another.  Two Stops of a session may both write
  `stopDone`, and one then closes the channel of the other, which is why
  `WaitCoversCleanup` speaks of the only Stop (hazard `manager.go:321`);
* `Histories`: a session that was claimed has a record or a goroutine between
  the claim and the save, a stopped one was claimed or has a Stop on its way to
  claim it, and one that has left the map is stopped, replaced, or about to be cleaned;
* `Owned`, and `Scrapped` for a Create that gives up: a container is of a session in
  the map or of a goroutine that will remove it.  These two are stated for
  `~SandboxFaults`, as `ContainerOwned` is: a sandbox that does not remove a
  container leaks it whatever the manager does.

* `PanicsTwice`, for `OnlyTwoStopsPanic`: the process has died only where two Stops marked
  one session, since a Stop that is about to close a closed channel has one that another
  Stop of its session closed, as `Channels` says.

`FilesAreKept` allows any failure of the sandbox, any command of a setup to fail, and any
work in the containers, and has one hypothesis, `CallsKeepFiles`: every Create names its
workspace, and nobody deletes workspaces.  The guardless Create of section 3 shows what
happens without the first, and deleting is what the second is for; the run `rename` meets
it.  It says that files are lost only with the volume of a failed setup (`dropvolume`) and
by a container that writes between a rename's copy and its removal (`late`).  Its invariant
`FilesInv` says what a Create and a rename rely on while the guard keeps other calls off
their volumes: a container of a Create that is under way is on the volume it holds the
guard of; a rename that is past its copy has on the new volume all files of the old one but
the late ones (`Moved`); and until it has tagged the image, when it may still roll back,
the new volume has no file that the old one has not, and no container is on it (`Fresh`),
so that the rollback loses nothing.

**The promise of the manager** (`ManagerImplements` of `SessionEndProofs`,
`ServerImplements` of `DashboardProofs`).  `WorkspaceSessions` is mapped to the map of
sessions (`state`, `home`), to the sessions created under the guard (`alone`) and to
the renames between their two locked sections (`moving`).  Opening such a session
demands that nobody like it runs on the workspace and that no rename from or to it is
under way; beginning a rename demands that nobody runs there and no other rename
touches either name, and ending it that still nobody runs there.  The code checks
nothing where a session is entered in the map (`manager.go:274`), and nothing again where a
rename moves the stopped sessions along (`manager.go:607`): it relies on guard entries
taken long before.  So the step correspondence needs `IInv`: `HeldOK` for the Create that
publishes (`PublishRefines`), and the entries of a rename for its two ends
(`StartRenameRefines`, `MoveRefines`).  Waits, sandbox calls and cleanups are stutters, and
the evictions and removals of Create, Delete, Restart, the reaper and Shutdown one
operation, `Remove`.  For `Api` the
same promise follows from `ConsoleInv`, which has the ids and the workspaces of
the calls under way; a Create is there a `Remove` and an `Open` in one step.

**Ring buffer** (`BroadcasterProofs`).  `WriteIsRing`: no write leaves the array.
`WindowSlides`: writing a chunk slides a window of `Size` bytes over the output.
`WrappedIndex` is the arithmetic of the boundary; `LastOfConcat` says that what has
slid out of a window does not matter for what stays.

**Broadcaster** (`BroadcasterProofs`), for any output, chunking and number of
viewers.  `RingHoldsTheEnd` lifts `WindowSlides` to executions, with the invariant
that the ring is the window on what was delivered.  `CloseIsComplete` follows from
`LoopOK`, which says at each point of the read loop what has been delivered and
released.  `ChannelsAreSafe` follows from `ChannelsOK`: the subscribers are records
throughout, and a channel is open exactly while its subscriber is registered.

`NoGap` and `BroadcastTypes` follow from `BroadcastInvariance`.  Its part `Served` says
of a live viewer that it is registered until the read loop has closed the channels, that
it subscribed no later than now, and, unless a full channel has dropped output (`missed`),
that screen and channel together are the output from the place of the first byte to
`seen`, with the prompts likewise.  The replay and the registration are one locked section:
there the ring is the window on exactly what was fanned out (`RingHoldsTheEnd`), and
aligning it to a line drops a prefix of it, so what is left is an end of the output.
A chunk extends that end by the same bytes for whoever is registered, and a receive
moves the front of the channel to the screen (`FlattenHead`, `FlattenAppend`).  No
invariant is needed of the other viewers, which is why any number of them may come and go.

**Intercepter** (`InterceptProofs`), for every output, every way to cut it and every
`MaxLine`.  `BufferBounded`, `PromptOnce` and `EveryPromptFound` follow from
`Intercepted`.  The buffer alone does not say what has been found: after a prompt the
code empties it in the middle of a line (`intercepter.go:61`).  `Progress` therefore
has a cut: the buffer is the last `MaxLine` pieces of what follows the cut, and the
cut is the start of the line or lies after a prompt that was found, with nothing but
padding and ANSI sequences in between.  Hence what is found next ends beyond the cut and is
new, and a prompt that the whole line shows is the one before the cut or one of the buffer
(`CutPrompt`, `BufferMatch`), also when an ANSI sequence or the bound is cut in two.

**Induction** (`StreamLemmas`).  The library's induction theorems take an operator.
`Induct` takes a set of numbers instead, from the well-foundedness of their order; with
it a function is shown to exist that satisfies the recursion by which the community
modules define a fold or `FlattenSeq`, so that the function their definitions choose
satisfies it too (`IteratesExist`, `JoinsExist`).  `StripStep`, `ScanIterates`, `FlattenHead`
and the rest are then proved about one step of it.

**Terminal** (`TerminalProofs`), for any number of sessions, views, retries and
drops.  `TerminalTypes`, `OneSocket`, `OneTerminal`, `OwnOutputOnly` and `NothingIsMissed`
follow from `Strengthening`.  Its invariant relates the closures of the effects to the refs of the
component: `Scope`, that every effect but the last is cleaned up and the last one
is of the session on display; `Held`, that what is alive is what the refs point to,
so that the next cleanup finds it, and that a cleaned-up effect has nothing alive;
`Budget`, that the counter is bounded; `OwnOutput`, that what is on the wire to an
effect is of its session.  For `NothingIsMissed` a further invariant, `UnderWay`, says that
every piece of the buffer that follows an end of a line there is on the screen, on the wire
or among the dropped ones of a terminal the server streams to.  A piece leaves that set when
the buffer moves on, and enters it only when it is printed, since the first end of a line in
the buffer moves on, too; the aligned replay is all of the set when the stream begins.  It
holds only because a hung socket's session prints no more (`HungIsQuiet`).

**Agent store** (`StoresProofs`), for any agents, clients, requests and crashes.
`StoreTypes`, `AckedNeverLost` and `StoreImplements` follow from `StoreStrengthening`:
the lock is held by exactly the client that is between two file operations, that
client still finds its change in the map, and what it is about to rename is the map.
`StoreImplements` is the refinement: `mem` is what `DurableMap` shows, the history
variable `may` what an observer has to be prepared for; a change of the map is an
`Attempt`, the rename an `Acknowledge`, a crash with its boot a `Restart` or a
`Forget`, and every other step a stutter.

**Stores and their pages** (`StoresProofs`), for any number of agents, clients,
sessions, requests, crashes and lost answers.  `StoresInvariance` has one part for each
component.  `PageInv` and `DialogInv` relate the flags `saving` and `creating` to the
requests under way (`OneWhile`: at most one, exactly while the flag is up), which
gives `SavesNeverRace` and `CreationsNeverRace`; of the server they use only that a
request begins when it is asked and ends when its answer is delivered.  `FilesInv`
says that only sessions that are over have records, that a save which found the log writes
its record while the log is there, and that a removal that is half done has removed the
record first; each but for a session that is saved twice, whose second save may overtake
a removal.  `RecordsHaveTheirLogs` follows.  `ViewInv`, for
`LogsAreOfTheirTarget`, says that a read that is still listened to is of the session the
viewer is open for.  `PagesUseTheStore` shows that the composition takes only steps of
`AgentStore`, and so inherits `AckedNeverLost` and the refinement of `DurableMap`.

**Console** (`DashboardProofs`), for any number of sessions, workspaces, calls, clicks,
other tabs and lost answers.  `ConsoleInvariance` relates the two pages and the calls
under way to the server: `CallsOK` says which calls are listened to and of whom they
are; `Honest`, that a row or an answer says "stopped" only of a session that is, for good,
however late it comes, which `ServerMoves` keeps since no stopped session runs again under
its id; `PageOK` and `ListOK` say that each spinner has exactly one call.
`StopsAreBacked`, `SpinnersNeverStick` and `ConsoleTypes` follow, and the action property
`NoForeignReads`, since a read that is listened to is of the session on the route.
The bound on the calls has to be proved too: only the read of a navigation exceeds
`MaxCalls`, by one (`Cap`).

**Model-checked only.**  Every invariant and action property of the runs that hold is
proved, and so are the refinements of `DurableMap` and `WorkspaceSessions`.  Liveness (`CallsReturn`, `CloseReturns`,
`ViewersLeave`, `Settles`, `PageConverges`, `ListConverges`, `RequestsSettle`) is out of
the prover's reach and stays with TLC.  The type invariants of `Dashboard` and `Stores`
are left to `ConsoleTypes` and `StoresTypes`, which prove them for every instance.

## 6. What is not modelled

* Boot and shutdown of the process beyond what the stores do then: the sweep of
  containers and the time budgets of the shutdown (`main.go`) cut every goroutine
  of `SessionManager` at any step, which multiplies a state space that is at its
  limit; the models have no clock.
* Authentication and the rate limit: they refuse requests before a handler begins.
* Adapters, policy, logger, short ids: constants or formatting.
* `pty/stream.go`: nothing constructs it.
* The resource bars, which poll numbers nothing else uses (they keep those of the session
  before until the next read); quick launch, which types a command into
  the terminal; navigation bar, providers, types.
* `components/ui`: generated from shadcn/ui.
* Docker itself, beyond what the manager can see of it; the file system beyond
  the atomicity of a rename.

## 7. Plan

Done: `Sandbox` and `SessionManager`; `RingBuffer`, `Intercepter`, `Broadcaster`;
`Terminal`; `Api` with the two pages and `Dashboard`; `DurableMap`, `AgentStore`,
`SessionLog` and the pages that use them; `WorkspaceSessions` and its two
implementations; the proofs of all invariants.  Left, the most important first:

1. The boot sweep and the budgets of the shutdown, composed with `Sandbox`: a crash
   of the manager between any two calls, and what the next process finds.
2. The container in the promise of `WorkspaceSessions`: which image a session is opened
   on.  `ResumeSeesWork` says why that promise is weaker than the documentation.
3. The resource bars.
