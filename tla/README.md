# A formal model of the terminals and background processes of the desktop app

The repository is a desktop code editor for agents (Electron, TypeScript
monorepo).  Its terminals live in a background daemon that outlives the
application, `apps/desktop/src/main/terminal-host`; the application connects to
the daemon, makes git worktrees for its workspaces, runs a service process per
organization and watches the files of its workspaces.  This directory holds TLA+
modules of these parts, TLC configurations that check them on small instances,
and TLAPS proofs.  Paths below are relative to the repository; `main/` and
`lib/` stand for `apps/desktop/src/main/` and `apps/desktop/src/lib/`.

## Inventory

| Component | Source | State it keeps | Operations | What is hard |
|---|---|---|---|---|
| TerminalHost | `main/terminal-host/terminal-host.ts` | sessions by id, pending attaches by id, spawn semaphore (count, queue), kill timers, cleanup timers | createOrAttach, cancelCreateOrAttach, kill, killAll, detach, socket close, dispose, exit of a session, timers; write/resize/signal/clearScrollback/listSessions (read only) | three awaits in createOrAttach, aborts at each, everything looked up by id |
| Session | `main/terminal-host/session.ts` | subprocess, ready promise, pid, exit code, clients with attach tokens; stdin queue, pre-ready queue, marker scanner; emulator queue, snapshot boundaries, paused stdout | spawn, frames from the subprocess, attach, detach, write, resize, kill, dispose | exit racing with attach; two queues with backpressure; snapshot against live stream |
| PtySubprocess | `main/terminal-host/pty-subprocess.ts`, `pty-subprocess-ipc.ts` | PTY, input queue with retry, output batch, kill escalation | one per frame type, PTY data and exit, stdin end | dispose with a write in flight, timers of escalation, partial frames |
| DaemonServer | `main/terminal-host/index.ts`, `signal-handlers.ts` | control and stream socket per client, auth, server socket, pid file | hello, one handler per request, disconnect, start, stop | replaced sockets, two daemons at once |
| TerminalHostClient | `main/lib/terminal-host/client.ts` | connection state, pending requests with time-outs, spawn lock | connect, request, disconnect, spawn daemon | late answers, disconnect notified once, lock file |
| DaemonTerminalManager | `main/lib/terminal/daemon/` | sessions, pending creates, attach scheduler (`PrioritySemaphore`), history writers | createOrAttach, kill, detach, data and exit events, reset | reset with holders alive, events for replaced sessions, history writer closed during init |
| WorkspaceInitManager | `main/lib/workspace-init-manager.ts` with `lib/trpc/routers/workspaces` | jobs, cancellations, done promises, per-project lock | start, progress, cancel, finalize, clear, wait, lock | delete racing with init, 30 s time-out, a removal that fails half-way |
| HostServiceManager | `main/lib/host-service-manager.ts` | process per organization, pending starts, restart delay | start, stop, exit, ready message, start-up time-out, restart | stop or start during an await, restart of a replaced instance |
| WorkspaceFs | `packages/workspace-fs/src/watch.ts`, `search.ts`, `host/service.ts` | native watcher per path with its listeners, pending events and debounce timer; queue of each stream; index cache, builds under way, versions | subscribe, cleanup, native reports and errors, flush, rename pairing, index build, patch, invalidate, expiry; next and return of a stream | a subscriber during the creation or the end of a watcher, a watcher that does not end, batches that overtake each other, an index built while files change |
| the rest | renderer, `packages/*`, the other `apps/*` | user interface, database schemas, routers over a database | | not concurrency of this code |

How they interact.  The renderer asks DaemonTerminalManager for a terminal;
that queues in its own attach scheduler and sends `createOrAttach` over the
client's control socket.  The daemon runs the request against TerminalHost,
which creates a Session; the Session starts a PtySubprocess (its own operating
system process, framed pipes) and broadcasts data and exit events to the stream
sockets attached to it.  TerminalHost is told of exits by a callback and of
closed sockets by the server.  Daemons meet in the file system: the socket path,
the pid file and the lock of the app that starts one.  WorkspaceFs has one
manager of watchers per process; its listeners are the streams of the user
interface and the index of file search.

What makes each correct:

* TerminalHost: one session per id, never overwritten, never lost while alive;
  one call in flight per id that counts; the spawn slots conserved and no
  waiter forgotten; a killed session goes away; dead sessions leave.
* Session: input arrives once and in order; a client sees every chunk in its
  snapshot or its stream; reading is paused only while somebody is behind.
* PtySubprocess: input order, Exit after the last Data, the process ends.
* DaemonServer, client: at most one daemon; each disconnect reported once; each
  request answered, timed out or failed once.
* DaemonTerminalManager: attach slots conserved; history files closed.
* WorkspaceInitManager: one git operation per project; deletion waits or is
  seen; waiters are released on every exit path.
* HostServiceManager: one live process per organization; a stopped one stays
  stopped.
* WorkspaceFs: one native watcher per path while anybody watches; a reader gets
  every batch once and in order; what listeners and the index know comes to be
  what is on disk.

`PROJECT.json` lists these components and every hazard of the code at its line.

## Modules

| Module | What it is |
|---|---|
| `SessionRegistry` | what the daemon promises about the table of sessions |
| `TerminalHost` | the manager with the life cycle of its sessions; implements `SessionRegistry` |
| `TerminalHostProofs` | types, owners of ids, the semaphore: its queue, its count, no lost wake-up; the session table, refinement of `SessionRegistry`; attachments and dying sessions |
| `ShellReady` | one session's readiness gate: marker scanner, held writes, time-out |
| `SessionInput` | one session's stdin queue and the stream behind it |
| `SessionOutput` | one session's emulator queue, attaches with their snapshots, slow clients and paused reads |
| `SessionOutputProofs` | backlog and backpressure agree; an attach misses nothing |
| `PtySubprocess` | the process that owns one PTY: input queue, output batches, kill and end |
| `SessionProofs` | all three on the way of what is typed: the gate and the queue pass it on exactly, and so does that process, in both directions |
| `TerminalHostClient` | the app's connection to the daemon: two sockets made by overlapping attempts |
| `TerminalHostClientProofs` | while it is connecting somebody is at work; a ready stream is heard |
| `PrioritySemaphore` | the attach scheduler's semaphore, as operators on its state |
| `DaemonManager` | the app's terminals: createOrAttach through that semaphore, session table, histories |
| `DaemonManagerProofs` | slots and the order of the queue, the one call of a pane that counts, its entries |
| `WorkspaceInit` | worktrees made, retried and deleted under the project's lock |
| `WorkspaceInitProofs` | the project's lock; a deletion leaves no worktree; progress is true |
| `HostServiceManager` | one organization's service process: start, restart, stop |
| `DaemonStart` | daemons and calls that start them: socket path, pid file, spawn lock, start and stop |
| `DaemonServer` | one daemon's connections: hello, replaced sockets, late close events |
| `DaemonProofs` | both: types, the spawn lock, a daemon that serves is reached; the table of clients and the sockets agree |
| `FsWatcher` | shared native watchers, and the streams of those who watch |
| `HostServiceProofs` | `HostServiceManager` and, in the service it starts, `FsWatcher` and `FsEvents`: no process is lost; readers get every batch in order, a watcher is shared; what is told leads to the files that are there, for listeners and for the index |
| `FsEvents` | from a native report to the listeners and the search index; the index's builds |
| `MC...` | for TLC: symmetry, constraints, a marker of three characters |

`MCSession`, `MCDaemon` and `MCFs` hold several machines that share no variable: the
three parts of what is typed; the daemon's processes, its connections and the app's
end of one; a watcher with its streams and what is in a batch.  A variable `part`,
chosen in the initial state, says which of them moves; the others stay in their
initial states, in which they owe no step, so the fairness of each asks for nothing
then (in `FsEvents`, where a search is always owed, the fairness names the part).
The states are those of the machines one by one, and not of their product, which
would say nothing more.  In `MCSessionOutput` there is one machine, and `part` is one
of two ways of bounding it: many clients and little output, or more output and one
client that stays.

The three parts of a session are separate modules because they share no field:
the gate hands writes to the stdin queue and output to the output path and
reads neither, so each is checked against every input the others can produce.
`TerminalHost` has the session's life cycle, and closes sockets, disposes and
reports exits at any time, as these modules allow.  In the same way
`PtySubprocess` is checked against every sequence of frames, and
`DaemonManager` and `TerminalHostClient` against a daemon that answers, fails,
closes and reports exits whenever it likes.

### TerminalHost: how state and actions correspond to the code

A `createOrAttach` call is an element of `Reqs`; `pc` names the await at which
it is suspended (`queued` in `Semaphore.acquire`, `acquired` when the slot was
granted and the continuation has not run, `spawning` in
`promiseWithTimeout(waitForReady())`, `attaching` in `Session.attach`).  A call
creates at most one `Session`, so `sess[r]` holds the fields of the session
that call `r` created.  `target[r]` is the local variable `session` of the call
once it attaches.  `clients[s][k]` is the entry of socket `k` in
`attachedClients`; its value, the call that made it, plays the role of the
`attachToken` symbol.  `pending`, `sessions` and `killTimers` are the maps of
the class; `inUse` and `waiters` the fields of its semaphore; `cleanups` the
timers of `scheduleSessionCleanup`, one per session whose exit was handled.
`child` and `open` are the environment: the subprocess, which may report
Spawned, report Exit, and end whenever it likes, and the stream sockets.

| Action | Code |
|---|---|
| `AttachExisting`, `SpawnNew` | `createOrAttach` up to its first await, with the abort of the superseded call |
| `SpawnStart`, `SpawnThrows` | after `acquire()`: create, `onExit`, `spawn`, or the slot is given back |
| `SpawnReady`, `SpawnTimeout` | after the PTY wait: release, abort check, alive check, registration, `attach` up to its await; the catch and finally blocks on the failing paths |
| `AttachAborted`, `AttachDone` | the two ways out of `Session.attach`, with catch and finally |
| `CancelCreateOrAttach`, `Kill`, `KillAll`, `Detach` | the requests |
| `SocketClose` | `detachFromAllSessions` |
| `HostDispose` | `dispose()` of the manager |
| `KillTimeout`, `CleanupTimeout` | the timers |
| `ChildSpawned`, `ChildExitFrame`, `ChildGone` | Spawned and Exit frames, exit and error events, with `handleSessionExit` |

Choices a reader should know:

* **Turns.**  The daemon is one JavaScript thread.  A handler runs to its next
  await in one step.  Continuations of settled promises run before the next
  timer or I/O event: `Quiet` guards those.  Requests are not guarded by it,
  because several requests that arrive in one chunk are handled in one turn
  before any continuation.
* **Request ids** are unique per call, as the client makes them.  A retry with
  the id of a call in flight, which the code would not abort, is not modelled.
* **Unreachable branch.**  `release()` has a branch for an aborted head of the
  queue; `WaitersAreQueued`, which is proved, shows that it cannot happen, so
  `ReleaseSlot` has no such case.  `HostDispose` empties the queue for the same
  reason.
* **write, resize, signal, clearScrollback, listSessions** change nothing that
  the model keeps.
* **Session.dispose** signals processes and returns a promise nobody but
  `TerminalHost.dispose` awaits; the process's end is `ChildGone`.
* The wrong variants in the section "Steps shared by the handlers" are used by
  no action.  Each is a plausible slip, and substituting it for the operator
  it varies makes TLC refute the property named in `PROJECT.json`.

### ShellReady, SessionInput, SessionOutput

| Module | Actions | Code (`session.ts`) |
|---|---|---|
| `ShellReady` | `Spawn`, `ReadyFrame`, `DataFrame`, `ShellReadyTimeout` | `spawn`, the Ready and Data frames with the marker scan (`Scan`, a fold over the frame), `resolveShellReady` |
| | `Write`, `EmulatorReplies` | `write` with its triage, the emulator's answers while no client is attached |
| | `SubprocessExit`, `Dispose` | `handleSubprocessExit` (opens the gate, then resets), `dispose` |
| `SessionInput` | `SendFrame` | `sendFrameToSubprocess` with the flush it ends in |
| | `Drain` | the drain listener with its flush |
| | `Deliver` | Node's stream hands a buffer to the pipe (external) |
| | `Down` | `resetProcessState` |
| `SessionOutput` | `DataFrame` | `enqueueEmulatorWrite` and `broadcastEvent` with `handleClientBackpressure` and the detach of failing sockets |
| | `EmulatorSlice`, `EmulatorSliceDisposed` | `processEmulatorWriteQueue` |
| | `Attach`, `AttachFlushTimeout`, `AttachDone`, `AttachAborted` | `attach` with `flushToSnapshotBoundary` and the emulator's flush |
| | `Detach`, `SocketDrain`, `SocketClose` | `detach`, `clearBackpressure` |
| | `SubprocessExit`, `Dispose` | `resetProcessState` with and without the rest of `dispose` |

* **Streams.**  Sockets and the subprocess's stdin are Node Writables, taken
  from their contract: `write` takes the buffer always, returns false when what
  is held reaches the high-water mark, and owes one `drain` event then.  A
  socket that has closed returns false and emits nothing more.
* **Closed sockets.**  `Attach` does not ask whether its socket is open, as the code
  does not: the request may have waited for the PTY, and the close event has passed.
  Such a client is put into `attached`; if the first write to it is refused it is
  waited for (`slow`) and no event takes it out.  What holds of the pause is thus
  `OutputSettles` (only such a socket holds output back for good), and what does
  not is `OutputResumes` (the run `held`).
* **Units.**  In `SessionOutput` a chunk stands for the `MAX_CHUNK_CHARS`
  characters that one emulator write takes at most; an item is the text of a
  Data frame, one or more chunks.  Buffers of `SessionInput` have sizes in
  bytes; their contents are their frame and part.
* **Histories** (`passed`, `accepted`, `gateSent`, `shown`, `seen`, `snapshot`,
  ...) are read by no guard but that of their bound.  `passed` is what was written
  to the stream, which hands it on in that order; it leaves immediate repetitions
  out: the code may repeat a buffer for ever (below), and the history must stay
  finite.
* **The time budget** of a slice is a choice of how many chunks it takes, at
  least one.

### PtySubprocess

`pty` and `fd` are `ptyProcess` and `ptyFd`; `flushes` counts armed callbacks of
`setImmediate` and the retry timer, `inflight` is the buffer of a pending
`fs.write`, `inChunk` says that the data handler of stdin is not done with its
frames; `owesDrain` is stdout after a `write` that returned false.

| Action | Code (`pty-subprocess.ts`) |
|---|---|
| `HandleSpawn`, `HandleWrite`, `HandleKill`, `ChunkEnds` | the frame handlers, called for each frame of a chunk |
| `Flush`, `FlushSync`, `WriteDone`, `WriteWouldBlock`, `WriteFailed` | `flush` up to `fs.write`, without an fd, and the branches of the callback: a part or all of the buffer, EAGAIN, an error |
| `PtyData`, `FlushTimer`, `StdoutDrain` | `queueOutput` with its two limits, `flushOutput`, the pause and resume of the PTY |
| `StdinEnd` | `handleDispose` (a Session cannot send the Dispose frame: its own `disposed` flag refuses it) |
| `ShellExit`, `ProcessExit`, `Escalate`, `ForceExit` | `onExit`, `process.exit` from a timer or tree-kill's callback, the two timers of `handleKill` |

Left out: resize and signal frames, which pass through; the frame decoder.

### TerminalHostClient

A call of `ensureConnected` or `tryConnectAndAuthenticate` is an element of
`Connects` or `Probes`; `pc` names what it awaits.  Sockets are numbered as they
are made.  `Respawned`, `Mismatch` and `StepFails` are the paths of the catch
blocks; `SocketClosed` is the close handler with `handleDisconnect`, which the
event loop runs some time after the peer has closed (`DaemonCloses`, external).  A
`pending` request is rejected by a reset and the call fails with it; a call that
awaits a `connect`
goes on, with sockets that a reset has destroyed meanwhile or not.

Left out: requests on a connection that is made and the notify queue, calls
that only wait for another's attempt, `shutdownIfRunning`'s own connection, the
rebuild of the daemon in development, the lock file of spawning.

### DaemonManager and PrioritySemaphore

`limiter` is the semaphore, `pc` the await of each `createOrAttach`: a slot,
`probing` (the daemon's list of sessions), `reading` and `cleaning` (history
files), `requested` (the daemon's answer), `failing` (a rejection that has not
been handled).  `req` holds the parameters the code looks at: the pane, whether
the call may share another's promise, whether it skips the cold restore.
`timers` tells armed cleanup timers from the one the map knows, `inits` are
history writers between `new` and `init()`.

| Action | Code (`daemon-manager.ts`) |
|---|---|
| `Refused`, `Join`, `Start` | `createOrAttach` up to its first await, with the abort of the superseded call |
| `Granted`, `ProbeDone`, `ReadRestored`, `FilesDone`, `Answer`, `RequestFails` | `doCreateOrAttach` and `attemptColdRestore`, await by await, each with the finally blocks |
| `Cancel`, `Kill`, `ForceKillAll`, `ForceClosed`, `ForceKilled`, `ForceKillFails`, `Reset`, `AckColdRestore` | the other operations, the two awaits of `forceKillAll` apart |
| `ExitEvent`, `SessionLost`, `CleanupTimeout`, `HistoryInit` | events of the daemon, timers, the end of a writer's init |

Left out: what the writers write, and that one is replaced when the scrollback
is cleared; ports; `cleanup` when the app quits; detach, write, resize and
signal, which pass through.

### DaemonStart and DaemonServer

Daemons are numbered as they are started; `proc` says where in `startServer` or
`stopServer` each is, and `sock` and `pidFile` name the daemon that has made the
file.  `call` is what a call of `spawnDaemon` awaits.  Calls of one app
interleave at their awaits only; daemons are processes of their own, so each
access of a daemon to the socket path is a step.

| Action | Code |
|---|---|
| `SpawnDaemon`, `RemoveStale`, `WaitEnds`, `LockExpires` | `client.ts`, `spawnDaemon`: the probe of the path, its removal, the lock and the process, the wait; a lock that another app has left expires |
| `LookAtPath`, `AnotherRuns`, `UnlinkStale`, `Bind`, `Serve` | `index.ts`, `startServer`: the probe and its three outcomes, `listen` and its callback |
| `ClientConnects`, `ClientLeaves` | a connection that keeps `server.close()` waiting |
| `ShutdownOnce`, `ShutdownRequest` | `signal-handlers.ts` (signals and fatal errors, with the timer that forces the exit), the `shutdown` request (without one) |
| `CloseServer`, `ServerClosed`, `RemoveFiles`, `ForceExit`, `Crash` | `stopServer` and its callbacks; the ends of the process |

`DaemonServer`: `HandleConnection`, `Hello` (with the destruction of the socket
that had the role), `HandleDisconnect` (the close event, with the check that the
entry is still this socket's), `WriteFails` (`broadcastEventToAllStreamSockets`),
`PeerCloses` (external).  What a hello and a close do to attachments is
`TerminalHost`'s `SocketClose`.

Left out: the token file, the count of transient errors within a window, a spawn
lock that ages while its holder sleeps (a suspended computer), hellos that are
refused, requests that only pass a call on.

### FsWatcher and FsEvents

`FsWatcher` is about one path.  `watchers` is its entry in the manager's map,
`native` the state of each native subscription, `listeners` who is told by it.
`step` is the await of each stream, `queue` and `waiters` are those of
`createAsyncQueue`.

| Action | Code |
|---|---|
| `Subscribe`, `Subscribed`, `SubscribeFails` | `watch.ts`, `subscribe` with `createWatcher`; `host/service.ts`, what follows its promise, with the cleanup of a stream that was closed meanwhile |
| `Close`, `Unsubscribed` | `return()` of a stream, with `close` and the function that `subscribe` returned |
| `UnsubscribeFails` | the same when `unsubscribe()` is rejected: the entry stays in the map without listeners (349 is skipped), the watcher runs on or not, and `close` throws before it answers the calls of `next()` that wait |
| `Emit`, `Read` | `emit` and `push`; `next()` |

`FsEvents` is about what is in a batch.  `Coalesced` is `coalesceWatchEvents`, and
`Known` its map, a fold over the reports; `Pairs` and `Reconciled` are
`pairRenameCandidates` and `reconcileRenameEvents`; `Apply` is what an index
(`applySearchPatchEvent`) and a listener make of events.  `flights` are batches whose
`stat()` calls are awaited; the code awaits them without any order among batches, and
so does `Land`.  The history `mishaps`, which no guard reads, notes what events do not
make good: reports that the native watcher has lost, a batch that was published before
an older one, and changes that were made or still to be told during a build.

| Action | Code |
|---|---|
| `Change`, `Deliver`, `WatcherError` | a file changes (external); the native callback with reports, or with an error |
| `Flush`, `Land` | `flushPendingEvents` up to its await, and the rest, with `patchSearchIndexesForRoot` |
| `Search`, `Scan`, `Finish`, `Age` | `search.ts`, `getSearchIndex` and `buildSearchIndex`: a build begins, fast-glob looks at one path after another, the build ends and is kept if its version is still the current one; 30 s pass |

Left out: directories, ignored and hidden paths, the ranking of matches, reading
and writing of files, and `close` of the manager, which runs when the process
ends.

### WorkspaceInit

`job`, `cancellations`, `done`, `resolved`, `lock` and `queue` are the maps of
`WorkspaceInitManager`, with the lock's waiters in the order in which their
promises resolve; `row` and `path` are the database's, which a restart of the
app keeps; `disk` are the worktrees that git has made.

| Action | Code |
|---|---|
| `Create`, `Starting`, `StartingFails` | `procedures/create.ts`: row, await of the branch's config, job |
| `Retry`, `Listed` | `procedures/init.ts`, with the await of the branch list when the name is deduplicated, which may give the worktree another path |
| `InitLocked`, `InitPrepared`, `InitCreated`, `InitCleanedUp`, `InitUndone`, `InitRenamed` | `utils/workspace-init.ts`, between its awaits, with `Catch` and `Finish` for its catch and finally blocks |
| `Delete`, `InitAwaited`, `WaitTimeout`, `TornDown`, `TeardownFails`, `NothingToRemove`, `Removed`, `BranchDeleted` | `procedures/delete.ts`: cancel and wait for 30 s, kill terminals and tear down, lock, remove, delete rows |
| `RemovalFails` | `removeWorktree` (`git.ts:728-781`) fails before it has renamed the worktree away, or after that; `delete.ts:305` restores the row |
| `RemovalThrows` | `listExternalWorktrees` throws (`delete.ts:271`): the lock is released and the row stays "deleting" |
| `ReadyExpires` | the timer that drops a finished job |
| `Restart` | the app ends; a git command in flight has had its effect or not |

The awaits of a new branch's preparation are one, `preparing`: between them the code
only looks at the cancellation, and every outcome of one of them is an outcome of the
step.  The other awaits of a deletion do not throw: `killByWorkspaceId` collects what
its kills come to, and `runTeardown` returns its failure.  The history `lost` has the
worktrees that removals which failed had moved away.  Left out: `close`, which keeps
the worktree, and `deleteWorktree`, which removes a worktree without a workspace.

### HostServiceManager

One organization.  An attempt is one call of `spawn`: its instance, its pending
start and its child.  `Start` joins a pending start or spawns; `Spawned` and
`SpawnThrows` follow the await of the environment; `Ready`, `StartupTimeout`
and `ChildExit` are the handlers of the child, `RestartTimer` the timer of
`scheduleRestart`, `Stop` is `stop`, with `cancelPendingStart`.  The lengths of
the delays are left out.

## Runs

| Run | Instance | Shows |
|---|---|---|
| `calls` | 3 calls, 2 ids, 1 socket, 1 slot | types; `SpawnSlots`: slots conserved, no lost wake-up, the queue holds exactly the suspended calls; `Ownership`: one owner per id, a creator still finds its id free, the table leads to no disposed or foreign session; refinement of `SessionRegistry` |
| `sessions` | 2 calls, 1 id, 2 sockets, 1 slot, fair | `SessionsLookedAfter`: attachments have an owner, a dead session has a cleanup timer; `AttachmentsRespected`: attaches only to attachable sessions, an aborted attach keeps a later one; `HostSettles`: every call settles, dead sessions without clients leave |
| `orphan` | 2 calls, 1 id, 1 socket | a statement of the code that it does not keep (below) |
| `session` | `ShellReady`: 5 characters in frames of up to 3, marker of 3, 2 writes; `SessionInput`: 5 frames of 1 and 4 bytes, limit 8, high-water mark 4; `PtySubprocess`: 3 bytes of input in frames of 1 and 2 with 1 byte of output, or 1 with 2, 1 Kill, water marks 1 and 2, limit 2, batches of 2; fair | `GateExact`: nothing is typed into a starting shell, writes keep their order across the opening, output comes out exactly, less one marker, the timer is armed iff the gate is shut; `GateOpens`: whatever the shell prints. `QueueSound`: the byte counter, a backlog has its drain event, buffers go out in order, none skipped; `InputDrains`. `InputSound`: the PTY gets what was typed in its order, exactly one write or flush is on its way while there is a backlog; `OutputThenExit`: Exit follows the last Data, and the shell is kept while the process runs; `ProcessEnds`: after a Kill without `onExit`, and after the end of the daemon |
| `output` | 2 calls, 2 sockets, 1 item of up to 2 chunks; 1 call, 1 socket, 2 such items; HighWater 2, LowWater 0; fair | `FlowSound`: the byte counter, queued work is scheduled, the subprocess is paused iff somebody is behind, only attached sockets are; `AttachIsExact`: an attached client misses no output, an abort keeps a later attachment; `OutputSettles`: the subprocess is resumed, unless a socket that was attached after it closed holds it, and an attach settles without its time-out |
| `held` | 1 call, 1 socket, 1 chunk, fair | a statement of the documentation that the code does not keep (below) |
| `workspace_init` | 2 workspaces, 2 inits, 2 deletes; 1 workspace with 1 restart, or 1 removal that fails half-way; fair | `OneHolder`: git commands of a project exclude each other and the lock is never left behind; `DeletedLeavesNoWorktree`; `ProgressIsTrue`: a busy job has somebody who works on it, a ready workspace has its worktree (unless a failed removal took it); `DeletesSettle`: every deletion ends |
| `host_service` | 2 callers, 4 attempts, 2 stops, fair | `NoProcessIsLost`: a process that was not told to end is the organization's, wanted, and served or limited in time; `TimersSound`: what waits for a timer has one; `StartsSettle` |
| `manager` | 3 calls, 2 panes, 1 or 2 slots, 2 upsets | `SlotsCounted`: slots, priorities, no one waits beside a free slot; `PanesSound`: pending calls and kept restores are those that count, an exited entry has its timer, an ended session's history is closed; `OnlyCurrentRegisters`: only the call that counts leaves something behind |
| `silent` | 1 probe made again, 2 sockets | a statement of the code that it does not keep (below) |
| `daemon` | `DaemonStart`: 2 callers, 3 daemons of which one has left its files, 2 ends by signal, request or crash, fair; `DaemonServer`: 2 clients, 4 sockets, 1 failing write; `TerminalHostClient`: 2 connecting calls, 1 probe, 3 sockets, 1 disconnect, fair | `OneSpawner`: overlapping calls start one daemon at a time, and the lock is held exactly then; `NoOrphan`: the daemon that serves is the one the path leads to; `DaemonsSettle`: starting and stopping end. `PairsSound`: an entry leads to a socket of its client, and every open socket that said hello has one. `ConnectionSound`: while it is connecting somebody is at work, a ready connection's stream is heard; `ConnectingEnds` |
| `fs` | `FsWatcher`: 2 streams, 2 watchers, 3 batches, 2 waiting reads, fair; `FsEvents` three times: 3 paths, 3 reports and batches, the batches in their order; 2 paths, 2 reports, 1 batch, 2 builds and lost reports; 1 path, 2 reports and batches and 2 builds at once, whatever happens, fair | `ReadsInOrder`: a reader gets each batch once, in order; `WatcherShared`: one native watcher, as long as somebody watches and no longer, but for one that could not be ended; `ReadersEnd`: a closed stream answers its readers, unless that failed. `ViewIsExact`: coalescing and renames tell of each path once and leave the listener with what is there; `IndexIsExact`: the index likewise; `IndexRecovers`: it becomes right whatever happened during its builds |

Bounds.  Three calls are a holder, a waiter and a call that supersedes either;
with one slot two of them queue, so an abort takes a waiter out of the middle
of the queue's life, and two ids let calls of different owners wait together.
`MaxSpawns` is 3 in the code; one slot makes contention happen with few calls,
and the theorems hold for every value.  The `calls` run is constrained to
behaviours that leave the sockets open and end few sessions (`CallsOnly`); the
other endings meet two calls in `sessions`, and the theorems about the calls
have no such limit.  For the attachments two
calls suffice for every pair of an old and a new session or attachment of one
socket; two sockets tell "the last client" from "a client".  No counter needs a
cut: each call is made once, which bounds every behaviour.  Calls, sockets and
ids are interchangeable; the `calls` run, which checks safety only, uses
symmetry, and so does `manager`.  Deadlock is not checked in any run: when all calls,
writes and output up to the bounds have been made, the program may stay idle.

`session`: five characters hold a marker with one before and one after it, a
broken marker followed by the beginning of another, and every division into
frames, so the scanner's state crosses frames at each position; the marker's
length only adds positions like the middle one, and of two writes each may come
before the opening, at it, or after it.  In the stdin queue header and payload
are of different size, and two frames fill the limit, so every boundary between
a queued header and a written one, a dropped and an accepted frame occurs.  In
the subprocess the second of two frames is refused or pauses stdin, a write
takes the half of a buffer while another frame is queued behind it, and a batch
is sent by its size or by its timer; all of the input meets one byte of output,
which may find stdout full, and all of the output one byte of input (`Traffic`).
`output`: with two clients, an attach may supersede another of its socket or be of a
socket that is gone, and an item of two chunks fills the queue, so the emulator and
either socket pause the subprocess in every order; with one client, a slice may end
inside an item, and an item comes before, during and after the wait for a boundary.
`workspace_init`: two calls of each sort are all pairs of an attempt and a
retry, a first and a second deletion, and two workspaces that compete for the
lock; calls are made in the order of their names (`InOrder`, which leaves out
renamings only); a restart, or a removal that fails half-way, is looked at with one
workspace, and not both of them (`Focus`).
`host_service`: four attempts are two starts with a restart after each.
`manager`: three calls compete for one slot across panes with one upset, or are
made of one pane with two slots and two upsets (`Focus`); an upset is an exit, a
kill, an error, a force kill or a reset.  `daemon`: the daemon that
left its files, one that stops and one that starts meet at every access to the
path; two ends are a signal beside a request, or a second request; with four
sockets a client replaces one twice, or both of its own, while another is there, and
a write fails in behaviours of one client (`Narrow`); of the app's connection, two
attempts, each with its second try, and three sockets let a reset take away the
sockets of another's attempt, and a fourth would only continue one of these.
`fs`: a stream joins, makes or outlives the watcher of another, one that does not
end included, and two watchers follow each other; three paths in two directories with two base names
allow a rename in place, a move, and a choice between them, and three reports an
event of each, or a path that is created, deleted and created; with one path,
two batches and two builds pass each other in every order.

Fairness.  `sessions`: weak fairness of the continuations (`SpawnStart`,
`SpawnReady`, `AttachAborted`: the event loop runs every queued microtask), of
the timers that end a wait (`SpawnTimeout` after 5 s, `AttachDone` after the
flush time-out, `KillTimeout`, `CleanupTimeout`).  Nothing is assumed of
clients, sockets or subprocesses: a subprocess may hang for ever.
`session`: of the gate, that the armed timer fires, and nothing of the shell; of
the stdin queue, that the subprocess reads and Node emits the drain event it
owes; of the subprocess, that callbacks and timers run, the daemon reads, and
(strong fairness) that a write to the PTY that is tried again and again is taken
one day, and nothing of `onExit`.
`output` and `held`: the event loop runs `setImmediate`, xterm.js parses what it is
given and resolves the flush, a full client reads on or disconnects; nothing is
assumed of the flush time-out.
`workspace_init`: git commands and scripts end, in success or failure, and
timers fire; nothing is assumed about new calls.
`host_service`: the environment resolves or not, timers fire, a child that was
sent SIGTERM exits; a child may be silent or run for ever.
`daemon`: continuations and timers run; clients stay as long as they like.  Of the
app's connection, every await has its time-out, but for the shutdown of an old daemon,
of which nothing is assumed, and the close event of a closed socket comes.
`fs`: the native watcher answers each call in the end, with success or failure;
`stat`, fast-glob and timers come, and somebody searches now and then.
`IndexRecovers` asks only for behaviours in which files change no more one day.

### Where the code departs from its own words

`orphan`: the catch block of a canceled creator deletes the table entry of
its id even when the superseding call has registered its own session there
(`terminal-host.ts:188-197`).  The live session is then unlisted, cannot be
written to or killed, and a later `createOrAttach` starts a second one.

`held`: a stream socket that closes during the PTY wait is attached afterwards
(`terminal-host.ts:177`, against 341).  The write that it refuses makes the session wait
for its drain (`session.ts:1113`), which no event ends: the subprocess stays paused, for
the other clients of the session too.  Nothing detaches the socket, and the cleanup of
the session, once dead, is rescheduled for ever.

`silent`: `handleDisconnect` does nothing while `disconnectArmed` is set
(`client.ts:708`), which only `ensureConnected` clears (247, 255).  Two probes
(`tryConnectAndAuthenticate`, 270-301) whose connections break one after the other
leave the client with a socket that has closed and an authentication that holds; from
then on every probe says that it is connected.  `disconnect` sets the flag in the
same way (1589).

Seen while modelling, and not given runs of their own; the properties are
stated so that they hold beside these, and the comments in the modules say how.

Daemon (`main/terminal-host`):

* `handleSessionExit` clears the kill timer of an id when a disposed
  predecessor of the session exits (`terminal-host.ts:398`, comment at 264), and
  announces it as the exit of the id's current, live session (400).
* After a mismatch the scanner does not ask whether the mismatching character
  begins the marker (`session.ts:392`); a marker right after a stray escape is
  shown instead of recognised, and the gate waits for its time-out.
* A buffer whose `write` returned false was taken by the stream but stays at the
  head of the queue and is written again (`session.ts:484`).  One that alone
  reaches the high-water mark is written at every drain, for ever, which is why
  `session` keeps buffers below it.
* `Session.pid` is never reset to null, against its comment (`session.ts:761`).
* When the subprocess goes away, queued output is thrown away and waiting
  attaches go on as if it had been flushed (`session.ts:1029`); `NothingMissed`
  therefore excludes sessions whose queue was `dropped`.
* Output that arrives while an attach waits is in its snapshot and in its event
  stream, against the comment at `session.ts:710`; `NothingMissed` asks for one
  of the two, not for exactly one.
* A write to the PTY that fails drops the queue without resuming a paused stdin
  (`pty-subprocess.ts:199`), and the end of the daemon is then not noticed; the
  liveness property excludes `failed`.
* A stopping daemon unlinks the socket and pid file that a newer one may have
  made (`index.ts:802`), and so does one that is told to stop while it still
  probes the path of a daemon that serves; two starters, or two calls of
  `spawnDaemon`, that find a stale socket may both remove it (703, and
  `client.ts`), the second one a socket that is in use.  `NoOrphan` therefore
  speaks of retries of one call while no daemon is made to end (`Alone`).
* The `shutdown` request arms no timer: a client that stays connected keeps a
  daemon without a path alive; `DaemonsSettle` promises an end after signals.
* Hazards that no property covers: the exit event of the subprocess may be read
  before the last frames of its stdout (`session.ts:296`); a pid that is kept
  after the exit may be another process's (764).

Client (`main/lib/terminal-host/client.ts`):

* The late failure of an attempt resets the connection that another has made
  meanwhile, without an event (259); the reset at a protocol mismatch says
  "disconnected" while the attempt goes on (411).
* The spawn lock is a file that is looked at, removed when it is stale, and written in
  separate calls (1054-1080), so several application processes may all take it.
  `DaemonStart` has the calls of one process, for which these are one turn.
* `setupStreamSocketHandlers` may be called twice for one socket (431), after
  which every event is handled twice.

DaemonManager (`main/lib/terminal/daemon`):

* `reset` sets the semaphore to zero under live holders, which then admit too
  many; `SlotsCounted` asks for equality only without a reset.
* A writer that is still initialising when its session ends is registered
  afterwards and stays open (`history-manager.ts:62`, the history `late`).
* A kill while the call that creates the session is pending finds nothing, and
  the answer registers the pane as alive (`daemon-manager.ts:503`); an exit
  event that overtakes the answer likewise.
* A second exit of a pane forgets the first cleanup timer (224), which then
  removes what came after; `forceKillAll` clears the timers before a request
  that may fail, and leaves exited entries without (974).
* A cold restore that a canceled call found is kept for the next (597).

Workspaces and services:

* `clearJob` drops the promise of an initialization in flight, so a deletion
  that comes next waits for nobody; a cancellation that a cleared job forgot is
  not seen by the initialization that goes on (`workspace-init-manager.ts:202`
  against the comment at 164; `create.ts:507` and `init.ts:90` await between
  check and `startJob`).  The history `overtaken` marks the workspaces whose job
  was started during or after a deletion.
* A retry that takes a new name leaves what the failed attempt left at the old
  path (`init.ts:99`, the history `moved`).
* A worktree whose `git config` failed after `git worktree add` is not marked as
  created, and a restart leaves a row that is being deleted as it is
  (`deletingAt`).
* `removeWorktree` renames the worktree away before it prunes git's list
  (`git.ts:739-781`).  When it fails after that, the row of the workspace is restored
  (`delete.ts:305`) and its job may be ready, but the worktree is gone: the history
  `lost`, which `ReadyHasWorktree` excepts.  When `listExternalWorktrees` throws
  (`delete.ts:271`) nothing restores the row, which stays "deleting", hidden from the
  user, until another deletion of it.
* `FsWatcher`: two streams that subscribe at the same time make a native watcher
  each, and the one that is replaced in the map is never ended (`watch.ts:326`;
  `plans/workspace-filesystem-migration.md:436` has one shared watcher); a stream
  that joins while the last one's `unsubscribe()` is awaited hears nothing, and a
  second cleanup deletes the entry of a newer watcher (349; the plan's lines 513
  and 518 have watchers shared by reference counting).  The history `overlapped`
  marks these, and `WatcherShared` excludes them.
* A native watcher whose `unsubscribe()` is rejected (`watch.ts:348`) stays in the map
  without listeners, and the next stream joins it, though it may report nothing any more;
  the `close` of the stream throws before it answers its waiting calls of `next()`
  (`service.ts:56`, before 58-63; its caller at 81-86 expects failures).  The history
  `failed` marks such watchers: `WatcherShared` allows one of them to be there without
  anybody watching, or to be silent, and `ReadersEnd` leaves such a stream out.
* `FsEvents`: with two batches in flight the later may be published first, so
  that a listener ends up with the older state; `mishaps` marks it (`overtaken`), and
  `ViewIsExact` and `IndexIsExact` exclude it.
  (Of ordering the repository's plans say both that it is kept and that it is
  not promised.)  A creation and a deletion that coalesce to nothing while a
  build scanned leave a dead entry in the index until it expires; a build that
  was superseded deletes the registration of a newer one; an overflow leaves
  pending events in place.  `IndexRecovers` says that all this passes.
* In `host-service-manager.ts` a restart whose environment fails gives up, the
  instance of a restart starts counting from zero, and a cancellation during the
  await of the environment rejects a promise nobody may be waiting for.

## Proofs

TLAPS proves, for all values of the constants under the assumptions of
`TerminalHost` (`None` is no call, socket or id; finitely many calls; at least
one slot):

* `TypeCorrect`, `OwnersCorrect`, `QueueCorrect` from the invariant `CallInv` =
  `TypeOK /\ WaitersAreQueued /\ OneOwner /\ IdleCalls`.  The parts need each
  other: that an abort takes a waiter out of the queue keeps aborted calls out
  of it, that each waiter owns its id lets `dispose` empty it, and calls that
  were never made (`IdleCalls`) must not be aborted or owners.  The steps fall
  into four shapes, one lemma each: a call enters, a call goes on or settles
  (perhaps handing its slot over), a call is canceled, everything is disposed.
* `SlotsCorrect`, `WakeupsCorrect` from `SlotInv` = `CallInv /\ SlotsConserved
  /\ NoLostWakeup`: the head of the queue is suspended, hence holds no slot,
  so a hand-over replaces one holder by another; while somebody waits the
  count is at its maximum, and stays there.
* `CreatorCorrect`, `MapCorrect` from `MapInv`, which adds that a call that has
  not registered its session (`Fresh`) has neither a disposed session nor a
  target.  Every step is a `Removal` (sessions only leave, and whoever is
  disposed has left) or the `Registration` of one call; a registration meets a
  free id because its call is the owner and the creator's check still holds.
* `SessionsLookedAfterCorrect`, `AttachmentsCorrect` from `HostInv` = `MapInv`
  with `AttachmentsHaveOwner`, `DeadSessionHasCleanup` and that a session which
  is not registered yet is not told to end.  Every step is, as far as sockets go, a
  `Detachment` (entries stay or go, and those of canceled calls go) or the one
  entry an attach makes; a session that dies is in the table, and is taken out by
  the step that saw it die or by the timer that this step armed.
* `RegistryImplemented`: with `spent` mapped to the sessions that are their
  creator's target, a `Removal` is `Remove`, a `Registration` is `Register`.
* `SpawnSlotsCorrect` and `OwnershipCorrect` put these together to the two
  properties that the run `calls` checks.

The other modules are proved about in the same way, each from an inductive
invariant of its own and the named assumptions in the module: calls of different
sorts differ; `None` is none of the things it stands for the absence of; bounds
are natural numbers, and so are the watermarks, of which the low one is the lower;
a semaphore has at least one slot.  Nothing bounds the calls, panes, sockets or
workspaces: where a count of them matters (the semaphore of `DaemonManager`) the
ones that are counted are proved to be finitely many.

* `FlowCorrect` and `AttachCorrect` (`SessionOutput`) from `FlowInv /\ QueueInv /\
  CallInv /\ PromiseInv`.  `QueueInv` numbers the queue: the last chunk of an item
  stands behind exactly as many ends of items as the item's number says, counted
  on from `processed`, and the first `processed` items are in the emulator.  So a
  waiter's target, a count, names the last item that was there when the call came,
  and when it is reached those items are in the emulator, however slices cut them.
  `PromiseInv` says what a waiting call will have: every item is at most its
  target or was sent to its socket; and at the end of the wait every item is in
  what `flush()` waits for or was sent.  A reset lets everybody go on, which is
  harmless when nothing was queued: then nobody waits (`WaitsForQueue`).
  `FlowInv` is about the pause only and needs nothing of this.
* `InputCorrect` and `OutputCorrect` (`PtySubprocess`) from `ProcInv /\ QueueTypes /\
  FlushInv /\ BytesInv /\ OutputInv /\ ExitInv`.  `BytesInv` speaks of `Whole`: what
  the PTY has followed by what it may still get, which is the queue, or the buffer
  of an `fs.write` whose queue a dispose has emptied.  It increases, and until a
  write fails it is all of the input that was not refused.  A partial write moves
  bytes within it, a Write frame extends it, a failure or a dispose cuts its end
  off.  For that the pending buffer must be the head of the queue (`FlushInv`), and
  no buffer of the queue may be empty.
  The batch and the data frames are what was printed (`OutputInv`); the Exit frame
  is sent when the batch is empty and the shell gone, or with the end of the
  process after a SIGKILL (`ExitInv`).  The lemmas before these say what
  `FlattenSeq` makes of a queue that grows at its end or loses its head.
* `GateCorrect` (`ShellReady`) from `GateInv`: the four parts of `GateExact`, with
  what arrived written as what was shown and what is held (`OutputSplit`), or as
  two pieces with the marker between them (`OneTaken`), which keeps its form when
  more is shown, while positions in a sequence would have to be counted again.  A
  frame is scanned by a fold over its characters: one character keeps `ScanState`
  (`ScanCharStep`), so the frame does (`ScanIs`).  Nothing is assumed of the marker
  but that it is not empty: with one whose beginning occurs in it again the scanner
  may overlook a marker, but it still loses nothing and takes out none that was not
  there.
* `QueueCorrect` (`SessionInput`) from `InputInv`: the queue is empty and everything
  accepted was written, or its head was the last to be written and the rest
  completes it (`Placed`).  That disjunction is stronger than `InputKeepsOrder`, and
  it is what a flush needs to know where it goes on: at the second buffer if the
  head is repeated, else at the first (`FlushPlaces`).  A new frame cannot be taken
  for a repeated one, since its number is new.  The bytes are a fold that adds up
  over a cut of the queue (`BytesConcat`).
* `SlotsCorrect`, `PanesCorrect`, `RegistrationCorrect` (`DaemonManager`) from
  `SlotInv /\ CallInv /\ RequestInv /\ EntryInv /\ RestoreInv`.  The first two
  hold together only: a waiter that is no longer current must have left the queue,
  or a release would bring it back to life.  The queue's order (priority, then
  arrival) is shown of functions on `1..k` first: an element taken out, put in
  before the first of lower priority, the head cut off.  `RequestInv`: the daemon's
  answer reaches only calls that are not aborted.  `EntryInv`: an entry that has
  exited has a timer, and a history is closed or its writer was initialising then.
* `LockCorrect` (`WorkspaceInit`) from `LockInv`: besides `OneHolder`, a call
  waits at most once and nobody waits for a free lock.  Without the first, a
  hand-over would leave the new holder in the queue; without the second, a call
  that finds the lock free would overtake a waiter that nobody wakes.  A step
  either leaves the lock alone, asks for it, gives it up, or restarts the app:
  one lemma for each, whatever the call was doing.
* `DeletedCorrect` from `DeletionInv`: an initialization that is at work on the
  workspace when a deletion has its turn is ahead of the deletion in the lock's
  queue (`InitsFirst`), so the deletion, which finds the lock, finds all of them
  done; from then on the row says that the workspace is deleted, and only a job
  that was begun meanwhile, whose workspace is `overtaken`, can make a worktree.
  It is the order of the queue that carries this, not the await of `done`, whose
  time-out may pass.
* `ProgressCorrect` from types, `BusyInv` (an initialization that removes its
  worktree was canceled, or its job is over, or another one has begun the job
  anew) and `ReadyInv` (whoever is past the creation has a worktree at its path, or
  a removal that failed has moved it away, which is `There`; a job that is canceled is
  not ready).
* `NoProcessIsLostCorrect`, `TimersCorrect` (`HostServiceManager`) from
  `ServiceInv`: only the pending start has a time limit and a listener, and its
  instance has no port yet (`OnlyPendingIsLimited`), so that `clearPendingStart`,
  which takes the listener off the *current* instance's process, cannot silence
  another one; and an instance is there only while it is wanted.
* `ConnectionCorrect` (`TerminalHostClient`) from `ConnectionInv`: an
  authenticated stream in its field is heard, although the hello that was
  answered may have been sent on a socket which is gone.  That somebody is at
  work while the client is connecting needs nothing else: a call's step ends in
  another await, or in a state that is not "connecting".

* `DaemonTypeCorrect` (`DaemonStart`) from the types and what belongs together:
  timers and clients belong to processes that are alive, and only a signal, which
  comes once, makes the third call of `stopServer()`.
* `OneSpawnerCorrect` (`DaemonStart`) from the types of the calls and the lock:
  whoever finds the lock free takes it in the same turn, and only its holder or
  the expiry of another app's lock frees it.
* `NoOrphanCorrect` (`DaemonStart`), for any number of callers, daemons, causes
  and ends, from `Retries /\ (Alone => Calm)`.  `Retries`: who awaits something
  has been called, so that as long as all calls are of one caller (`Alone`), one
  at most awaits something.  `Calm`: a daemon that is bound is the one the path
  leads to, a file without a listener is there only before the first daemon
  starts, and a call that has seen such a file still would.  The invariant is an
  implication because the first overlapping call or the first signal ends what
  `Calm` says.
* `PairsCorrect` (`DaemonServer`), from an inductive invariant that adds that
  sockets not yet made have said nothing.  Closing a socket and taking its entry
  away preserve it in any order, which is one lemma for three of the steps.
* `SharedCorrect` and `ReadsCorrect` (`FsWatcher`).  The first from `Shared`,
  which holds until a stream begins in an await of another: who makes or ends a
  watcher is alone, those who are told are those who watch the one in the map, and
  each native watcher that is not over has a stream that will see to it, or is the one
  in the map, which could not be unsubscribed and waits for the next stream.  The
  second from the types and `InOrder`: a call of `next()` waits only while nothing
  is kept, so that what is handed over directly cannot overtake what is kept.
* `ViewCorrect` and `IndexCorrect` (`FsEvents`), for any paths, changes, builds and
  number of batches in flight.  Both rest on `Behind`: what is still to be told leads
  from what a listener knows, or the index has, to the files that are there - first
  the batches in flight, each of which makes one set of files of another, then the
  reports, one change after another.  Delivering moves nothing in it; a flush
  replaces the first reports by a batch that makes the same of the files
  (`BatchMakes`); landing takes the first batch away on both sides.  That a batch
  makes the same is two things.  What is known of a path after some reports says
  whether it was there before the first and is there after the last (`Leads`, kept by
  every report: `LeadsStep`).  And the rounds of `pairRenameCandidates` pair nothing
  twice (`PairsArePairing`), so that reconciling changes neither what is gone nor what
  is there (`ReconciledSame`).
  The invariants hold until something goes wrong that the properties exclude too.
  When a batch lands before an older one, or one of deletions alone is published
  while others await `stat()`, neither is left.  The listener's ends when reports are
  lost: after "overflow" it reads the files anew, and pending events of the time
  before are told to it still.  The index survives that, since it is dropped; its
  invariant ends when a file changes, or something is still to be told, while one is
  built, for then the build's result may be stale.  Until then nothing is on its way
  as long as a build runs, and one that may be stored has the files of the paths it
  has looked at (`BuildsAreQuiet`).
  `OncePerPath`, that each path of a batch is in one of the events that are told of
  it, and the types (`EventTypesCorrect`) hold whatever happens.

Counts and folds are proved about without an induction rule.  The library's rules
take the formula as an operator, which the provers cannot instantiate; so
`SessionOutputProofs`, `DaemonManagerProofs`, `SessionProofs` and `HostServiceProofs`
use the smallest counterexample: a set of numbers that is not empty has a least
member (`NatMin`, from the well-foundedness of inclusion on finite sets), and a least
number at which two counts differ is not zero and not a successor.  `Items` counts
with `Cardinality`, which makes the theorems about finite sets apply.

Only model-checked: liveness, since fairness and ENABLED are beyond the prover.  Every
invariant that a passing run checks is a theorem.

## Plan

Done, in this order: `TerminalHost` with `SessionRegistry` and proofs;
`ShellReady`, `SessionInput`, `SessionOutput`; `PtySubprocess`; `WorkspaceInit`;
`HostServiceManager`; `DaemonManager` with `PrioritySemaphore`; the connection
of `TerminalHostClient`; `DaemonStart` and `DaemonServer`; `FsWatcher` and
`FsEvents`; proofs about the modules of the application and of the daemon's
processes; about attachments, deletions and progress, `DaemonManager`,
`SessionOutput`; about the whole way of what is typed; about what is made of the
reports of changed files.

Left:

1. `close` and `deleteWorktree` in `WorkspaceInit`; requests and time-outs in
   `TerminalHostClient`.
2. `SessionInput` composed with `PtySubprocess` as an implementation of a FIFO
   pipe with drops.
3. In the renderer, saving and closing of editor tabs (an edit during a save is
   lost by the removal of its tab; a close that was canceled during the save
   goes on), and the port scanner of the main process (a scan asked for by a
   pane that has gone adds its ports again until the next full scan).

## Not modelled

* Of the daemon's server: the token file, the count of transient errors, refused
  hellos and requests that pass a call on.  Of the spawn lock: its age when its
  holder has slept.
* Requests on a connection that is made, and their time-outs: each is an entry
  of a map that its answer, its timer or the loss of the connection removes.
* Of a session: resize, signals, clearing the scrollback and the terminal's
  metadata, which pass through; the answers of the emulator only as far as the
  gate is concerned; process ids, process trees and signals to them.
* Pure I/O and formatting (environment building, shell wrappers, port scanning
  with `lsof`), the terminal emulation itself (xterm.js), the renderer, database
  schemas and routers, e-mail, web and mobile applications: no protocol state of
  their own, or state kept by a database.  They are by far the most of the
  repository's lines, so the modules stand for a small share of it.  The wire
  format of requests is JSON lines and is taken as given.

## Running

    tlc -config MCTerminalHostCalls.cfg MCTerminalHost
    tlc -config MCWorkspaceInit.cfg MCWorkspaceInit
    tlc -config MCSession.cfg MCSession
    tlc -config MCSessionOutput.cfg MCSessionOutput
    tlc -config MCDaemon.cfg MCDaemon
    tlc -config MCFs.cfg MCFs
    tlc -config TerminalHostOrphan.cfg TerminalHost
    tlc -config SessionOutput.cfg SessionOutput
    tlc -config TerminalHostClient.cfg TerminalHostClient
    tlapm TerminalHostProofs.tla
    tlapm SessionOutputProofs.tla

`PROJECT.json` names module, configuration and properties of each run.
