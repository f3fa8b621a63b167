# Verification of the local speech-to-text server

TLA+ models of `stt_server`, a WebSocket server that transcribes speech with a
local model, the TLC runs that check them and the theorems TLAPS proves about
them.  Paths below are relative to the repository (`src/`).

## The system

| part | source | state it keeps | operations |
| --- | --- | --- | --- |
| server lifecycle | `stt_server/server.py`, `TranscriptionServer` | the state machine NEW, STARTING, RUNNING, STOPPING, STOPPED; the live-work ledger; the lock's file descriptor; the listener, the recorded inode, the close and stop tasks | `start`, `shutdown`, `adopt`, `wait_stopped`, the bind, the drain, the done callbacks |
| socket lock | `server.py`, `acquire_socket_lock`, `socket_lock_held` | a lock file beside the socket, the socket file | acquire with a retry deadline, probe, bind over a stale file, unlink by inode |
| sessions | `server.py`, `_handle_connection` and its handlers | per connection: audio buffer, item id, decode task, closed flag, configuration | append, commit, clear, update, status, close, cancel, the decode, sends with backpressure |
| `serve` | `server.py`, `serve`; `__main__.py` | the stop event, the startup and readiness tasks | stop against startup, ready announcement, hard exit |
| decode guard | `backends/_thread_util.py` and the four backends | the loop's decode lock, the thread lock, the in-flight count, the idle future | transcribe, cancel, close, idle, abort |
| supervision | `supervise.py` | the parent's pipe | stdin watcher, classification of startup errors |
| client | `client.py`, `examples/pipecat_stt_service.py` | a connection | connect, send audio, commit, receive |
| policy | `auth.py`, `_peercred.py`, `env.py`, `text_quality.py` | none (the token file is the operator's) | token and endpoint resolution, peer uid check, transcript filter |
| prefetch | `prefetch.py`, `snapshot.py`, the backends' `prefetch_specs` | the model cache, the events told | `--check`, fetch, progress, verification |
| launch agent | `scripts/install_stt_agent.sh`, `render_stt_plist.py`, `read_stt_plist.py` | the plist, launchd's job, the socket and token files | install, uninstall, stop, restart |
| launchd harness | `scripts/smoke_launchd.py`, `_smoke_lib.py` | a spare agent; the phase and the signals held; the installer's process group and its verdict; the identity a token may go to | three checks with five installs, `run_owned`, `connect_verified`, the teardown |
| other tooling | the rest of `scripts/`, `justfile` | none of its own | smoke tests, benchmarks |

How they interact.  `serve` runs `start` and the readiness step as tasks, races
them with a stop, and ends with `shutdown` or with `abort_sync` and `os._exit`.
The lifecycle calls the backend (`start`, `close`, `idle`, `abort`), creates the
listener whose connections become session tasks, and takes the socket lock.
Sessions call the backend's `transcribe` from decode tasks; the guard runs each
decode in a daemon thread that no cancel can stop.  Everything but those threads
(and the thread that reads a supervisor's pipe) runs on one asyncio loop, so the
units of interleaving are the stretches of code between two suspension points.
A client holds one session over a connection that may be lost.  `prefetch` and the
agent's script are programs of their own: the first shares the model cache with
the backends' loaders and has a progress thread, the second shares the plist with
launchd, and the socket and token files with the servers launchd starts.  The
launchd harness runs that script for a spare agent, in a process group of its own
that may outlive the attempt to stop it, and looks on while launchd restarts the
spare's server and other processes come and go on its port.

What is hard: a cancel that lands at any await; done callbacks that run a loop
turn after the future they belong to; threads that outlive their task; a lock
that must outlive all of it; processes that crash and leave their socket file;
timeouts racing late completions; a stop or a failure between any two steps of a
start; a transcript that comes after its segment was given up; commands killed
half-way and run again over what they left; a signal between any two steps of a
program that has to clean up; a pid, checked and then used by another process.

What makes each part correct:

- lifecycle: the lock covers all work, the state machine makes legal moves only,
  a shutdown ends, and nothing is left once the lock is free;
- decode guard: one thread on the device, exact counts, no lock lost to a cancel;
- session: audio stays in its turn, one conclusion per commit, a close that ends;
- socket lock: one owner per path, no socket of another process removed;
- `serve`: ready once and never after a stop, the first failure told once, an end;
- client: each segment gets its own transcript, a dead connection is given up;
- prefetch: what it said of the cache is so, its events come in order;
- agent: what the script said is so, a token is never lost, nor a live socket;
- harness: its teardown row is true, one installer at a time, the token goes to the
  spare's server and nobody else, the spare's live socket is kept.

## Modules

| module | models | abstract specification | theorems |
| --- | --- | --- | --- |
| `Lifecycle` | one `TranscriptionServer` from `start` to `stopped` | `ServerContract` | `LifecycleProofs` |
| `DecodeGuard` | `_thread_util.py` and the backends built on it: decodes, their threads, `close`, `idle`, `abort` | `SerialDecoder` | `DecodeGuardProofs` |
| `Session` | one connection: handler, decode task, `websockets`' send side | `SessionContract` | `SessionProofs` |
| `SocketLock` | the processes that share one socket path | `SingleServer` | `SocketLockProofs` |
| `Serve` | `serve()`, the command line around it and its supervisor | `ServeContract`, and `ServerContract` for the server inside | `ServeProofs` |
| `Client` | `client.py` and a Pipecat service over it, with the session and the connection | | `ClientProofs` |
| `Prefetch` | runs of `stt_server prefetch` over one cache | | `PrefetchProofs` |
| `Agent` | the agent's script, launchd, the agent's server and its checks | | `AgentProofs` |
| `Smoke` | one run of the launchd harness: its signals, its installer calls, its checks of the spare agent, its teardown | | `AgentProofs` |

`MC<module>.tla` holds the constants of the TLC runs.  `PROJECT.json` maps each
definition to its lines.

How they compose.  `Lifecycle` implements `ServerContract`, and the server inside
`Serve` takes only steps of that same contract (`ServerKeepsContract`), so `Serve`
needs none of the lifecycle's detail.  `Client` contains a session small enough to
be composed (its buffer, its decode, its refusals); `Session` has the detail, and
`MCSession` checks the two ends of a connection in one specification.
`MCCommands` does so for the four programs a user runs, `Serve`, `Prefetch`,
`Agent` and `Smoke`.  The modules put together like this share no state, so a
behaviour is one of them with the others at rest (`SessionRest`, `ClientRest`,
`ServeRest`, ...), and no interleaving of them is lost.  `Smoke` has its own, abridged
view of the script that `Agent` models command by command.

### Lifecycle

State: `state` is `_state`, `lock` is `_lock_fd is not None`, `ledger` and
`sessionWork` are `_live_work` (the session kind apart, because the drain treats
it apart), `fut` the server's own futures, `task` the handler and decode tasks,
`start` and `drain` the suspension points of the one `start()` and the one
`_drain`.  An action is the code between two suspension points; every timeout
may fire at any moment.

- A future's done callbacks run a loop turn after it ends.  The two steps are
  apart in the model (`"ended"`, then `Retire`), and callbacks of futures that
  end in the same turn run in either order.
- `Server.close()` only schedules its task.  That task's first step comes before
  anything the drain does later, hence the guards `listener # "closing"`.
- Connections are accepted once the listener has been adopted.  A handshake
  under way when the listener closes may still become a session.
- A start refused at the directory check or at the lock unwinds in the same step
  and changes nothing, so it is not an action.
- TCP mode takes no lock and has no socket file; it is the same machine without
  them and is not modelled apart.

`OutsiderStates` says when a process that ignores the lock (a server older than
the lock) may replace the socket file.

### DecodeGuard

One stream is one call of `transcribe`.  A stream waits for the loop's
`_decode_lock`, counts itself, starts a daemon thread, and is woken from it; the
thread takes `_thread_lock`, runs the model and reports back.  A cancel reaches
the awaiting task, never the thread.  `close` waits for the count with a bound,
`idle` for the last thread.

What it assumes of its caller is what `Lifecycle` guarantees
(`SnapshotQuietAtClose`): `close` starts when every waiting decode was asked to
cancel, and a restart comes after `idle()`.  The late-session finding below is
the known exception, and is the lifecycle's.  Two branches of the code cannot
run and are left out: the early return on empty audio (a commit of an empty
buffer is refused before) and `end()`'s check of `_cancelled` under the lock (the
cancel of a stream is always followed by the cancel of its task).

### Session

`Running`, `Turn` and `LoopFree` stand for the one asyncio loop: a task that does
not suspend is not interleaved.  `websockets`' `send()` is modelled from its use:
a lock per connection, the write, a wait for the low-water mark inside that lock.
`todo` is what is left of the handler's or the decode's current step: the events
it still has to send.  `_send`'s overflow check reads the write buffer before it
waits for the lock, as in the code.

- A handler that waits for the decode it cancelled absorbs its own cancellation
  (asyncio forwards it to the decode), so a decode never outlives its handler.
- `_on_commit` spawns the decode also when the `committed` event was not sent.
- An overflow's `close(1011)` may itself be cancelled by the teardown; the client
  then sees 1000.

The contents of events and the fields of `session.update` are left out; whom
`_process_request` lets in is `Agent!Admits`.

### SocketLock

One action is one system call, or a few that nothing can tell apart.  Any process
may die between two of them: the kernel drops its flocks and its listening
socket and leaves the file.  `met` and `tries` are the locals of
`acquire_socket_lock`; `by` is a history variable for the properties.

- A probe (preflight, or the installer's check) lasts a few system calls, so
  whoever was probing at one attempt has finished 10 ms later (`Slept`), and a
  starter makes more attempts (25) than there are processes that could be probing
  (`SocketLockAssumption`).  These are the two timing facts the retry relies on.
- A process binds once, and the kernel keeps the inode of a listening socket, so
  a process stands for its inode; `_unlink_own_socket` runs only while it listens.
- `connect()` in the preflight may fail against a live server (full backlog), so
  a start goes on with or without it.

### Serve

`pc` is the suspension point `serve()` stands at, and `"finally"` a moment at which
it does not suspend.  `step` are the startup and the readiness task, `pending` the
local of that name, `adopted` the ledger entries `adopt` makes, `phase` and
`others` the server inside.  `told` collects what the starter sees: the ready and
error events, the line on stderr or the exception.  A task that has had no turn yet
(`"queued"`) and is cancelled never runs (`"dropped"`).

- A stop, a cancellation, a closed pipe or a failure may come at every await.  The
  stop is seen before the result of a step that ended in the same turn.
- `_abandon_step` waits for a step with a bound, once; what still runs is adopted
  by the server.  The readiness step is adopted from its creation.
- The hard exit (`"cli"`, `"supervised"`) is taken when live work is left; embedded,
  `serve()` returns and the loop's owner keeps the work.

### Client

`up` and `down` are the frames under way, `heard` is the audio the session has
buffered; `seg` is the segment `run_stt` is at.
There are no item ids on the client's side, so its answer is the first
`completed` or `error` it reads.  `consumer` chooses what an abandoned segment does:
the example keeps its session, the reference consumer of `docs/integration.md`
(documentation, hence external) tears it down.  A lost connection loses what was
under way from some point on, and is noticed later (`"broken"`, then `"down"`).
`run_stt` sends an utterance as one frame; one of more than 1 MiB closes the
connection, which is one of the losses.

### Prefetch

One snapshot spec of one of four kinds: pinned to a commit, `main` with names the
backend knows, `main` with names from its `config.json`, a local directory.
`huggingface_hub` is external and modelled by what the command relies on: blobs
that are finished stay, a file is linked into the snapshot of a commit once its
blob is finished, `refs/main` is written first, and out of reach means the local
folder, which may lack files.  `stage` is where `fetch_spec` stands; `reporter` is
the progress thread, which is joined for one second only and may then still have one
event to send.  `promise` and `verdict` are history: what was said of the cache.

### Agent

`script` is the next command of the script, `job` launchd's view, `plist` the file
(`BadDef` between the renderer's truncation and its write), `proc` the job's server.
launchd is external: it keeps a loaded job's server running, `bootout` returns
before the job is gone, `bootstrap` fails while it is there, a login loads what the
plist says.  The server's own checks (`TokenUsable`, `DirSecure`, `Admits`) are those
of `auth.py` and `server.py`.  The script may be killed between two commands.  One
script runs at a time, with the default label.  A refused install is no step, and
`start`, `status`, `logs` and `port` change nothing.

### Smoke

`stand` is where `_locked_main`, `run_checks`, `run_installer` and `teardown` stand, `leg`
the install of the five (`Legs`) it is at, 6 in the teardown.  `tearing` is
`state["tearing_down"]`, `held` the signal `held_signals` keeps, `ending` and `recorded` the
verdict of the last call and `installer_not_stopped`.  The spare agent is `spare` (its
plist), `service`, `main` and `ran` (launchd's job, its pid, its spawn counter),
`spareSock`, `spareLock` and `made`.

- `calls["own"]` is the installer being run, `calls["stray"]` one whose group could not be
  killed or whose leader could not be reaped.  It goes on by itself, at any time
  (`GroupNotStopped`); one is enough, since no further call follows it.
- `on_signal` raises once, at any point of a check or before the switch to the
  teardown; during an installer call the signal is held and redelivered after it.
  `LateSignals` says whether one may arrive between the verdict's `raise`, at which
  `held_signals` has already put the handlers back, and its record.
- The token check (`Identify` to `Confirm`) dials, asks who holds the far end, and reads
  launchd's job again; each of these may be stale by the next.  The spare's server
  may die, be restarted or be replaced on its port at any moment, by a process with
  the same pid too.  `sent` is history: the spare's n-th process is n, the other `Foreign`.
- `remove_spare_socket` unlinks under the lock every server of that socket takes first.

A run refused by its guards is no step.  SIGKILL ends a run and leaves what there is.
Whether the real agents are unchanged is a choice at `Boundary`.

## Runs

| run | instance | shows |
| --- | --- | --- |
| `lifecycle` | 2 sessions, a failing cleanup, an outsider while running | the ledger is exact and the lock covers all work (`IInv`, `LockCoversWork`), `_transition` never raises, the contract is implemented, no foreign socket is unlinked, the backend is closed only once the drain's sessions are quiet |
| `lifecycle_stops` | 1 session, a failing cleanup | nothing left once unlocked, `shutdown()` of a running server returns whatever its sessions, threads and backend do, and `stopped` is reached once they end |
| `lifecycle_foreign` | an outsider during `STARTING` | finding 1 |
| `lifecycle_late_session` | 1 session | finding 2 |
| `decode_guard` | 3 streams, cancel checked by the thread, temporary files | the count, the lock and the idle future are exact; one thread at a time uses the model; decodes end and `idle` completes if the model returns, `close` is bounded regardless |
| `session` | buffer of 2, high-water 2, write limit 4; 3 segments, 2 losses, both consumers | audio stays in its turn, no orphan decode, at most one conclusion per commit and nothing after `session.closed`; commits are concluded, `close` and `cancel` end; the reference consumer's segments get their own text, and a segment ends unless its own decode failed |
| `session_slow` | write limit below the high-water mark | finding 3 |
| `socket_lock` | 3 launches, 2 installer runs | one owner per path through crashes and takeovers, probes refuse nobody, a live socket is kept |
| `socket_lock_exit` | 2 launches, 1 installer run | finding 4 |
| `client_stale` | 4 segments, 2 losses, the example consumer | finding 5 |
| `commands` | `serve` in three modes with 3 cancellations; 3 runs of `prefetch` of 4 kinds of spec over 3 commits and 2 weight files; 2 scripts and 1 edit or login over 2 sockets; a run of the harness with 2 pids and 2 starts per load | `serve` and its command line keep `ServeContract`, the lock covers the steps, a stop ends it; what `prefetch` said of the cache is so and its events are in order; the agent is what the script said, keeps its token and takes no live server's socket; the harness's teardown row is true, it keeps its hands off beside an installer that may run, its token reaches the spare's server only, the spare's live socket is kept, and every run reports |
| `smoke_late_signal` | the harness alone, `LateSignals` | finding 6 |

**Bounds.**  Two sessions give every order of two tasks in the drain, and a
server's sessions interact only through the ledger, so a third adds no new kind
of step; sessions are interchangeable (symmetry in safety runs only).  Three
decode streams are the holder, a waiter and one more that must not overtake or
be lost.  The buffers of `Session` are counted in events: two commits' worth, so
that the cap, the high-water mark and the write limit are each reached on both
sides.  Three launches are an owner, one that waits and one that probes; two
installer runs overlap each other.  Three segments are one that is abandoned, one
that could read its answer and one on a new connection; two losses let the service
reconnect and lose again (`client_stale` needs no fourth, and has it).  Three cancellations reach `serve()` in a
step, in the bounded wait and in the shutdown.  Three runs of `prefetch` are one
killed or short of files, one that completes it and one that checks; of the three
commits one names other weights and one none.  Two scripts are an install over an
install, or an uninstall after one, each killed anywhere; one edit, login or server
started by hand comes between any two of their commands.  Two pids are the spare's
server and another process, or the same pid twice; two starts per load are a process
and its successor, and the two that the collision check waits for (three starts give
the same results).  Nothing else is bounded:
`shutdown` is asked once more at most, a process and a stream run once.

**Deadlock** is not checked: a stopped server, a closed backend, an ended
session, a service that was cleaned up and a finished process have nothing left
to do.

**Fairness.**  `Lifecycle!OwnFairness` is what the server itself provides: its
ready callbacks run and its timers fire.  `OtherFairness` is what it relies on:
backend calls return, threads and adopted steps end, a cancelled task unwinds,
and a connection ends once the listener has closed.  `ShutdownReturns` needs only
the first, `EventuallyStopped` both.  `DecodeGuard!LoopFairness` is the loop and
the drain window; that the model returns (`ThreadFairness`) is a premise of
`DecodesEnd` (which speaks of `idle` too) and not of `CloseBounded`.  In `Session` the loop
is strongly fair to its tasks (its ready queue is a FIFO), the close timeout
fires, and the client reads (`ReaderSpec`); that the backend answers is a premise
of `CommitConcluded` only.  In `Serve` its own turns,
its timers, the bounded shutdown and the watcher thread go on; nothing is assumed of
the model load, of the warm-up or of leftover work, so `StopHonoured` holds although
they hang.  In `Client` (`ClientFairness`) a segment that was begun is sent and read, the session
works and a decode ends, and the keepalive notices a dead connection; that a segment
is begun is not assumed.  In `Smoke` only the harness's own steps are fair: each of its
waits is bounded (the subprocess timeouts, the deadlines of its polls), so it goes on
whatever the installer, launchd and the signals do.
Cancellations, disconnects, new requests and crashes are never assumed.

Each property has a mutant in `PROJECT.json`, a plausible bug in the code that
makes the run find the property violated; the mutated operators stand in the
modules before the definitions they replace, marked "Mutant".

## Proofs

All theorems hold for every value of the constants, under the named assumptions
of the modules.  Each module's theorems rest on one inductive invariant, which is
also checked by TLC; `LifecycleProofs` adds a few smaller ones on top of it.

- **Lifecycle** (`ConstantsAssumption`: two flags are Booleans; any set of
  sessions).  `LockCoversWork` is not inductive: that the lock is held says
  nothing of why `_settle` will not release it.  `IInv` adds that the ledger has
  an entry for exactly what is under way (`LedgerExact`), that the lock follows
  the state, who runs the drain, who owns the listening socket, and that threads
  left when no drain is running are watched by the idle future.  With these,
  `_settle` finds an empty ledger only when nothing is left.  `LegalTransitions`
  and the refinement of `ServerContract` follow.  Five invariants on top of `IInv`
  give the rest: a shutdown is final (`ShutdownIsFinal`), so no bind begins after it
  (`NoLateBind`); what the drain waited for stays asked (`SnapshotExact`), so
  the close is quiet (`QuietAtClose`); a backend is up only for a bind, a running
  server or a drain, and a socket file is ours only while we listen
  (`BackendOwned`, `SocketOwned`), so a free lock means a clean exit (`LeftClean`);
  and every recorded inode is our own (`RecordOurs`), so nobody else's socket is
  removed (`ForeignSocketKept`).  The last one assumes that outsiders replace the
  socket of a running server only; the run `lifecycle_foreign` shows why it has to.
- **DecodeGuard** (any finite set of streams).  `GuardInv` ties each stream's step to the
  lock queue, the count and the thread lock.  The count, the lock, the quiet
  states and the refinement of `SerialDecoder` follow.  That the temporary directory is
  there while a stream may use it (`DirIsThere`) is inductive by itself, once the types
  are known.
- **Session** (`SessionAssumption`: the limits are numbers, the cap and the write
  limit positive).  `SessionInv` has two parts.  `TaskInv` relates the handler's step,
  the decode's stage and the buffer: `BufferClosedInFlight` and `NoOrphanDecode`
  follow.  `WireExact` says what each task has still to send, given what the client
  has seen: an announced stage belongs to the decode that will conclude it, and
  whoever could write after session.closed is asked to cancel and suspended.  It
  speaks of an open connection only, because nothing is written on any other; an
  overflow therefore needs no more than that the close frame is next
  (`Dropped`).  The refinement of `SessionContract` follows.
- **SocketLock** (`SocketLockAssumption`: more attempts than processes; any finite
  set of launches and installer runs).  `IInv` says that the flock's holders are
  the processes whose step says so, whose file may be at the path, and that a
  start which has met no server has met one more probe than it has failed
  attempts at each failure; a cardinality argument bounds those by the number of
  processes, hence `OnlyAServerRefuses`.  The refinement of `SingleServer` and
  `SocketIsKept` follow.
- **Serve** (`ServeAssumption`: known modes; any number of cancellations).
  That a step is waited for once is not inductive: `ServeInv` adds that a pending
  stage has not been waited for (`StepsExact`), which phase of the server each state
  of the startup task allows (`StartupExact`), that the phases without the lock have
  no live work and that the readiness step is in the ledger from its creation
  (`LedgerExact`), and what has been told at each place of `serve()` (`ToldExact`).
  Both refinements, of `ServeContract` and of `ServerContract`, follow.
- **Client** (any number of segments and losses).  `ClientInv` says what can be under
  way while the reference consumer waits (audio and commit, the commit, then events
  of which only the last is an answer, and that of this segment), and that nothing is
  left once the segment has ended.  The same cannot be said of the example.
- **Prefetch** (`PrefetchAssumption`: any finite set of weights, any sequence of
  commits, any number of runs).  `PrefetchInv` adds where the files a run requires
  come from and that a finished run has checked them in the snapshot the cache
  offers (`RunExact`), which last event each place allows (`EventExact`), and when
  the progress thread is alive and what it has measured (`ReporterExact`): a
  cardinality argument shows that the number of finished files never goes back.
- **Agent** (`AgentAssumption`: three words are no socket paths; any number of
  scripts and edits).  `AgentInv` adds what each place of the script has already done
  (`ScriptExact`), that the job's server runs the job's definition (`JobExact`), that
  a token, once there, is in the plist, in the job and in what a checked install
  will write (`SecuredExact`), and that one server at a time serves a socket.
- **Smoke** (`SmokeAssumption`: pids are positive; any number of starts; in `AgentProofs`).
  None of the four properties is inductive.  `SmokeInv` adds what the harness holds at
  each place (`HarnessExact`: an installer only in a call, the port only in the first
  check, the lock only around the unlink) and where a stray installer can find it
  (`StrayExact`): never in a check that goes on.  That is why launchd's counter cannot
  start over during the token check, and `GateExact` follows: a connection whose far
  end had the pid, while the job still had pid and counter, is to that very process.
  The lock that the harness holds at the unlink keeps every later server of that
  socket out (`UnlinkExact`), hence `SpareKept`.  These hold whatever the signals do.
  `ReportTrue` and `OneInstaller` have the hypothesis that no signal falls between a
  verdict and its record (`~LateSignals`): then a stray installer is always recorded
  (`StrayRecorded`), so a teardown that gets to its last look has no installer left to
  load the job again (`LookExact`).  Finding 6 is what happens without it.

Four theorems state what no run checks on its own, because it follows the same
invariants: no bind begins after a shutdown (`NoLateBind`), the temporary directory
(`DirIsThere`), a pending step is waited for once (`WaitsOnce`), a dead connection
costs two segments at most (`TwoLost`).

Only model-checked: every liveness property (out of the prover's reach: TLAPS 1.4.5
has no rules for `ENABLED` and so none for fairness), `EveryRunReports` among them, and
the properties of the violation runs, which do not hold.

## Findings

1. `lifecycle_foreign`: the inode recorded as the server's own is whatever is at
   the path when it is read, a loop turn after the bind.  A process that ignores
   the lock and replaces the file in that turn has its socket unlinked.
2. `lifecycle_late_session`: the drain waits for the sessions it finds when it
   begins.  A handshake under way then becomes a session later, and its decode
   runs, not cancelled, while the backend is closed.
3. `session_slow`: the connections are created with `websockets`' default write
   limit of 32 KiB, so `send()` blocks long before `_send` sees 1 MiB pending.  A
   client that does not read is not dropped, and blocks its decode task.
4. `socket_lock_exit`: between the bind and the recording of the inode one loop
   turn remains, inside asyncio's `create_unix_server`.  A hard exit there leaves
   the socket file behind.  The next start replaces it.

5. `client_stale`: the Pipecat example keeps its session when the pipeline cancels a
   segment, and the next segment reads the abandoned one's transcript as its own.
6. `smoke_late_signal`: `run_owned` raises its verdict "not stopped" after the signal
   handlers are back, and `run_installer` records it only in its `except` clause.  A first
   SIGINT in between raises an exception without the verdict: nothing is recorded, and
   the teardown uninstalls beside an installer that may still be running.

Noticed while modelling, and not checked by a run of their own:

- The docstring of `shutdown` says an in-flight start "never binds a listener",
  which holds only if the bind has not begun.  A shutdown closes connections with
  1001 at once, so decodes in flight are cancelled by their handler's teardown
  rather than drained.  The umask set for the bind is the process's and is held
  across an await.
- `run_stt` of the example ignores `transcription.failed`: such a segment waits until
  the connection or the pipeline ends (hence the exception in `SegmentConcludes`).
  When the connection closes, `events()` ends silently and the dead client is kept,
  although pipecat_stt_service.py:146 speaks of dropping it.  A `cleanup` whose
  `session.close` raises skips `super().cleanup()`.
- When main moves between the fetch of `config.json` and the download, `prefetch` can
  say complete of a snapshot whose own `config.json` names other files; `promise`
  leaves that case out.  A killed fetch of a newer main makes an earlier, complete
  model unloadable offline, because `refs/main` is written first.  With `--json` the
  hub is needed even when everything is cached.
- The agent's script takes no lock: two installs at the same time can each say
  "installed" of the other's plist.  A script killed between the new plist and the
  cleanup forgets the old socket's name.  After a cut-off plist every install refuses
  until an uninstall.

## Not modelled

- Model inference and audio numerics: third-party numerics without a protocol.
- The text quality filter, wire names, logging, environment parsing: pure functions
  and constants that touch no state.
- Parsing of ACL listings, the platform's calls for a peer's uid, URI parsing; their
  results are inputs of `Agent`.
- The lock file's ownership checks, and TCP mode in `Lifecycle` (the same machine
  without lock and socket file).
- The harness's guards before its first install, its snapshot of the real agents and
  of the logs, a second harness at the same time (it is refused by a lock), and its
  SIGKILL, after which nothing of it runs any more.
- The other smoke tests, the squat check and the benchmarks: scripts that drive real
  processes one step at a time and keep no state.
- A `session.update` pipelined behind a commit decides the language of that commit
  (server.py:1718).  No document says which language is meant, so there is nothing
  to check it against.

## Order of the work

The modules were written in the order of what depends on them: lifecycle, decode
guard, session and socket lock; then `serve` over the lifecycle's contract; the
client over the session; `prefetch` and the agent; the launchd harness over the
agent's script.  What would come next: two scripts or two prefetches at the same time, and the composition of several sessions
with one decode guard.
