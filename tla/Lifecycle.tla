------------------------------ MODULE Lifecycle ------------------------------
(***************************************************************************)
(* The lifecycle of TranscriptionServer (src/stt_server/server.py): the    *)
(* state machine NEW -> STARTING -> RUNNING -> STOPPING -> STOPPED, the    *)
(* live-work ledger, the single-server lock, the bind, the drain, and the  *)
(* session and decode tasks with the daemon threads they leave behind.     *)
(*                                                                         *)
(* One asyncio loop runs everything, so an action is what the code does    *)
(* between two suspension points.  A future's done callbacks run a loop    *)
(* turn after it ends, which is why an ended future ("ended") and its      *)
(* _retire (the Retire actions) are two steps.  Timers may fire at any     *)
(* moment: the bounded waits of the drain end by completion or by timeout. *)
(*                                                                         *)
(* The Unix-socket mode is modelled: a TCP listener takes no lock.         *)
(***************************************************************************)
EXTENDS Naturals

CONSTANTS
    Sessions,         \* the connections one server may serve at a time
    IdleAware,        \* does the backend have the optional idle() hook?
    CleanupMayFail,   \* may the cleanup of an orphan bind raise?
    OutsiderStates    \* lifecycle states in which a process that ignores the
                      \* lock may put its own socket at our path

ASSUME ConstantsAssumption ==
    /\ IdleAware \in BOOLEAN
    /\ CleanupMayFail \in BOOLEAN

VARIABLES
    state,        \* _state
    lock,         \* _lock_fd is not None
    requested,    \* _shutdown_requested
    owner,        \* the first shutdown() caller still waits for the drain
    start,        \* where the one start() call stands
    drain,        \* where the one _drain stands
    pending,      \* the session tasks the drain waits for
    ledger,       \* _live_work, every kind but "session"
    sessionWork,  \* _live_work, kind "session"
    fut,          \* the server's own futures
    task,         \* the session (handler) and decode tasks
    listener,     \* the listening socket, as the kernel and websockets see it
    server,       \* _server is not None
    sock,         \* whose socket file is at the path
    bound,        \* _bound_socket_id: whose inode was recorded
    orphan,       \* the bind has the cleanup _close_orphan_listener
    threads,      \* sessions with a decode daemon thread still running
    backend       \* the backend of this attempt

lifeVars == <<state, lock, requested, owner>>
workVars == <<ledger, sessionWork>>
sockVars == <<sock, bound>>
vars == <<state, lock, requested, owner, start, drain, pending, ledger,
          sessionWork, fut, task, listener, server, sock, bound, orphan,
          threads, backend>>

-----------------------------------------------------------------------------

Unlocked  == {"new", "stopped"}                    \* _UNLOCKED_STATES
Adoptable == {"starting", "running", "stopping"}   \* _ADOPTABLE_STATES

\* _TRANSITIONS, the only legal edges of the state machine.
Transitions ==
    {<<"new", "starting">>, <<"new", "stopped">>,
     <<"starting", "running">>, <<"starting", "new">>, <<"starting", "stopping">>,
     <<"running", "stopping">>, <<"stopping", "stopped">>}

Tokens  == {"start", "drain", "listener"}          \* plain ledger keys
Futures == {"bind", "listener-close", "close", "thread", "adopted", "stop"}

FutureStates == {"none", "queued", "run", "ended", "stuck"}

SessionTasks == Sessions \X {"handler", "decode"}
Handler(s) == <<s, "handler">>
Decode(s)  == <<s, "decode">>

\* A handler: run; closing (session.close or session.cancel); cancelled (asked
\* to cancel, not delivered yet); teardown (waits for the decode it cancelled);
\* unwinding (the same, after having been asked to cancel).
\* A decode: queued (no thread yet); run (its thread was started); cancelled.
TaskStates == {"none", "queued", "run", "closing", "cancelled", "teardown",
               "unwinding", "ended"}

Live(t) == task[t] \notin {"none", "ended"}

\* _sessions(): the session and decode tasks of the ledger that are not done.
LiveSessions == {t \in sessionWork : Live(t)}

\* task.cancel(): a task in teardown swallows it, which ends its wait.
AfterCancel(x) ==
    CASE x \in {"queued", "run", "closing"} -> "cancelled"
      [] x \in {"teardown", "unwinding"}    -> "ended"
      [] OTHER                              -> x

CancelTasks(ts) ==
    [t \in SessionTasks |-> IF t \in ts THEN AfterCancel(task[t]) ELSE task[t]]

\* _cancel_sessions(): a task already asked to cancel is not asked again.
CancelSessions ==
    CancelTasks({t \in LiveSessions : task[t] \notin {"cancelled", "unwinding"}})

\* Mutant: the session tasks are not part of the ledger.
Settle_IgnoreSessions(work, sessions) ==
    IF state = "stopping" /\ work = {}
    THEN state' = "stopped" /\ lock' = FALSE
    ELSE UNCHANGED <<state, lock>>

\* _settle(): STOPPING -> STOPPED, which releases the lock, once the ledger
\* (its new value is given) is empty.
Settle(work, sessions) ==
    IF state = "stopping" /\ work = {} /\ sessions = {}
    THEN state' = "stopped" /\ lock' = FALSE
    ELSE UNCHANGED <<state, lock>>

LifeTypeOK ==
    /\ state \in {"new", "starting", "running", "stopping", "stopped"}
    /\ lock \in BOOLEAN /\ requested \in BOOLEAN /\ owner \in BOOLEAN
    /\ start \in {"idle", "backend", "bind", "rebind", "unwind"}
    /\ drain \in {"off", "begin", "sessions", "grace", "listener", "backend"}

WorkTypeOK ==
    /\ pending \subseteq SessionTasks
    /\ ledger \subseteq Tokens \cup Futures
    /\ sessionWork \subseteq SessionTasks
    /\ fut \in [Futures -> FutureStates]
    /\ task \in [SessionTasks -> TaskStates]
    /\ threads \subseteq Sessions

SocketTypeOK ==
    /\ listener \in {"none", "bound", "open", "closing", "refusing", "closed"}
    /\ server \in BOOLEAN /\ orphan \in BOOLEAN
    /\ sock \in {"none", "ours", "other"}
    /\ bound \in {"none", "ours", "other"}
    /\ backend \in {"off", "up", "closing", "closed"}

TypeOK == LifeTypeOK /\ WorkTypeOK /\ SocketTypeOK

Init ==
    /\ state = "new" /\ lock = FALSE /\ requested = FALSE /\ owner = FALSE
    /\ start = "idle" /\ drain = "off" /\ pending = {}
    /\ ledger = {} /\ sessionWork = {}
    /\ fut = [k \in Futures |-> "none"]
    /\ task = [t \in SessionTasks |-> "none"]
    /\ listener = "none" /\ server = FALSE
    /\ sock \in {"none", "other"}      \* "other": a crashed server's stale file
    /\ bound = "none" /\ orphan = FALSE
    /\ threads = {} /\ backend = "off"

\* Mutant: unlink whatever socket is at the path.
AfterUnlink_Any(inode) == "none"

\* _unlink_own_socket: what is left at the path, given the recorded inode.
AfterUnlink(inode) == IF sock = inode THEN "none" ELSE sock

-----------------------------------------------------------------------------
(* The drain, begun by a start that unwinds or by the stop task.           *)

\* _drain's first step, from ledger work and futures f: the snapshot of the
\* session tasks, then _close_listener (unlink our inode; the close enters the
\* ledger before the listener leaves it).  With nothing to wait for the backend
\* close starts at once.  srv and inode are the _server and _bound_socket_id
\* slots, which a start may have filled in this very step.
BeginDrain(work, f, srv, inode) ==
    LET direct == ~srv /\ LiveSessions = {}
        closing == IF srv THEN {"listener-close"} ELSE {}
    IN  /\ pending' = LiveSessions
        /\ ledger' = (work \ (IF srv THEN {"listener"} ELSE {}))
                       \cup {"drain"} \cup closing
                       \cup (IF direct THEN {"close"} ELSE {})
        /\ fut' = [k \in Futures |->
                     IF k \in closing \/ (direct /\ k = "close") THEN "run" ELSE f[k]]
        /\ listener' = IF srv THEN "closing" ELSE listener
        /\ sock' = IF srv THEN AfterUnlink(inode) ELSE sock
        /\ server' = srv /\ bound' = inode
        /\ backend' = IF direct THEN "closing" ELSE "up"
        /\ drain' = IF LiveSessions # {} THEN "sessions"
                    ELSE IF srv THEN "listener" ELSE "backend"

\* _drain_and_close once the sessions are waited for: wait for the listener's
\* close if there is one, otherwise close the backend.
StartBackendClose ==
    /\ drain' = "backend"
    /\ fut' = [fut EXCEPT !["close"] = "run"]
    /\ ledger' = ledger \cup {"close"}
    /\ backend' = "closing"

AfterSessions ==
    IF server
    THEN drain' = "listener" /\ UNCHANGED <<fut, ledger, backend>>
    ELSE StartBackendClose

\* The finally of start(), with the ledger work and sessions that is left.
FinishStart(work, sessions) ==
    /\ start' = "idle"
    /\ IF state = "starting"
       THEN IF work = {} /\ sessions = {}
            THEN state' = "new" /\ lock' = FALSE
            ELSE state' = "stopping" /\ lock' = lock
       ELSE Settle(work, sessions)

\* _reset_attempt, on the way back to "new" only.
ResetAttempt ==
    IF state' = "new"
    THEN server' = FALSE /\ bound' = "none" /\ backend' = "off" /\ listener' = "none"
    ELSE UNCHANGED <<server, bound, backend, listener>>

\* The end of _drain, however it ends: _keep_lock_for_leftover_work cancels what
\* still runs, starts a backend close that was cut short, and holds the lock for
\* decode threads through idle().  Then the start() or the stop task ends.
EndDrain ==
    LET cut  == backend = "up"
        idle == IdleAware /\ threads # {}
        work == (ledger \ {"drain"}) \cup (IF cut THEN {"close"} ELSE {})
                                     \cup (IF idle THEN {"thread"} ELSE {})
        f == [k \in Futures |->
                IF (cut /\ k = "close") \/ (idle /\ k = "thread") THEN "run" ELSE fut[k]]
    IN  /\ drain' = "off" /\ pending' = {}
        /\ task' = CancelSessions
        /\ IF start = "unwind"
           THEN /\ ledger' = work \ {"start"}
                /\ fut' = f
                /\ FinishStart(work \ {"start"}, sessionWork)
                /\ IF state' = "new"
                   THEN ResetAttempt
                   ELSE /\ backend' = IF cut THEN "closing" ELSE backend
                        /\ UNCHANGED <<server, bound, listener>>
           ELSE /\ ledger' = work
                /\ fut' = [f EXCEPT !["stop"] = "ended"]
                /\ backend' = IF cut THEN "closing" ELSE backend
                /\ UNCHANGED <<state, lock, start, server, bound, listener>>

-----------------------------------------------------------------------------
(* start()                                                                 *)

\* start() up to backend.start(): the directory is safe and the lock is ours.
\* A refusal unwinds in the same step, back to "new", and changes nothing.
StartCall ==
    /\ state = "new"
    /\ state' = "starting" /\ lock' = TRUE
    /\ start' = "backend"
    /\ ledger' = ledger \cup {"start"}
    /\ UNCHANGED <<requested, owner, drain, pending, sessionWork, fut, task,
                   listener, server, sockVars, orphan, threads, backend>>

\* backend.start() returned and no shutdown() came: create the bind task.
BackendStarted ==
    /\ start = "backend" /\ state = "starting"
    /\ start' = "bind"
    /\ backend' = "up"
    /\ fut' = [fut EXCEPT !["bind"] = "queued"]
    /\ ledger' = ledger \cup {"bind"}
    /\ UNCHANGED <<lifeVars, drain, pending, sessionWork, task, listener, server,
                   sockVars, orphan, threads>>

\* backend.start() returned after a shutdown(): never bind, unwind instead.
BackendStartedLate ==
    /\ start = "backend" /\ state # "starting"
    /\ start' = "unwind"
    /\ BeginDrain(ledger, fut, server, bound)
    /\ UNCHANGED <<lifeVars, sessionWork, task, orphan, threads>>

\* backend.start() raised, or start() was cancelled in it.  Nothing was
\* accepted or bound, so the unwind has nothing to wait for.
BackendStartFails ==
    /\ start = "backend"
    /\ ledger' = ledger \ {"start"}
    /\ FinishStart(ledger \ {"start"}, sessionWork)
    /\ ResetAttempt
    /\ UNCHANGED <<requested, owner, drain, pending, sessionWork, fut, task,
                   sock, orphan, threads>>

\* create_server binds, replacing a socket file at the path, then suspends.
BindSocket ==
    /\ fut["bind"] = "queued"
    /\ fut' = [fut EXCEPT !["bind"] = "run"]
    /\ listener' = "bound"
    /\ sock' = "ours"
    /\ UNCHANGED <<lifeVars, start, drain, pending, workVars, task, server, bound,
                   orphan, threads, backend>>

BindFails ==
    /\ fut["bind"] = "queued"
    /\ fut' = [fut EXCEPT !["bind"] = "ended"]
    /\ UNCHANGED <<lifeVars, start, drain, pending, workVars, task, listener,
                   server, sockVars, orphan, threads, backend>>

\* _bound resumes: record the inode at the path; the bind task is done.
BindDone ==
    /\ fut["bind"] = "run"
    /\ fut' = [fut EXCEPT !["bind"] = "ended"]
    /\ listener' = "open"
    /\ bound' = sock
    /\ UNCHANGED <<lifeVars, start, drain, pending, workVars, task, server, sock,
                   orphan, threads, backend>>

BindOver == fut["bind"] \in {"none", "ended"}

\* _bind returns and no shutdown() came: adopt the listener, which records the
\* inode again, and run.  The done callback of the bind has run by then.
StartSucceeds ==
    /\ start = "bind" /\ fut["bind"] = "none" /\ listener = "open"
    /\ state = "starting"
    /\ server' = TRUE /\ bound' = sock
    /\ state' = "running"
    /\ ledger' = (ledger \cup {"listener"}) \ {"start"}
    /\ start' = "idle"
    /\ UNCHANGED <<lock, requested, owner, drain, pending, sessionWork, fut, task,
                   listener, sock, orphan, threads, backend>>

\* Mutant: a start cancelled during the bind drops the listener it bound.
StartUnwinds_Dropped ==
    /\ start \in {"bind", "rebind"} /\ BindOver
    /\ start' = "unwind"
    /\ BeginDrain(ledger, fut, server, bound)
    /\ UNCHANGED <<lifeVars, sessionWork, task, orphan, threads>>

\* The bind is over but this start() will not run: the bind failed, a shutdown()
\* came, or start() was cancelled.  A bound listener is adopted first.
StartUnwinds ==
    /\ start \in {"bind", "rebind"} /\ BindOver
    /\ start' = "unwind"
    /\ IF listener = "open"
       THEN BeginDrain(ledger \cup {"listener"}, fut, TRUE, sock)
       ELSE BeginDrain(ledger, fut, server, bound)
    /\ UNCHANGED <<lifeVars, sessionWork, task, orphan, threads>>

\* start() is cancelled during the bind: it keeps waiting for the bind.
CancelBind ==
    /\ start = "bind" /\ ~BindOver
    /\ start' = "rebind"
    /\ UNCHANGED <<lifeVars, drain, pending, workVars, fut, task, listener, server,
                   sockVars, orphan, threads, backend>>

\* start() is cancelled again: it gives up on the bind, whose own cleanup will
\* close the listener when it exists.
AbandonBind ==
    /\ start = "rebind" /\ ~BindOver
    /\ start' = "unwind"
    /\ orphan' = TRUE
    /\ BeginDrain(ledger, fut, server, bound)
    /\ UNCHANGED <<lifeVars, sessionWork, task, threads>>

-----------------------------------------------------------------------------
(* The steps of the drain.  Server.close() schedules the close of the      *)
(* listening socket before the drain suspends, so the drain never resumes  *)
(* while the listener is still "closing".                                  *)

\* The stop task's first step.
DrainBegin ==
    /\ drain = "begin"
    /\ BeginDrain(ledger, [fut EXCEPT !["stop"] = "run"], server, bound)
    /\ UNCHANGED <<lifeVars, start, sessionWork, task, orphan, threads>>

DrainSessionsDone ==
    /\ drain = "sessions" /\ listener # "closing"
    /\ \A t \in pending : ~Live(t)
    /\ AfterSessions
    /\ UNCHANGED <<lifeVars, start, pending, sessionWork, task, listener, server,
                   sockVars, orphan, threads>>

\* Mutant: the drain timeout cancels nothing.
DrainTimeout_NoCancel ==
    /\ drain = "sessions" /\ listener # "closing"
    /\ \E t \in pending : Live(t)
    /\ drain' = "grace"
    /\ UNCHANGED <<lifeVars, start, pending, workVars, fut, task, listener, server,
                   sockVars, orphan, threads, backend>>

\* The drain timeout: cancel what still runs, then a bounded grace.
DrainTimeout ==
    /\ drain = "sessions" /\ listener # "closing"
    /\ \E t \in pending : Live(t)
    /\ drain' = "grace"
    /\ task' = CancelTasks({t \in pending : Live(t)})
    /\ UNCHANGED <<lifeVars, start, pending, workVars, fut, listener, server,
                   sockVars, orphan, threads, backend>>

DrainGraceOver ==
    /\ drain = "grace"
    /\ AfterSessions
    /\ UNCHANGED <<lifeVars, start, pending, sessionWork, task, listener, server,
                   sockVars, orphan, threads>>

\* Mutant: the wait for the listener's close has no timeout.
DrainListenerOver_Unbounded ==
    /\ drain = "listener" /\ listener = "closed"
    /\ StartBackendClose
    /\ UNCHANGED <<lifeVars, start, pending, sessionWork, task, listener, server,
                   sockVars, orphan, threads>>

DrainListenerOver ==
    /\ drain = "listener" /\ listener # "closing"
    /\ StartBackendClose
    /\ UNCHANGED <<lifeVars, start, pending, sessionWork, task, listener, server,
                   sockVars, orphan, threads>>

DrainBackendOver ==
    /\ drain = "backend"
    /\ EndDrain
    /\ UNCHANGED <<requested, owner, sessionWork, sock, orphan, threads>>

\* start() is cancelled while it unwinds, which cuts its drain short.
DrainCancelled ==
    /\ start = "unwind" /\ drain \in {"sessions", "grace", "listener"}
    /\ listener # "closing"
    /\ EndDrain
    /\ UNCHANGED <<requested, owner, sessionWork, sock, orphan, threads>>

-----------------------------------------------------------------------------
(* Futures: their ends, and _retire, the done callback of each.            *)

\* websockets' close task runs: the socket is closed, handshakes are refused.
ListenerRefuse ==
    /\ listener = "closing"
    /\ listener' = "refusing"
    /\ UNCHANGED <<lifeVars, start, drain, pending, workVars, fut, task, server,
                   sockVars, orphan, threads, backend>>

\* wait_closed returns once every connection handler has ended.
ListenerClosed ==
    /\ listener = "refusing"
    /\ \A s \in Sessions : ~Live(Handler(s))
    /\ listener' = "closed"
    /\ fut' = [fut EXCEPT !["listener-close"] = "ended"]
    /\ UNCHANGED <<lifeVars, start, drain, pending, workVars, task, server,
                   sockVars, orphan, threads, backend>>

\* backend.close() returns or raises.
CloseEnds ==
    /\ fut["close"] = "run"
    /\ fut' = [fut EXCEPT !["close"] = "ended"]
    /\ backend' = "closed"
    /\ UNCHANGED <<lifeVars, start, drain, pending, workVars, task, listener,
                   server, sockVars, orphan, threads>>

\* The idle() future completes when no decode thread is in flight.
IdleDone ==
    /\ fut["thread"] = "run" /\ threads = {}
    /\ fut' = [fut EXCEPT !["thread"] = "ended"]
    /\ UNCHANGED <<lifeVars, start, drain, pending, workVars, task, listener,
                   server, sockVars, orphan, threads, backend>>

\* adopt(): an embedder's step that touches the server or its backend.
Adopt ==
    /\ state \in Adoptable /\ fut["adopted"] = "none"
    /\ fut' = [fut EXCEPT !["adopted"] = "run"]
    /\ ledger' = ledger \cup {"adopted"}
    /\ UNCHANGED <<lifeVars, start, drain, pending, sessionWork, task, listener,
                   server, sockVars, orphan, threads, backend>>

AdoptedEnds ==
    /\ fut["adopted"] = "run"
    /\ fut' = [fut EXCEPT !["adopted"] = "ended"]
    /\ UNCHANGED <<lifeVars, start, drain, pending, workVars, task, listener,
                   server, sockVars, orphan, threads, backend>>

\* _retire of a future without a cleanup: drop its entry and settle.
Retire(k) ==
    /\ fut[k] = "ended"
    /\ ~(k = "bind" /\ orphan)
    /\ fut' = [fut EXCEPT ![k] = "none"]
    /\ ledger' = ledger \ {k}
    /\ Settle(ledger \ {k}, sessionWork)
    /\ UNCHANGED <<requested, owner, start, drain, pending, sessionWork, task,
                   listener, server, sockVars, orphan, threads, backend>>

\* Mutant: the bind leaves the ledger and its listener's close never enters it.
RetireOrphan_NoHandOff ==
    /\ orphan /\ fut["bind"] = "ended" /\ listener = "open"
    /\ orphan' = FALSE
    /\ bound' = sock /\ sock' = "none"
    /\ listener' = "closing"
    /\ fut' = [fut EXCEPT !["bind"] = "none", !["listener-close"] = "run"]
    /\ ledger' = ledger \ {"bind"}
    /\ Settle(ledger \ {"bind"}, sessionWork)
    /\ UNCHANGED <<requested, owner, start, drain, pending, sessionWork, task,
                   server, threads, backend>>

\* _retire of an abandoned bind that bound: _close_orphan_listener records the
\* inode, unlinks it and enters the listener's close before the bind leaves.
RetireOrphan ==
    /\ orphan /\ fut["bind"] = "ended" /\ listener = "open"
    /\ orphan' = FALSE
    /\ bound' = sock /\ sock' = "none"
    /\ listener' = "closing"
    /\ fut' = [fut EXCEPT !["bind"] = "none", !["listener-close"] = "run"]
    /\ ledger' = (ledger \cup {"listener-close"}) \ {"bind"}
    /\ UNCHANGED <<lifeVars, start, drain, pending, sessionWork, task, server,
                   threads, backend>>

\* _retire of an abandoned bind that failed: there is nothing to close.
RetireFailedOrphan ==
    /\ orphan /\ fut["bind"] = "ended" /\ listener # "open"
    /\ orphan' = FALSE
    /\ fut' = [fut EXCEPT !["bind"] = "none"]
    /\ ledger' = ledger \ {"bind"}
    /\ Settle(ledger \ {"bind"}, sessionWork)
    /\ UNCHANGED <<requested, owner, start, drain, pending, sessionWork, task,
                   listener, server, sockVars, threads, backend>>

\* The cleanup raises: the entry stays in the ledger for good.
OrphanCleanupFails ==
    /\ CleanupMayFail
    /\ orphan /\ fut["bind"] = "ended" /\ listener = "open"
    /\ orphan' = FALSE
    /\ bound' = sock
    /\ fut' = [fut EXCEPT !["bind"] = "stuck"]
    /\ UNCHANGED <<lifeVars, start, drain, pending, workVars, task, listener,
                   server, sock, threads, backend>>

\* Mutant: the end of a session does not settle the state again.
RetireTask_NoSettle(t) ==
    /\ task[t] = "ended"
    /\ task' = [task EXCEPT ![t] = "none"]
    /\ pending' = pending \ {t}
    /\ sessionWork' = sessionWork \ {t}
    /\ UNCHANGED <<lifeVars, start, drain, ledger, fut, listener, server,
                   sockVars, orphan, threads, backend>>

\* _retire of a session or decode task.
RetireTask(t) ==
    /\ task[t] = "ended"
    /\ task' = [task EXCEPT ![t] = "none"]
    /\ pending' = pending \ {t}
    /\ sessionWork' = sessionWork \ {t}
    /\ Settle(ledger, sessionWork \ {t})
    /\ UNCHANGED <<requested, owner, start, drain, ledger, fut, listener, server,
                   sockVars, orphan, threads, backend>>

-----------------------------------------------------------------------------
(* Sessions, as far as the lifecycle sees them.                            *)

\* _handle_connection begins.  A handshake that passed its checks before the
\* listener's close task ran becomes a session after the drain's snapshot.
\* A handler needs more loop turns than the bind needs to be adopted.
Accept(s) ==
    /\ server /\ listener \in {"open", "closing"}
    /\ task[Handler(s)] = "none" /\ task[Decode(s)] = "none" /\ s \notin threads
    /\ task' = [task EXCEPT ![Handler(s)] = "run"]
    /\ sessionWork' = sessionWork \cup {Handler(s)}
    /\ UNCHANGED <<lifeVars, start, drain, pending, ledger, fut, listener, server,
                   sockVars, orphan, threads, backend>>

\* Mutant: the decode task is not tracked.
Commit_Untracked(s) ==
    /\ task[Handler(s)] = "run" /\ task[Decode(s)] = "none"
    /\ task' = [task EXCEPT ![Decode(s)] = "queued"]
    /\ UNCHANGED <<lifeVars, start, drain, pending, workVars, fut, listener, server,
                   sockVars, orphan, threads, backend>>

\* _on_commit creates the decode task; it does not look at the shutdown event.
Commit(s) ==
    /\ task[Handler(s)] = "run" /\ task[Decode(s)] = "none"
    /\ task' = [task EXCEPT ![Decode(s)] = "queued"]
    /\ sessionWork' = sessionWork \cup {Decode(s)}
    /\ UNCHANGED <<lifeVars, start, drain, pending, ledger, fut, listener, server,
                   sockVars, orphan, threads, backend>>

\* The backend starts the daemon thread of a decode.
DecodeLaunch(s) ==
    /\ task[Decode(s)] = "queued"
    /\ task' = [task EXCEPT ![Decode(s)] = "run"]
    /\ threads' = threads \cup {s}
    /\ UNCHANGED <<lifeVars, start, drain, pending, workVars, fut, listener,
                   server, sockVars, orphan, backend>>

\* A daemon thread ends; nothing can cancel it.
ThreadEnds(s) ==
    /\ s \in threads
    /\ threads' = threads \ {s}
    /\ UNCHANGED <<lifeVars, start, drain, pending, workVars, fut, task, listener,
                   server, sockVars, orphan, backend>>

\* _run_decode ends: with its thread's result, before it had one, or cancelled,
\* in which case its thread runs on.
DecodeEnds(s) ==
    /\ \/ task[Decode(s)] \in {"queued", "cancelled"}
       \/ task[Decode(s)] = "run" /\ s \notin threads
    /\ task' = [task EXCEPT ![Decode(s)] = "ended"]
    /\ UNCHANGED <<lifeVars, start, drain, pending, workVars, fut, listener,
                   server, sockVars, orphan, threads, backend>>

\* _on_close waits for the decode and cancels it on timeout; _on_cancel cancels
\* it at once.
ClientLeaves(s) ==
    /\ task[Handler(s)] \in {"run", "closing"}
    /\ \/ /\ task[Handler(s)] = "run"
          /\ task' = [task EXCEPT ![Handler(s)] = "closing"]
       \/ /\ Live(Decode(s))
          /\ task' = [task EXCEPT ![Handler(s)] = "closing", ![Decode(s)] = "cancelled"]
    /\ UNCHANGED <<lifeVars, start, drain, pending, workVars, fut, listener,
                   server, sockVars, orphan, threads, backend>>

\* The handler leaves its receive loop (disconnect, 1001 from the listener's
\* close, cancellation): _teardown_session cancels a decode in flight and waits.
HandlerStops(s) ==
    /\ task[Handler(s)] \in {"run", "cancelled"}
    /\ task' = IF Live(Decode(s))
               THEN [task EXCEPT
                       ![Decode(s)] = "cancelled",
                       ![Handler(s)] = IF @ = "run" THEN "teardown" ELSE "unwinding"]
               ELSE [task EXCEPT ![Handler(s)] = "ended"]
    /\ UNCHANGED <<lifeVars, start, drain, pending, workVars, fut, listener,
                   server, sockVars, orphan, threads, backend>>

HandlerEnds(s) ==
    /\ task[Handler(s)] \in {"closing", "teardown", "unwinding"}
    /\ ~Live(Decode(s))
    /\ task' = [task EXCEPT ![Handler(s)] = "ended"]
    /\ UNCHANGED <<lifeVars, start, drain, pending, workVars, fut, listener,
                   server, sockVars, orphan, threads, backend>>

-----------------------------------------------------------------------------
(* shutdown()                                                              *)

ShutdownNew ==
    /\ state = "new"
    /\ state' = "stopped" /\ requested' = TRUE /\ lock' = FALSE
    /\ UNCHANGED <<owner, start, drain, pending, workVars, fut, task, listener,
                   server, sockVars, orphan, threads, backend>>

ShutdownStarting ==
    /\ state = "starting"
    /\ state' = "stopping" /\ requested' = TRUE
    /\ UNCHANGED <<lock, owner, start, drain, pending, workVars, fut, task,
                   listener, server, sockVars, orphan, threads, backend>>

\* The drain is the server's own task; the caller waits for it.
ShutdownRunning ==
    /\ state = "running"
    /\ state' = "stopping" /\ requested' = TRUE /\ owner' = TRUE
    /\ fut' = [fut EXCEPT !["stop"] = "queued"]
    /\ ledger' = ledger \cup {"stop"}
    /\ drain' = "begin"
    /\ UNCHANGED <<lock, start, pending, sessionWork, task, listener, server,
                   sockVars, orphan, threads, backend>>

\* A later call only waits for what is under way.
ShutdownAgain ==
    /\ state \in {"stopping", "stopped"} /\ ~requested
    /\ requested' = TRUE
    /\ UNCHANGED <<state, lock, owner, start, drain, pending, workVars, fut, task,
                   listener, server, sockVars, orphan, threads, backend>>

\* The first caller is cancelled: hurry the drain, never abandon it.
CancelShutdown ==
    /\ owner /\ fut["stop"] \in {"queued", "run"}
    /\ owner' = FALSE
    /\ task' = CancelSessions
    /\ UNCHANGED <<state, lock, requested, start, drain, pending, workVars, fut,
                   listener, server, sockVars, orphan, threads, backend>>

\* A process that ignores the lock replaces the socket file at our path.
OutsiderReplaces ==
    /\ state \in OutsiderStates /\ sock = "ours"
    /\ sock' = "other"
    /\ UNCHANGED <<lifeVars, start, drain, pending, workVars, fut, task, listener,
                   server, bound, orphan, threads, backend>>

-----------------------------------------------------------------------------

StartNext ==
    \/ StartCall \/ BackendStarted \/ BackendStartedLate \/ BackendStartFails
    \/ BindSocket \/ BindFails \/ BindDone
    \/ StartSucceeds \/ StartUnwinds \/ CancelBind \/ AbandonBind

DrainNext ==
    \/ DrainBegin \/ DrainSessionsDone \/ DrainTimeout \/ DrainGraceOver
    \/ DrainListenerOver \/ DrainBackendOver \/ DrainCancelled

FutureNext ==
    \/ ListenerRefuse \/ ListenerClosed \/ CloseEnds \/ IdleDone
    \/ Adopt \/ AdoptedEnds
    \/ \E k \in Futures : Retire(k)
    \/ RetireOrphan \/ RetireFailedOrphan \/ OrphanCleanupFails
    \/ \E t \in SessionTasks : RetireTask(t)

SessionNext ==
    \E s \in Sessions :
        \/ Accept(s) \/ Commit(s) \/ DecodeLaunch(s) \/ ThreadEnds(s)
        \/ DecodeEnds(s) \/ ClientLeaves(s) \/ HandlerStops(s) \/ HandlerEnds(s)

ShutdownNext ==
    \/ ShutdownNew \/ ShutdownStarting \/ ShutdownRunning \/ ShutdownAgain
    \/ CancelShutdown

Next == StartNext \/ DrainNext \/ FutureNext \/ SessionNext \/ ShutdownNext
        \/ OutsiderReplaces

Spec == Init /\ [][Next]_vars

\* What the server itself guarantees: its loop runs ready callbacks and timers.
OwnFairness ==
    /\ WF_vars(DrainBegin \/ DrainSessionsDone \/ DrainTimeout \/ DrainGraceOver
               \/ DrainListenerOver \/ DrainBackendOver)
    /\ WF_vars(ListenerRefuse)
    /\ \A k \in Futures : WF_vars(Retire(k))
    /\ WF_vars(RetireOrphan \/ RetireFailedOrphan)
    /\ \A t \in SessionTasks : WF_vars(RetireTask(t))
    /\ WF_vars(StartSucceeds \/ StartUnwinds)

\* What it relies on: backends, threads and adopted steps end, a cancelled task
\* unwinds, and a connection ends once the listener's close has told it to.
OtherFairness ==
    /\ WF_vars(BackendStarted \/ BackendStartedLate \/ BackendStartFails)
    /\ WF_vars(BindSocket \/ BindFails) /\ WF_vars(BindDone)
    /\ WF_vars(ListenerClosed) /\ WF_vars(CloseEnds) /\ WF_vars(IdleDone)
    /\ WF_vars(AdoptedEnds)
    /\ \A s \in Sessions :
         /\ WF_vars(ThreadEnds(s)) /\ WF_vars(DecodeEnds(s)) /\ WF_vars(HandlerEnds(s))
         /\ WF_vars(listener # "open" /\ HandlerStops(s))

OwnFairSpec == Spec /\ OwnFairness
FairSpec    == Spec /\ OwnFairness /\ OtherFairness

-----------------------------------------------------------------------------
(* Properties                                                              *)

\* Something of this server can still touch the socket or the backend.
Busy ==
    \/ start # "idle" \/ drain # "off"
    \/ \E k \in Futures : fut[k] \in {"queued", "run"}
    \/ \E t \in SessionTasks : Live(t)
    \/ listener \in {"bound", "open", "closing", "refusing"}
    \/ IdleAware /\ threads # {}

\* The single-server lock outlives everything that can still touch the socket or
\* the backend: a start, a drain, a bind, the listening socket, a session or
\* decode task, a backend close, an adopted step and, with the idle() hook, a
\* decode thread whose task was cancelled (class docstring, invariants 1 to 3).
LockCoversWork == Busy => lock

\* The lifecycle implements the contract of ServerContract: the lock is taken and
\* released exactly where the contract allows it, around everything Busy means.
Contract == INSTANCE ServerContract WITH phase <- state, held <- lock, busy <- Busy
ImplementsContract == Contract!ContractSpec

\* _transition is only asked for the edges of _TRANSITIONS, and for "new" or
\* "stopped" only with an empty ledger: neither RuntimeError of _transition can
\* fire, whatever interleaving of cancels, timeouts and late callbacks.
LegalTransitions ==
    [][state' # state =>
         /\ <<state, state'>> \in Transitions
         /\ state' \in Unlocked => ledger' = {} /\ sessionWork' = {}]_vars

\* A server that gave the lock back left nothing behind: no listening socket, no
\* socket file of its own, and no backend that was started and not closed
\* (invariant 4: a started backend is closed on every exit from start()).
CleanWhenUnlocked ==
    state \in Unlocked =>
        /\ listener \in {"none", "closed"}
        /\ sock # "ours"
        /\ backend \notin {"up", "closing"}

\* A shutdown() that finds no bind begun is never followed by one, so nobody is
\* left with a listener that no drain will close (_check_still_starting).
NoBindAfterShutdown ==
    [][requested /\ fut["bind"] = "none" => fut'["bind"] = "none"]_vars

\* A socket file somebody else put at our path is never removed, except by the
\* bind that replaces it (_unlink_own_socket).
NeverUnlinkOthers == [][sock = "other" => sock' # "none"]_vars

\* The drain closes the backend only once each session and decode task it waited
\* for is over or was asked to cancel (_drain_and_close).
SnapshotQuietAtClose ==
    drain = "backend" => \A t \in pending : task[t] \notin {"queued", "run", "closing"}

\* shutdown() "force-cancels anything still running [...] then close()s the
\* backend" (its docstring): while the stop task waits for the backend close, no
\* decode is left that neither it nor its handler was asked to cancel.
AllQuietAtClose ==
    drain = "backend" /\ fut["stop"] = "run" =>
        \A s \in Sessions :
            ~ /\ task[Decode(s)] \in {"queued", "run"}
              /\ task[Handler(s)] \in {"run", "closing"}

\* shutdown() of a running server returns, whatever its sessions, its threads and
\* its backend do: every wait of the drain is bounded.
ShutdownReturns == fut["stop"] \in {"queued", "run"} ~> fut["stop"] = "none"

\* After a shutdown() the server always reaches "stopped" and frees the lock, as
\* long as the work it waits for ends and no cleanup of an orphan bind raised.
EventuallyStopped ==
    OtherFairness =>
        (requested ~> (state = "stopped" /\ ~lock) \/ fut["bind"] = "stuck")

-----------------------------------------------------------------------------
(* The inductive invariant behind LockCoversWork, LegalTransitions and the *)
(* contract: the ledger holds an entry for everything that is under way.   *)

\* The lock is held exactly in the states that may have work.
LockByState == lock <=> state \in Adoptable

\* Nothing is in the ledger where the lock is free.
LedgerByState == state \in Unlocked => ledger = {} /\ sessionWork = {}

\* Each step, future and task is in the ledger from its creation to its _retire.
LedgerExact ==
    /\ "start" \in ledger <=> start # "idle"
    /\ "drain" \in ledger <=> drain \notin {"off", "begin"}
    /\ \A k \in Futures : k \in ledger <=> fut[k] # "none"
    /\ \A t \in SessionTasks : t \in sessionWork <=> task[t] # "none"

\* Who runs the drain, and when there is none yet.
DrainRunner ==
    /\ state = "starting" => start # "idle"
    /\ state = "running" =>
         start = "idle" /\ drain = "off" /\ server /\ listener = "open"
    /\ start = "unwind" => drain \notin {"off", "begin"}
    /\ drain # "off" /\ start # "unwind" =>
         /\ start = "idle" /\ state = "stopping"
         /\ fut["stop"] = IF drain = "begin" THEN "queued" ELSE "run"

\* Until a listener is adopted an attempt has no session, thread or drain.
FreshStart ==
    state = "new" \/ start \in {"backend", "bind", "rebind"} =>
        /\ ~server /\ ~orphan /\ drain = "off" /\ fut["bind"] # "stuck"
        /\ \A t \in SessionTasks : task[t] = "none"
        /\ IdleAware => threads = {}

\* The listening socket is owned by the bind, by its adopter or by its close.
ListenerOwned ==
    /\ fut["bind"] \in {"queued", "run"} => orphan \/ start \in {"bind", "rebind"}
    /\ orphan => ~server /\ fut["bind"] \in {"queued", "run", "ended"}
    /\ state = "new" \/ start = "backend" \/ fut["bind"] = "queued" => listener = "none"
    /\ listener = "bound" <=> fut["bind"] = "run"
    /\ listener = "open" =>
         \/ orphan /\ fut["bind"] = "ended"
         \/ fut["bind"] = "stuck" /\ ~server
         \/ start \in {"bind", "rebind"}
         \/ server /\ "listener" \in ledger /\ drain \in {"off", "begin"}
                   /\ (state = "running" \/ drain = "begin")
    /\ listener \in {"closing", "refusing"} => fut["listener-close"] = "run"
    /\ server /\ drain \in {"grace", "backend"} => listener # "closing"
    /\ server /\ listener = "closing" => drain # "off"

\* Once the drain is over nothing can start a decode thread, and one that still
\* runs is watched by the idle() future.
ThreadsWatched ==
    start = "idle" /\ drain = "off" /\ state # "running" =>
        /\ \A s \in Sessions : /\ task[Handler(s)] \notin {"run", "closing"}
                               /\ task[Decode(s)] \notin {"queued", "run"}
        /\ IdleAware /\ threads # {} => fut["thread"] = "run"

IInv ==
    /\ TypeOK /\ LockByState /\ LedgerByState /\ LedgerExact
    /\ DrainRunner /\ FreshStart /\ ListenerOwned /\ ThreadsWatched

=============================================================================
