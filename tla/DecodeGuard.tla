----------------------------- MODULE DecodeGuard -----------------------------
(***************************************************************************)
(* The decode guard every backend shares (backends/_thread_util.py) and    *)
(* the streams of the backends around it.  A stream is one utterance: its  *)
(* decode task queues for the asyncio _decode_lock, then awaits a daemon   *)
(* thread which queues for the _thread_lock.  Cancelling the task frees    *)
(* the first lock at once; the thread goes on and keeps the second.  The   *)
(* in-flight count lives across both, and close() and idle() read it.      *)
(*                                                                         *)
(* The server's side of the contract is what Lifecycle shows of it: it     *)
(* closes a backend after asking the decodes it knows of to cancel, and    *)
(* starts one again only after idle() told it that no thread is left.      *)
(***************************************************************************)
EXTENDS Naturals, Sequences, FiniteSets

CONSTANTS
    Streams,        \* the utterances of this backend's life
    ChecksCancel,   \* does the decode look at the cancel event? (kyutai)
    TempFiles       \* does the decode read a temporary file? (parakeet, nemotron)

ASSUME GuardAssumption ==
    /\ IsFiniteSet(Streams)
    /\ ChecksCancel \in BOOLEAN
    /\ TempFiles \in BOOLEAN

VARIABLES
    task,       \* the decode task of each stream
    asked,      \* streams whose task was asked to cancel
    cancelled,  \* streams whose cancel() ran
    holder,     \* the holder of _decode_lock, as a set
    queue,      \* the tasks waiting for it, in order
    thread,     \* the daemon thread of each stream
    outcome,    \* what the thread left in the future
    inflight,   \* _inflight_count
    phase,      \* of the backend: start() and close()
    idle,       \* the idle() future
    dir         \* does the private temporary directory exist?

taskVars    == <<task, asked, cancelled, holder, queue>>
threadVars  == <<thread, outcome, inflight>>
backendVars == <<phase, idle, dir>>
vars == <<task, asked, cancelled, holder, queue, thread, outcome, inflight,
          phase, idle, dir>>

-----------------------------------------------------------------------------

\* A thread: started (has not got _thread_lock); device (has it); leaving (gave
\* it back, or never had it); over (counted down and its result is posted).
ThreadStates == {"none", "started", "device", "leaving", "over"}

Waiting == {s \in Streams : task[s] \in {"queued", "decoding"}}
LiveThreads == {s \in Streams : thread[s] \in {"started", "device", "leaving"}}
OnDevice == {s \in Streams : thread[s] = "device"}

TypeOK ==
    /\ task \in [Streams -> {"new", "queued", "decoding", "answered", "failed", "cancelled"}]
    /\ asked \subseteq Streams /\ cancelled \subseteq Streams
    /\ holder \subseteq Streams
    /\ queue \in Seq(Streams)
    /\ thread \in [Streams -> ThreadStates]
    /\ outcome \in [Streams -> {"none", "text", "error", "skipped"}]
    /\ inflight \in Nat
    /\ phase \in {"down", "up", "draining", "drained", "expired", "closed"}
    /\ idle \in {"none", "waiting", "done"}
    /\ dir \in BOOLEAN

Init ==
    /\ task = [s \in Streams |-> "new"]
    /\ asked = {} /\ cancelled = {} /\ holder = {} /\ queue = <<>>
    /\ thread = [s \in Streams |-> "none"]
    /\ outcome = [s \in Streams |-> "none"]
    /\ inflight = 0
    /\ phase = "down" /\ idle = "none"
    /\ dir = TempFiles

-----------------------------------------------------------------------------
(* Streams: end() under _decode_lock, and cancellation.                    *)

\* _run_guarded_decode: count, then start the thread.  If it cannot be started
\* the count is undone and the exception leaves end(), which frees the lock.
Launch(s) ==
    \/ /\ task' = [task EXCEPT ![s] = "decoding"]
       /\ holder' = {s}
       /\ thread' = [thread EXCEPT ![s] = "started"]
       /\ inflight' = inflight + 1
    \/ /\ task' = [task EXCEPT ![s] = "failed"]
       /\ UNCHANGED <<holder, thread, inflight>>

LockFree == holder = {} /\ queue = <<>>

\* The decode task opens its stream, feeds it and calls end(), all without
\* suspending unless somebody has or awaits _decode_lock.
Begin(s) ==
    /\ phase = "up" /\ task[s] = "new"
    /\ IF LockFree
       THEN Launch(s) /\ UNCHANGED queue
       ELSE /\ task' = [task EXCEPT ![s] = "queued"]
            /\ queue' = Append(queue, s)
            /\ UNCHANGED <<holder, thread, inflight>>
    /\ UNCHANGED <<asked, cancelled, outcome, backendVars>>

\* The first waiter gets the lock.  (cancel() of a stream is always followed by
\* a request to cancel its task, so end() never finds _cancelled set here.)
Acquire(s) ==
    /\ holder = {} /\ queue # <<>> /\ s = Head(queue) /\ s \notin asked
    /\ queue' = Tail(queue)
    /\ Launch(s)
    /\ UNCHANGED <<asked, cancelled, outcome, backendVars>>

\* Somebody cancels the decode task; session.cancel calls cancel() of the stream
\* first, in the same step.
AskCancel(s) ==
    /\ s \in Waiting \ asked
    /\ asked' = asked \cup {s}
    /\ cancelled' \in {cancelled, cancelled \cup {s}}
    /\ UNCHANGED <<task, holder, queue, threadVars, backendVars>>

\* The waiters without s.
Without(s) ==
    LET i == CHOOSE j \in 1 .. Len(queue) : queue[j] = s
    IN  SubSeq(queue, 1, i - 1) \o SubSeq(queue, i + 1, Len(queue))

\* Mutant: the coroutine, not the thread, counts down.
Cancelled_CountsDown(s) ==
    /\ s \in Waiting \cap asked
    /\ task' = [task EXCEPT ![s] = "cancelled"]
    /\ cancelled' = cancelled \cup {s}
    /\ IF task[s] = "queued"
       THEN queue' = Without(s) /\ UNCHANGED <<holder, inflight>>
       ELSE holder' = {} /\ inflight' = inflight - 1 /\ UNCHANGED queue
    /\ UNCHANGED <<asked, thread, outcome, backendVars>>

\* Mutant: a cancelled waiter stays in the queue.
Cancelled_StaysQueued(s) ==
    /\ s \in Waiting \cap asked
    /\ task' = [task EXCEPT ![s] = "cancelled"]
    /\ cancelled' = cancelled \cup {s}
    /\ holder' = IF task[s] = "queued" THEN holder ELSE {}
    /\ UNCHANGED <<queue, asked, threadVars, backendVars>>

\* Mutant: a cancelled decode never frees _decode_lock.
Cancelled_KeepsLock(s) ==
    /\ s \in Waiting \cap asked
    /\ task' = [task EXCEPT ![s] = "cancelled"]
    /\ cancelled' = cancelled \cup {s}
    /\ queue' = IF task[s] = "queued" THEN Without(s) ELSE queue
    /\ UNCHANGED <<holder, asked, threadVars, backendVars>>

\* CancelledError unwinds end(): the lock is free at once, the thread goes on.
\* _run_decode calls cancel() of the stream.
Cancelled(s) ==
    /\ s \in Waiting \cap asked
    /\ task' = [task EXCEPT ![s] = "cancelled"]
    /\ cancelled' = cancelled \cup {s}
    /\ IF task[s] = "queued"
       THEN queue' = Without(s) /\ UNCHANGED holder
       ELSE holder' = {} /\ UNCHANGED queue
    /\ UNCHANGED <<asked, threadVars, backendVars>>

\* The future is done and the task resumes: end() returns or raises.
Resume(s) ==
    /\ task[s] = "decoding" /\ s \notin asked /\ thread[s] = "over"
    /\ task' = [task EXCEPT ![s] = IF outcome[s] = "error" THEN "failed" ELSE "answered"]
    /\ holder' = {}
    /\ UNCHANGED <<asked, cancelled, queue, threadVars, backendVars>>

-----------------------------------------------------------------------------
(* Daemon threads: _decode_sync.                                           *)

\* The temporary file cannot be written.
ThreadCannotWrite(s) ==
    /\ TempFiles /\ thread[s] = "started"
    /\ thread' = [thread EXCEPT ![s] = "leaving"]
    /\ outcome' = [outcome EXCEPT ![s] = "error"]
    /\ UNCHANGED <<taskVars, inflight, backendVars>>

\* Mutant: no _thread_lock around the model.
ThreadEnters_NoLock(s) ==
    /\ thread[s] = "started"
    /\ thread' = [thread EXCEPT ![s] = "device"]
    /\ UNCHANGED <<taskVars, outcome, inflight, backendVars>>

\* The thread gets _thread_lock.  A kyutai stream that was cancelled by then
\* leaves at once with an empty text.
ThreadEnters(s) ==
    /\ thread[s] = "started" /\ OnDevice = {}
    /\ IF ChecksCancel /\ s \in cancelled
       THEN /\ thread' = [thread EXCEPT ![s] = "leaving"]
            /\ outcome' = [outcome EXCEPT ![s] = "skipped"]
       ELSE /\ thread' = [thread EXCEPT ![s] = "device"]
            /\ UNCHANGED outcome
    /\ UNCHANGED <<taskVars, inflight, backendVars>>

\* The model returns or raises, and the lock is free.
ThreadLeaves(s) ==
    /\ thread[s] = "device"
    /\ thread' = [thread EXCEPT ![s] = "leaving"]
    /\ \E r \in {"text", "error"} : outcome' = [outcome EXCEPT ![s] = r]
    /\ UNCHANGED <<taskVars, inflight, backendVars>>

\* The finally of _decode_sync counts down, then _runner posts the outcome.
ThreadEnds(s) ==
    /\ thread[s] = "leaving"
    /\ thread' = [thread EXCEPT ![s] = "over"]
    /\ inflight' = inflight - 1
    /\ UNCHANGED <<taskVars, outcome, backendVars>>

-----------------------------------------------------------------------------
(* The backend: start(), abort(), close() and idle().                      *)

\* start(), also a retry after abort() and the reuse by the next server, which
\* starts once idle() has told the first one that no thread is left.
BackendStart ==
    /\ phase = "down" \/ (phase = "closed" /\ idle = "done")
    /\ phase' = "up" /\ idle' = "none"
    /\ dir' = TempFiles
    /\ UNCHANGED <<taskVars, threadVars>>

\* start() raises (a missing extra); the server's unwind calls abort().
BackendStartFails ==
    /\ phase = "down"
    /\ dir' = FALSE
    /\ UNCHANGED <<phase, idle, taskVars, threadVars>>

\* The server closes the backend: every decode it knows of was asked to cancel.
Close ==
    /\ phase = "up" /\ Waiting \subseteq asked
    /\ phase' = "draining"
    /\ UNCHANGED <<idle, dir, taskVars, threadVars>>

\* _drain_inflight: the executor thread sees the count at zero, ...
CloseDrained ==
    /\ phase = "draining" /\ inflight = 0
    /\ phase' = "drained"
    /\ UNCHANGED <<idle, dir, taskVars, threadVars>>

\* Mutant: the drain waits without a timeout.
CloseExpires_Never ==
    /\ phase = "draining" /\ inflight = 0
    /\ phase' = "expired"
    /\ UNCHANGED <<idle, dir, taskVars, threadVars>>

\* ... or its window expires.
CloseExpires ==
    /\ phase = "draining" /\ inflight # 0
    /\ phase' = "expired"
    /\ UNCHANGED <<idle, dir, taskVars, threadVars>>

\* close() goes on: parakeet and nemotron remove their directory by abort().
CloseReturns ==
    /\ phase \in {"drained", "expired"}
    /\ phase' = "closed"
    /\ dir' = FALSE
    /\ UNCHANGED <<idle, taskVars, threadVars>>

\* idle(), called at the end of the drain, which may have given up on close().
Idle ==
    /\ phase \notin {"down", "up"} /\ idle = "none"
    /\ idle' = IF inflight = 0 THEN "done" ELSE "waiting"
    /\ UNCHANGED <<phase, dir, taskVars, threadVars>>

\* The waiter thread finds the count at zero and completes the future.
IdleDone ==
    /\ idle = "waiting" /\ inflight = 0
    /\ idle' = "done"
    /\ UNCHANGED <<phase, dir, taskVars, threadVars>>

-----------------------------------------------------------------------------

TaskNext(s) ==
    Begin(s) \/ Acquire(s) \/ AskCancel(s) \/ Cancelled(s) \/ Resume(s)

ThreadNext(s) ==
    ThreadCannotWrite(s) \/ ThreadEnters(s) \/ ThreadLeaves(s) \/ ThreadEnds(s)

BackendNext ==
    \/ BackendStart \/ BackendStartFails \/ Close \/ CloseDrained \/ CloseExpires
    \/ CloseReturns \/ Idle \/ IdleDone

Next == BackendNext \/ \E s \in Streams : TaskNext(s) \/ ThreadNext(s)

Spec == Init /\ [][Next]_vars

\* The loop runs what is ready, and the drain's window expires.
LoopFairness ==
    /\ \A s \in Streams : WF_vars(Acquire(s)) /\ WF_vars(Cancelled(s)) /\ WF_vars(Resume(s))
    /\ WF_vars(CloseDrained \/ CloseExpires) /\ WF_vars(CloseReturns)
    /\ WF_vars(IdleDone)

\* The model returns in the end.
ThreadFairness ==
    \A s \in Streams :
        WF_vars(ThreadEnters(s)) /\ WF_vars(ThreadLeaves(s)) /\ WF_vars(ThreadEnds(s))

FairSpec == Spec /\ LoopFairness

-----------------------------------------------------------------------------
(* Properties                                                              *)

\* The in-flight count is the number of daemon threads that may still touch the
\* device, through failed thread starts, cancelled tasks and raising decodes.
InflightExact == inflight = Cardinality(LiveThreads)

\* close() that found the count at zero returns with no decode thread alive, so
\* the process may exit or the temporary directory go: nothing was between the
\* start of a thread and its first statement, and nothing starts one afterwards.
DrainedIsQuiet == phase = "drained" => LiveThreads = {}

\* A completed idle() future means no decode thread is left, however many tasks
\* were cancelled under their threads: the server frees its lock on this signal.
IdleIsQuiet == idle = "done" => LiveThreads = {}

\* Both signals that decoding is over, close()'s count and the idle() future, are
\* given only when no decode thread is alive.
QuietWhenTold == DrainedIsQuiet /\ IdleIsQuiet

\* _decode_lock is held by the one task that awaits a thread, and by nobody else:
\* no cancellation, failure or hand-over leaves it held or gives it to two.
LockHeldByAwaiter == holder = {s \in Streams : task[s] = "decoding"}

\* A started backend has the directory its decodes write to, after any sequence
\* of failed starts, aborts, closes and restarts.
DirWhenUp == phase = "up" /\ TempFiles => dir

\* What a session sees of its stream, and what the device has finished.
Status ==
    [s \in Streams |-> CASE task[s] \in {"queued", "decoding"} -> "asked"
                         [] task[s] = "cancelled"              -> "withdrawn"
                         [] OTHER                              -> task[s]]
Produced == {s \in Streams : outcome[s] = "text"}

Decoder == INSTANCE SerialDecoder WITH
    status <- Status, device <- OnDevice, produced <- Produced

\* The guard gives every session the one-device contract of SerialDecoder: no two
\* threads in the model, no answer that the device has not finished, and no
\* answer for a stream whose task was cancelled.
ImplementsDecoder == Decoder!DecoderSpec

\* As long as the model itself returns, every decode ends, neither a cancelled
\* holder nor a cancelled waiter blocking the others, and the idle() future
\* completes once the threads are over.
DecodesEnd ==
    ThreadFairness =>
        /\ \A s \in Streams : s \in Waiting ~> s \notin Waiting
        /\ idle = "waiting" ~> idle = "done"

\* close() returns even when no decode thread ever ends.
CloseBounded == phase = "draining" ~> phase = "closed"

-----------------------------------------------------------------------------
(* The inductive invariant behind the properties above.                    *)

\* The waiters are exactly the queued tasks, each once.
QueueExact ==
    /\ \A i \in 1 .. Len(queue) : task[queue[i]] = "queued"
    /\ \A i, j \in 1 .. Len(queue) : queue[i] = queue[j] => i = j
    /\ \A s \in Streams : task[s] = "queued" => \E i \in 1 .. Len(queue) : queue[i] = s

OneHolder == \A s, t \in holder : s = t
OneOnDevice == \A s, t \in OnDevice : s = t

\* A thread exists only for a task that got the lock, and has an outcome once it
\* is past the device.
ThreadsFollowTasks ==
    \A s \in Streams :
        /\ task[s] \in {"new", "queued"} => thread[s] = "none"
        /\ task[s] \in {"decoding", "answered"} => thread[s] # "none"
        /\ outcome[s] = "none" <=> thread[s] \in {"none", "started", "device"}
        /\ task[s] = "answered" => outcome[s] = "text"

\* cancel() of a stream never runs without a cancel of its task, and only such a
\* stream is skipped.
CancelsAreAsked ==
    /\ cancelled \subseteq asked
    /\ \A s \in asked : task[s] \in {"queued", "decoding", "cancelled"}
    /\ \A s \in Streams : outcome[s] = "skipped" => s \in cancelled

\* A backend that is not up has no decode that could still start a thread.
NothingStartsDown ==
    /\ phase # "up" => Waiting \subseteq asked
    /\ idle # "none" => phase \notin {"down", "up"}

GuardInv ==
    /\ TypeOK /\ QueueExact /\ OneHolder /\ OneOnDevice /\ LockHeldByAwaiter
    /\ ThreadsFollowTasks /\ CancelsAreAsked /\ NothingStartsDown
    /\ InflightExact /\ DrainedIsQuiet /\ IdleIsQuiet

=============================================================================
