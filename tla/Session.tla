------------------------------- MODULE Session -------------------------------
(***************************************************************************)
(* One WebSocket connection of TranscriptionServer: the handler that reads *)
(* the client's requests, the decode task it spawns for a commit, and the  *)
(* connection both write to, with its write buffer and close handshake.    *)
(* The client, shutdown() and the timers act at any time.                  *)
(*                                                                         *)
(* Everything runs on one asyncio loop: a task that is running goes on     *)
(* until it suspends, so steps of a running task are not interleaved.      *)
(* websockets' send() takes the connection's lock, writes, and waits       *)
(* inside the lock while the write buffer is above its limit.              *)
(***************************************************************************)
EXTENDS Naturals, Sequences

CONSTANTS
    MaxBuffer,   \* cap on uncommitted appends (max_uncommitted_bytes)
    HighWater,   \* send_queue_high_water_bytes, in events
    WriteLimit   \* the write limit of the websockets connection, in events

ASSUME SessionAssumption ==
    /\ MaxBuffer \in Nat \ {0}
    /\ HighWater \in Nat
    /\ WriteLimit \in Nat \ {0}

VARIABLES
    conn,      \* open, closing (a close frame was sent or received), lost
    pending,   \* events in the write buffer
    paused,    \* has the transport asked to stop writing?
    mutex,     \* the task inside the connection's lock, as a set
    handler,   \* where the handler is
    decode,    \* where the decode task is
    todo,      \* what each task has still to send before it goes on
    io,        \* how each task's current send is suspended
    asked,     \* tasks with a cancellation to be delivered
    buffer,    \* appends since the last commit or clear
    closed,    \* state.closed
    stopping,  \* has shutdown() begun?
    view       \* what the events written so far say

taskVars == <<handler, decode, todo, io, asked>>
connVars == <<conn, pending, paused, mutex, view>>
vars == <<conn, pending, paused, mutex, handler, decode, todo, io, asked, buffer, closed,
          stopping, view>>

-----------------------------------------------------------------------------

Tasks == {"handler", "decode"}

\* Events; "bye" stands for ws.close().
Events == {"hello", "reply", "error", "cleared", "committed", "delta", "completed",
           "failed", "closed", "bye"}

\* Sent with force=True.
Forced == {"error", "failed", "closed"}

TypeOK ==
    /\ conn \in {"open", "closing", "lost"}
    /\ pending \in Nat /\ paused \in BOOLEAN
    /\ mutex \in {{}, {"handler"}, {"decode"}}
    /\ handler \in {"recv", "reply", "commit", "farewell", "closewait", "unwind",
                    "teardown", "over"}
    /\ decode \in {"none", "created", "decoding", "sending", "done", "cancelled"}
    /\ todo \in [Tasks -> Seq(Events)]
    /\ io \in [Tasks -> {"run", "lock", "drain", "gone"}]
    /\ asked \subseteq Tasks
    /\ buffer \in 0 .. MaxBuffer
    /\ closed \in BOOLEAN /\ stopping \in BOOLEAN
    /\ view \in [stage : {"idle", "committed", "partial", "broken"}, ended : BOOLEAN]

\* in_flight_task exists and is not done.
InFlight == decode \in {"created", "decoding", "sending"}

\* The task is running: nothing else on the loop can act.
Running(t) ==
    /\ io[t] = "run"
    /\ IF t = "handler" THEN handler \in {"reply", "commit", "farewell"}
                        ELSE decode = "sending"
Turn(t)  == \A u \in Tasks \ {t} : ~Running(u)
LoopFree == \A t \in Tasks : ~Running(t)

\* A suspended task goes on, unless a cancellation gets there first.
Resumes(t) == t \notin asked /\ Turn(t)

Init ==
    /\ conn = "open" /\ pending = 0 /\ paused = FALSE /\ mutex = {}
    /\ handler = "reply" /\ decode = "none"
    /\ todo = [t \in Tasks |-> IF t = "handler" THEN <<"hello", "reply", "reply">> ELSE <<>>]
    /\ io = [t \in Tasks |-> "run"]
    /\ asked = {}
    /\ buffer = 0 /\ closed = FALSE /\ stopping = FALSE
    /\ view = [stage |-> "idle", ended |-> FALSE]

-----------------------------------------------------------------------------
(* Sending: _send on top of websockets' send() and close().                *)

\* What the client can conclude once the event is written.
Shown(e) ==
    IF view.ended THEN [view EXCEPT !.stage = "broken"]
    ELSE CASE e = "committed" -> [view EXCEPT !.stage =
                                     IF @ = "idle" THEN "committed" ELSE "broken"]
           [] e = "delta"     -> [view EXCEPT !.stage =
                                     IF @ = "committed" THEN "partial" ELSE "broken"]
           [] e \in {"completed", "failed"} -> [view EXCEPT !.stage =
                                     IF @ \in {"committed", "partial"} THEN "idle" ELSE "broken"]
           [] e = "closed"    -> [view EXCEPT !.ended = TRUE]
           [] OTHER           -> view

SendOver(t) ==
    /\ io' = [io EXCEPT ![t] = "run"]
    /\ todo' = [todo EXCEPT ![t] = Tail(@)]

SendWaits(t, how) ==
    /\ io' = [io EXCEPT ![t] = how]
    /\ UNCHANGED todo

\* Once above its limit, the transport stays paused down to its low-water mark.
LowWater == WriteLimit \div 4

\* In the connection's lock: write the event, or start the close handshake, and
\* keep the lock while the transport is paused.  On a connection that is closing,
\* wait until it is lost; the exception is swallowed.
Write(t) ==
    LET e == Head(todo[t]) IN
    \/ /\ conn = "open" /\ e = "bye"
       /\ conn' = "closing"
       /\ IF paused
          THEN mutex' = {t} /\ SendWaits(t, "drain")
          ELSE SendWaits(t, "gone") /\ UNCHANGED mutex
       /\ UNCHANGED <<pending, paused, view>>
    \/ /\ conn = "open" /\ e # "bye"
       /\ pending' = pending + 1
       /\ paused' = (paused \/ pending' > WriteLimit)
       /\ view' = Shown(e)
       /\ IF paused'
          THEN mutex' = {t} /\ SendWaits(t, "drain")
          ELSE SendOver(t) /\ UNCHANGED mutex
       /\ UNCHANGED conn
    \/ /\ conn = "closing" /\ SendWaits(t, "gone") /\ UNCHANGED connVars
    \/ /\ conn = "lost" /\ SendOver(t) /\ UNCHANGED connVars

Overflows(e) == e \notin Forced \cup {"bye"} /\ ~closed /\ pending > HighWater

\* _send is called: an overflow replaces the event by the close of the
\* connection; otherwise the connection's lock is taken or awaited.
Send(t) ==
    /\ Running(t) /\ todo[t] # <<>>
    /\ IF Overflows(Head(todo[t]))
       THEN /\ closed' = TRUE
            /\ todo' = [todo EXCEPT ![t] = <<"bye">> \o Tail(@)]
            /\ UNCHANGED <<connVars, io>>
       ELSE /\ IF mutex = {} /\ \A u \in Tasks \ {t} : io[u] # "lock"
               THEN Write(t)
               ELSE SendWaits(t, "lock") /\ UNCHANGED connVars
            /\ UNCHANGED closed
    /\ UNCHANGED <<handler, decode, asked, buffer, stopping>>

\* The lock was free for a task that waited for it.
SendLocked(t) ==
    /\ io[t] = "lock" /\ mutex = {} /\ Resumes(t)
    /\ Write(t)
    /\ UNCHANGED <<handler, decode, asked, buffer, closed, stopping>>

\* The transport resumed, or the connection is lost; close() goes on to wait for
\* that.
SendDrained(t) ==
    /\ io[t] = "drain" /\ Resumes(t)
    /\ ~paused \/ conn = "lost"
    /\ mutex' = {}
    /\ IF Head(todo[t]) = "bye" /\ conn # "lost" THEN SendWaits(t, "gone") ELSE SendOver(t)
    /\ UNCHANGED <<handler, decode, asked, conn, pending, paused, view, buffer, closed, stopping>>

\* The connection is lost: close() returns, send() raises ConnectionClosed.
SendGone(t) ==
    /\ io[t] = "gone" /\ conn = "lost" /\ Resumes(t)
    /\ SendOver(t)
    /\ UNCHANGED <<handler, decode, asked, connVars, buffer, closed, stopping>>

-----------------------------------------------------------------------------
(* The handler: requests.                                                  *)

Reads == handler = "recv" /\ Resumes("handler") /\ ~closed

Answer(events) ==
    /\ handler' = "reply"
    /\ todo' = [todo EXCEPT !["handler"] = events]

\* Mutant: appends are accepted at any time.
Append_InFlight ==
    /\ Reads /\ buffer < MaxBuffer
    /\ buffer' = buffer + 1
    /\ UNCHANGED <<taskVars, connVars, closed, stopping>>

\* An append, binary or base64, that is accepted.
AppendAudio ==
    /\ Reads /\ ~InFlight /\ buffer < MaxBuffer
    /\ buffer' = buffer + 1
    /\ UNCHANGED <<taskVars, connVars, closed, stopping>>

\* Anything refused with an error event: a malformed or unknown event, an invalid
\* configuration, a bad append, one over the cap or during a decode, a commit of
\* nothing, a clear during a decode.
Refuse ==
    /\ Reads
    /\ Answer(<<"error">>)
    /\ UNCHANGED <<decode, io, asked, connVars, buffer, closed, stopping>>

\* session.update answers under two names, server.status under one.
Inform ==
    /\ Reads
    /\ Answer(<<"reply", "reply">>) \/ Answer(<<"reply">>)
    /\ UNCHANGED <<decode, io, asked, connVars, buffer, closed, stopping>>

Clear ==
    /\ Reads /\ ~InFlight
    /\ buffer' = 0
    /\ Answer(<<"cleared">>)
    /\ UNCHANGED <<decode, io, asked, connVars, closed, stopping>>

\* Mutant: the buffer is kept.
Commit_KeepsBuffer ==
    /\ Reads /\ buffer > 0 /\ ~InFlight
    /\ handler' = "commit"
    /\ todo' = [todo EXCEPT !["handler"] = <<"committed">>]
    /\ UNCHANGED <<decode, io, asked, connVars, buffer, closed, stopping>>

\* input_audio_buffer.commit takes the audio and announces the utterance.
Commit ==
    /\ Reads /\ buffer > 0 /\ ~InFlight
    /\ buffer' = 0
    /\ handler' = "commit"
    /\ todo' = [todo EXCEPT !["handler"] = <<"committed">>]
    /\ UNCHANGED <<decode, io, asked, connVars, closed, stopping>>

\* state.closed, session.closed, ws.close().
Farewell ==
    /\ handler' = "farewell"
    /\ closed' = TRUE
    /\ todo' = [todo EXCEPT !["handler"] = <<"closed", "bye">>]

\* Mutant: the close does not wait for the decode.
Close_NoWait ==
    /\ Reads
    /\ Farewell
    /\ UNCHANGED <<decode, io, asked, connVars, buffer, stopping>>

\* session.close: wait for the decode, except during shutdown, which has its own
\* budget: then the decode is cancelled and not awaited.
Close ==
    /\ Reads
    /\ IF InFlight /\ ~stopping
       THEN handler' = "closewait" /\ UNCHANGED <<todo, asked, closed>>
       ELSE /\ Farewell
            /\ asked' = IF InFlight THEN asked \cup {"decode"} ELSE asked
    /\ UNCHANGED <<decode, io, connVars, buffer, stopping>>

\* session.cancel: drop the audio, cancel the decode and wait for its unwind.
Cancel ==
    /\ Reads
    /\ buffer' = 0
    /\ IF InFlight
       THEN /\ handler' = "unwind"
            /\ asked' = asked \cup {"decode"}
            /\ UNCHANGED <<todo, closed>>
       ELSE Farewell /\ UNCHANGED asked
    /\ UNCHANGED <<decode, io, connVars, stopping>>

-----------------------------------------------------------------------------
(* The handler: its own steps.                                             *)

\* All events of a request are sent.  A commit spawns its decode now, whether or
\* not `committed` went out.
HandlerContinues ==
    /\ Running("handler") /\ todo["handler"] = <<>>
    /\ decode' = IF handler = "commit" THEN "created" ELSE decode
    /\ handler' = "recv"
    /\ UNCHANGED <<todo, io, asked, connVars, buffer, closed, stopping>>

\* Mutant: the decode is not cancelled with its session.
Teardown_NoCancel ==
    /\ handler' = "over" /\ closed' = TRUE
    /\ asked' = asked \ {"handler"}

\* _teardown_session: cancel a decode and wait for it, then mark the session closed.
Teardown ==
    IF InFlight
    THEN /\ handler' = "teardown"
         /\ asked' = (asked \ {"handler"}) \cup {"decode"}
         /\ UNCHANGED closed
    ELSE /\ handler' = "over" /\ closed' = TRUE
         /\ asked' = asked \ {"handler"}

\* The receive loop ends: the connection is closed, or the session is.
HandlerStops ==
    /\ handler = "recv" /\ Resumes("handler")
    /\ conn # "open" \/ closed
    /\ Teardown
    /\ UNCHANGED <<decode, todo, io, connVars, buffer, stopping>>

\* session.close has waited for a decode that ended by itself.
CloseWaited ==
    /\ handler = "closewait" /\ decode = "done" /\ Resumes("handler")
    /\ Farewell
    /\ UNCHANGED <<decode, io, asked, connVars, buffer, stopping>>

\* Mutant: a late decode is left alone, and awaited for ever.
CloseTimeout_NoCancel ==
    /\ handler = "closewait" /\ InFlight /\ Resumes("handler")
    /\ handler' = "unwind"
    /\ UNCHANGED <<asked, decode, todo, io, connVars, buffer, closed, stopping>>

\* drain_timeout_seconds are over: cancel the decode and wait for its unwind.
CloseTimeout ==
    /\ handler = "closewait" /\ InFlight /\ Resumes("handler")
    /\ handler' = "unwind"
    /\ asked' = asked \cup {"decode"}
    /\ UNCHANGED <<decode, todo, io, connVars, buffer, closed, stopping>>

\* The cancelled decode is over.  A cancellation of the handler in between went to
\* the decode it awaits, and what comes back is swallowed.
Unwound ==
    /\ handler = "unwind" /\ ~InFlight /\ Turn("handler")
    /\ Farewell
    /\ asked' = asked \ {"handler"}
    /\ UNCHANGED <<decode, io, connVars, buffer, stopping>>

TornDown ==
    /\ handler = "teardown" /\ ~InFlight /\ Turn("handler")
    /\ handler' = "over" /\ closed' = TRUE
    /\ asked' = asked \ {"handler"}
    /\ UNCHANGED <<decode, todo, io, connVars, buffer, stopping>>

\* Elsewhere than in an unwind, a cancellation of the handler unwinds to the
\* teardown, out of the lock if it was inside.
HandlerCancelled ==
    /\ "handler" \in asked /\ LoopFree
    /\ handler \in {"recv", "reply", "commit", "farewell", "closewait"}
    /\ mutex' = mutex \ {"handler"}
    /\ todo' = [todo EXCEPT !["handler"] = <<>>]
    /\ io' = [io EXCEPT !["handler"] = "run"]
    /\ Teardown
    /\ UNCHANGED <<decode, conn, pending, paused, view, buffer, stopping>>

-----------------------------------------------------------------------------
(* The decode task.                                                        *)

\* Its first step: it opens a stream and hands it the audio.
DecodeStarts ==
    /\ decode = "created" /\ Resumes("decode")
    /\ decode' = "decoding"
    /\ UNCHANGED <<handler, todo, io, asked, connVars, buffer, closed, stopping>>

\* Mutant: a backend that raises is only logged.
DecodeAnswers_Silent ==
    /\ decode = "decoding" /\ Resumes("decode")
    /\ decode' = "sending"
    /\ \E events \in {<<"completed">>, <<"delta", "completed">>, <<>>} :
           todo' = [todo EXCEPT !["decode"] = events]
    /\ UNCHANGED <<handler, io, asked, connVars, buffer, closed, stopping>>

\* The backend answers (a delta only for a text that is not empty) or raises.
DecodeAnswers ==
    /\ decode = "decoding" /\ Resumes("decode")
    /\ decode' = "sending"
    /\ \E events \in {<<"completed">>, <<"delta", "completed">>, <<"failed">>} :
           todo' = [todo EXCEPT !["decode"] = events]
    /\ UNCHANGED <<handler, io, asked, connVars, buffer, closed, stopping>>

DecodeEnds ==
    /\ Running("decode") /\ todo["decode"] = <<>>
    /\ decode' = "done"
    /\ UNCHANGED <<handler, todo, io, asked, connVars, buffer, closed, stopping>>

\* The cancellation is delivered: the stream is cancelled, nothing more is sent.
DecodeCancelled ==
    /\ "decode" \in asked /\ InFlight /\ LoopFree
    /\ decode' = "cancelled"
    /\ asked' = asked \ {"decode"}
    /\ mutex' = mutex \ {"decode"}
    /\ todo' = [todo EXCEPT !["decode"] = <<>>]
    /\ io' = [io EXCEPT !["decode"] = "run"]
    /\ UNCHANGED <<handler, conn, pending, paused, view, buffer, closed, stopping>>

-----------------------------------------------------------------------------
(* The client, the connection and shutdown().                              *)

ClientReads ==
    /\ pending > 0 /\ conn # "lost"
    /\ pending' = pending - 1
    /\ paused' = (paused /\ pending' > LowWater)
    /\ UNCHANGED <<taskVars, conn, mutex, view, buffer, closed, stopping>>

ClientCloses ==
    /\ conn = "open" /\ LoopFree
    /\ conn' = "closing"
    /\ UNCHANGED <<taskVars, pending, paused, mutex, view, buffer, closed, stopping>>

ConnectionLost ==
    /\ conn # "lost" /\ LoopFree
    /\ conn' = "lost" /\ pending' = 0 /\ paused' = FALSE
    /\ UNCHANGED <<taskVars, mutex, view, buffer, closed, stopping>>

\* The close handshake ends, or its timeout, which runs once the buffer could be
\* written, aborts the connection.
HandshakeEnds == conn = "closing" /\ ~paused /\ ConnectionLost

\* websockets closes the connection of a handler that returned.
HandlerReturned ==
    /\ handler = "over" /\ conn = "open" /\ mutex = {} /\ LoopFree
    /\ conn' = "closing"
    /\ UNCHANGED <<taskVars, pending, paused, mutex, view, buffer, closed, stopping>>

ShutdownBegins ==
    /\ ~stopping /\ LoopFree
    /\ stopping' = TRUE
    /\ UNCHANGED <<taskVars, connVars, buffer, closed>>

\* The listener's close sends 1001 on every connection, in the connection's lock.
ShutdownCloses ==
    /\ stopping /\ conn = "open" /\ mutex = {} /\ LoopFree
    /\ conn' = "closing"
    /\ UNCHANGED <<taskVars, pending, paused, mutex, view, buffer, closed, stopping>>

\* The drain cancels what is left, once or twice.
ShutdownCancels ==
    /\ stopping /\ handler # "over" /\ LoopFree
    /\ asked' = asked \cup {"handler"} \cup (IF InFlight THEN {"decode"} ELSE {})
    /\ UNCHANGED <<handler, decode, todo, io, connVars, buffer, closed, stopping>>

-----------------------------------------------------------------------------

SendNext(t) == Send(t) \/ SendLocked(t) \/ SendDrained(t) \/ SendGone(t)

RequestNext ==
    AppendAudio \/ Refuse \/ Inform \/ Clear \/ Commit \/ Close \/ Cancel

HandlerNext ==
    \/ SendNext("handler") \/ HandlerContinues \/ HandlerStops
    \/ CloseWaited \/ Unwound \/ TornDown \/ HandlerCancelled

DecodeNext ==
    SendNext("decode") \/ DecodeStarts \/ DecodeEnds \/ DecodeCancelled

OutsideNext ==
    \/ ClientReads \/ ClientCloses \/ ConnectionLost \/ HandlerReturned
    \/ ShutdownBegins \/ ShutdownCloses \/ ShutdownCancels

Next ==
    \/ RequestNext \/ HandlerNext \/ CloseTimeout
    \/ DecodeNext \/ DecodeAnswers \/ OutsideNext

Spec == Init /\ [][Next]_vars

\* The loop runs its tasks in turn (strongly: a task that is ready again and again
\* is run; a closed connection has finitely many requests left to read), timers
\* fire, and a closing connection goes.
LoopFairness ==
    /\ SF_vars(HandlerNext) /\ SF_vars(HandlerStops) /\ SF_vars(DecodeNext)
    /\ WF_vars(CloseTimeout) /\ SF_vars(HandshakeEnds)
    /\ SF_vars(ShutdownCloses) /\ WF_vars(HandlerReturned)

\* The server alone, and with a client that reads.
FairSpec   == Spec /\ LoopFairness
ReaderSpec == FairSpec /\ WF_vars(ClientReads)

\* The backend answers.
BackendFairness == SF_vars(DecodeAnswers)

-----------------------------------------------------------------------------
(* Properties                                                              *)

\* No audio is buffered while a decode is in flight or about to be spawned: every
\* append belongs to exactly one utterance, whatever is pipelined around a commit.
\* (So the "commit while previous decode in flight" answer is never given.)
BufferClosedInFlight == InFlight \/ handler = "commit" => buffer = 0

\* The events on the wire keep SessionContract: one conclusion for each commit, in
\* order, and nothing after session.closed, through timeouts, cancellations,
\* overflows and two tasks that write to one connection.
Contract == INSTANCE SessionContract WITH stage <- view.stage, ended <- view.ended
ImplementsContract == Contract!ContractSpec

\* A decode never outlives its handler, however the handler ends.
NoOrphanDecode == handler = "over" => ~InFlight

\* With a client that reads and a backend that answers, a committed utterance is
\* concluded or the connection goes away: no overflow, lost answer or cancelled
\* decode leaves it waiting.
CommitConcluded ==
    BackendFairness => (view.stage # "idle" ~> view.stage = "idle" \/ conn = "lost")

\* session.close and session.cancel end the session, also under a backend that never
\* answers and whatever cancellation they swallow meanwhile.
CloseEnds == handler \in {"closewait", "unwind"} ~> handler = "over"

\* Whether or not the client reads, a decode is not blocked for ever in sending its
\* events: a slow consumer is dropped instead.
SlowConsumerDropped == decode = "sending" ~> decode # "sending"

-----------------------------------------------------------------------------
(* The inductive invariant behind BufferClosedInFlight and NoOrphanDecode. *)

\* A suspended send has an event to send, and only a sending task has one.
SendsPending ==
    /\ \A t \in Tasks : io[t] # "run" => todo[t] # <<>>
    /\ io["handler"] # "run" => handler \in {"reply", "commit", "farewell"}
    /\ io["decode"] # "run" => decode = "sending"

\* A commit is answered while no decode is in flight.
SpawnsAlone == handler = "commit" => ~InFlight

\* Where the tasks are: audio and decodes never overlap (AppendAudio, Commit) and
\* no decode is left behind (Teardown).
TaskInv ==
    TypeOK /\ SendsPending /\ SpawnsAlone /\ BufferClosedInFlight /\ NoOrphanDecode

-----------------------------------------------------------------------------
(* The inductive invariant behind the contract: what each task has still   *)
(* to send agrees with what the client has seen.                           *)

\* The task's event was replaced by the close of the connection.
Dropped(t) == todo[t] # <<>> /\ Head(todo[t]) = "bye"

\* The handler's answers, and its `committed`, which comes on a concluded stage.
AnswersExact ==
    /\ handler = "reply" /\ ~Dropped("handler") =>
         \A i \in 1 .. Len(todo["handler"]) :
             todo["handler"][i] \in {"hello", "reply", "error", "cleared"}
    /\ handler = "commit" /\ ~Dropped("handler") =>
         \/ todo["handler"] = <<"committed">> /\ io["handler"] # "drain" /\ view.stage = "idle"
         \/ todo["handler"] = <<"committed">> /\ io["handler"] = "drain"
                                              /\ view.stage = "committed"
         \/ todo["handler"] = <<>> /\ view.stage = "committed"

\* What a decode has still to send concludes the stage.
DecodeExact ==
    /\ decode \in {"created", "decoding"} => view.stage = "committed"
    /\ decode = "sending" /\ ~Dropped("decode") =>
         LET sent == io["decode"] = "drain" IN
         \/ todo["decode"] = <<"delta", "completed">>
              /\ view.stage = (IF sent THEN "partial" ELSE "committed")
         \/ todo["decode"] \in {<<"completed">>, <<"failed">>}
              /\ view.stage \in (IF sent THEN {"idle"} ELSE {"committed", "partial"})
         \/ todo["decode"] = <<>> /\ view.stage = "idle"
    /\ decode \in {"none", "done"} /\ handler \notin {"commit", "over"} => view.stage = "idle"

\* session.closed is the last event: whoever could write another cannot go on.
FarewellExact ==
    /\ handler = "farewell" =>
         \/ todo["handler"] = <<"closed", "bye">> /\ (view.ended <=> io["handler"] = "drain")
         \/ Dropped("handler")
    /\ view.ended => handler \in {"farewell", "teardown", "over"}
    /\ handler \in {"farewell", "unwind", "teardown"} /\ InFlight => "decode" \in asked

\* A decode that is asked to cancel is suspended, and its session ends.
CancelsEnd ==
    /\ "decode" \in asked => InFlight /\ ~Running("decode")
    /\ decode = "cancelled" \/ "decode" \in asked =>
         closed \/ "handler" \in asked \/ handler \in {"unwind", "teardown", "over"}

\* As long as anything can be written at all, what is still to be sent continues
\* what the client has seen, and a sent event waits only for the write buffer.
WireExact ==
    /\ view.stage # "broken"
    /\ CancelsEnd
    /\ conn = "open" =>
         /\ AnswersExact /\ DecodeExact /\ FarewellExact
         /\ \A t \in Tasks : io[t] # "gone" /\ ~(io[t] = "drain" /\ Dropped(t))

\* The whole of what a connection keeps to: its tasks, its buffer and its events
\* agree at every step of _handle_connection and _run_decode.
SessionInv == TaskInv /\ WireExact

=============================================================================
