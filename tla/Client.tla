-------------------------------- MODULE Client --------------------------------
(***************************************************************************)
(* A Pipecat service that transcribes one VAD segment after the other over *)
(* one TranscriptionClient session (stt_server/client.py and               *)
(* stt_server/examples/pipecat_stt_service.py), composed with the session  *)
(* at the other end and the connection between them, which may be lost.    *)
(*                                                                         *)
(* The protocol has no item ids on the client's side: a segment's answer   *)
(* is the first one read after its commit.  The pipeline may cancel a      *)
(* segment while it waits.  The example then keeps its session; the        *)
(* reference consumer of docs/integration.md (external) tears it down.     *)
(***************************************************************************)
EXTENDS Naturals, Sequences

CONSTANTS
    Segments,     \* how many VAD segments there are
    MaxDrops      \* bound: how often the connection or the server is lost

ASSUME ClientAssumption ==
    /\ Segments \in Nat \ {0}
    /\ MaxDrops \in Nat

VARIABLES
    consumer,  \* which service this is: "example" or "reference"
    client,    \* _client: "none", or "kept"
    link,      \* the connection: "none", "up", "broken" (unnoticed), "down"
    up, down,  \* frames on their way to the server, events on their way back
    run,       \* run_stt: "idle", "connected", "drain", "over" (cleaned up)
    seg,       \* the segment being transcribed, or the last one
    outcome,   \* how each segment ended
    answer,    \* whose audio the text of each segment's frame came from
    heard,     \* the session's uncommitted audio: the segments it holds
    inflight,  \* the segments in the decode in flight
    unlucky,   \* history: segments whose decode failed
    lost,      \* history: segments spent on a connection already dead
    drops      \* history: losses so far

sessionVars == <<heard, inflight, unlucky>>
resultVars == <<outcome, answer, lost>>
clientVars == <<consumer, client, link, up, down, run, seg, outcome, answer, heard,
                inflight, unlucky, lost, drops>>

-----------------------------------------------------------------------------
Segs == 1 .. Segments

Outcomes == {"none", "text", "blank", "error", "silent", "abandoned"}

Event(type, of) == [type |-> type, of |-> of]
Frame(type, s)  == [type |-> type, seg |-> s]

Frames == [type : {"audio", "empty", "commit"}, seg : Segs]
ClientEvents == [type : {"error", "committed", "completed", "failed"}, of : SUBSET Segs]

ClientTypeOK ==
    /\ consumer \in {"example", "reference"}
    /\ client \in {"none", "kept"} /\ link \in {"none", "up", "broken", "down"}
    /\ up \in Seq(Frames) /\ down \in Seq(ClientEvents)
    /\ run \in {"idle", "connected", "drain", "over"} /\ seg \in 0 .. Segments
    /\ outcome \in [Segs -> Outcomes] /\ answer \in [Segs -> SUBSET Segs]
    /\ heard \subseteq Segs /\ inflight \subseteq Segs /\ unlucky \subseteq Segs
    /\ lost \in Nat /\ drops \in Nat

ClientStart(who, where) ==
    /\ consumer = who /\ run = where
    /\ client = "none" /\ link = "none" /\ up = <<>> /\ down = <<>> /\ seg = 0
    /\ outcome = [s \in Segs |-> "none"] /\ answer = [s \in Segs |-> {}]
    /\ heard = {} /\ inflight = {} /\ unlucky = {}
    /\ lost = 0 /\ drops = 0

ClientInit == \E who \in {"example", "reference"} : ClientStart(who, "idle")

\* No service is ever started.
ClientRest == ClientStart("example", "over")

\* The segment ends this way; the generator is done with it.
ConcludeSegment(how) ==
    /\ run' = "idle"
    /\ outcome' = [outcome EXCEPT ![seg] = how]

\* ws.close(): the session at the other end tears down with its connection.
Disconnect ==
    /\ link' = "none" /\ up' = <<>> /\ down' = <<>>
    /\ heard' = {} /\ inflight' = {}

-----------------------------------------------------------------------------
(* The service.                                                            *)

\* run_stt on the next segment, with a session from before.
BeginSegment ==
    /\ run = "idle" /\ seg < Segments /\ client = "kept"
    /\ seg' = seg + 1 /\ run' = "connected"
    /\ UNCHANGED <<consumer, client, link, up, down, resultVars, sessionVars, drops>>

\* _ensure_connected: server.hello, session.created, session.update; the events
\* run_stt skips are left out of "down".
Connect ==
    /\ run = "idle" /\ seg < Segments /\ client = "none"
    /\ seg' = seg + 1 /\ run' = "connected"
    /\ client' = "kept" /\ link' = "up" /\ up' = <<>> /\ down' = <<>>
    /\ heard' = {} /\ inflight' = {} /\ lost' = 0
    /\ UNCHANGED <<consumer, outcome, answer, unlucky, drops>>

\* No server: the exception becomes an ErrorFrame, and there is no client.
ConnectFails ==
    /\ run = "idle" /\ seg < Segments /\ client = "none"
    /\ seg' = seg + 1
    /\ outcome' = [outcome EXCEPT ![seg'] = "error"]
    /\ UNCHANGED <<consumer, client, link, up, down, run, answer, lost, sessionVars, drops>>

\* send_audio (which may be of no samples) and commit; what is sent on a broken
\* link goes nowhere.
SendSegment ==
    /\ run = "connected" /\ link \in {"up", "broken"}
    /\ \E audio \in {"audio", "empty"} :
        up' = IF link = "up"
              THEN up \o <<Frame(audio, seg), Frame("commit", seg)>> ELSE up
    /\ run' = "drain"
    /\ UNCHANGED <<consumer, client, link, down, seg, resultVars, sessionVars, drops>>

\* Sending on a connection known to be closed raises: the client is dropped.
SendFails ==
    /\ run = "connected" /\ link = "down"
    /\ ConcludeSegment("error") /\ lost' = lost + 1
    /\ client' = "none"
    /\ UNCHANGED <<consumer, link, up, down, seg, answer, sessionVars, drops>>

\* Mutant: error events are skipped like the others.
ReadEvent_SkipErrors ==
    /\ run = "drain" /\ down # <<>>
    /\ down' = Tail(down)
    /\ LET ev == Head(down) IN
        IF ev.type = "completed"
        THEN ConcludeSegment("text") /\ answer' = [answer EXCEPT ![seg] = ev.of]
        ELSE UNCHANGED <<run, outcome, answer>>
    /\ UNCHANGED <<consumer, client, link, up, seg, lost, sessionVars, drops>>

\* An event: run_stt ends at the first completed or error event it reads, and
\* skips all others, transcription.failed among them.
ReadEvent ==
    /\ run = "drain" /\ down # <<>>
    /\ down' = Tail(down)
    /\ LET ev == Head(down) IN
        \/ /\ ev.type = "completed"
           /\ \E how \in {"text", "blank"} :
                /\ ConcludeSegment(how)
                /\ answer' = [answer EXCEPT ![seg] = IF how = "text" THEN ev.of ELSE {}]
        \/ /\ ev.type = "error" /\ ConcludeSegment("error") /\ UNCHANGED answer
        \/ /\ ev.type \in {"committed", "failed"} /\ UNCHANGED <<run, outcome, answer>>
    /\ UNCHANGED <<consumer, client, link, up, seg, lost, sessionVars, drops>>

\* The connection is closed: events() ends like a finished iterator, and the
\* generator after it, with no frame and with its client.
ReadEnd ==
    /\ run = "drain" /\ down = <<>> /\ link = "down"
    /\ ConcludeSegment("silent") /\ lost' = lost + 1
    /\ UNCHANGED <<consumer, client, link, up, down, seg, answer, sessionVars, drops>>

\* Mutant: the session survives although its answer is still to come.
AbandonSegment_Keep ==
    /\ run = "drain"
    /\ ConcludeSegment("abandoned")
    /\ UNCHANGED <<consumer, client, link, up, down, seg, answer, lost, sessionVars, drops>>

\* The pipeline cancels the segment: a cancellation is no Exception, so run_stt
\* does nothing more.  (The reference consumer tears the session down.)
AbandonSegment ==
    /\ run = "drain"
    /\ ConcludeSegment("abandoned")
    /\ IF consumer = "reference"
       THEN client' = "none" /\ Disconnect
       ELSE UNCHANGED <<client, link, up, down, heard, inflight>>
    /\ UNCHANGED <<consumer, seg, answer, lost, unlucky, drops>>

\* cleanup(): session.close if the connection takes it, close() in any case.
ServiceCleanup ==
    /\ run = "idle" /\ client = "kept" /\ seg = Segments
    /\ run' = "over" /\ client' = "none" /\ Disconnect
    /\ UNCHANGED <<consumer, seg, resultVars, unlucky, drops>>

-----------------------------------------------------------------------------
(* The session at the other end (Session has it in detail).                *)

Reply(ev) == down' = Append(down, ev)

\* An append is refused while a decode is in flight.
ServerAudio ==
    /\ link = "up" /\ up # <<>> /\ Head(up).type \in {"audio", "empty"}
    /\ up' = Tail(up)
    /\ IF inflight = {}
       THEN /\ heard' = IF Head(up).type = "audio" THEN heard \cup {Head(up).seg} ELSE heard
            /\ UNCHANGED down
       ELSE Reply(Event("error", {})) /\ UNCHANGED heard
    /\ UNCHANGED <<consumer, client, link, run, seg, resultVars, inflight, unlucky, drops>>

\* So is a commit of nothing, or during a decode.
ServerCommit ==
    /\ link = "up" /\ up # <<>> /\ Head(up).type = "commit"
    /\ up' = Tail(up)
    /\ IF heard # {} /\ inflight = {}
       THEN /\ Reply(Event("committed", heard))
            /\ inflight' = heard /\ heard' = {}
       ELSE Reply(Event("error", {})) /\ UNCHANGED <<heard, inflight>>
    /\ UNCHANGED <<consumer, client, link, run, seg, resultVars, unlucky, drops>>

ServerAnswers ==
    /\ link = "up" /\ inflight # {}
    /\ Reply(Event("completed", inflight))
    /\ inflight' = {}
    /\ UNCHANGED <<consumer, client, link, up, run, seg, resultVars, heard, unlucky, drops>>

ServerDecodeFails ==
    /\ link = "up" /\ inflight # {}
    /\ Reply(Event("failed", inflight))
    /\ inflight' = {} /\ unlucky' = unlucky \cup inflight
    /\ UNCHANGED <<consumer, client, link, up, run, seg, resultVars, heard, drops>>

\* The server stops or crashes, or the network loses the connection: what was
\* on its way is lost from some point on.
Break ==
    /\ link = "up" /\ drops < MaxDrops
    /\ link' = "broken" /\ drops' = drops + 1
    /\ up' = <<>> /\ heard' = {} /\ inflight' = {}
    /\ \E n \in 0 .. Len(down) : down' = SubSeq(down, 1, n)
    /\ UNCHANGED <<consumer, client, run, seg, resultVars, unlucky>>

\* The client's websocket notices.
Notice ==
    /\ link = "broken" /\ link' = "down"
    /\ UNCHANGED <<consumer, client, up, down, run, seg, resultVars, sessionVars, drops>>

-----------------------------------------------------------------------------
ClientNext ==
    \/ BeginSegment \/ Connect \/ ConnectFails \/ SendSegment \/ SendFails \/ ReadEvent
    \/ ReadEnd \/ AbandonSegment \/ ServiceCleanup
    \/ ServerAudio \/ ServerCommit \/ ServerAnswers \/ ServerDecodeFails
    \/ Break \/ Notice

ClientSpec == ClientInit /\ [][ClientNext]_clientVars

\* The service reads, the session works, a decode ends, a dead connection is
\* noticed (websockets' keepalive).  The pipeline need not send anything.
ClientFairness ==
    /\ WF_clientVars(SendSegment \/ SendFails \/ ReadEvent \/ ReadEnd)
    /\ WF_clientVars(ServerAudio \/ ServerCommit \/ ServerAnswers \/ ServerDecodeFails)
    /\ WF_clientVars(Notice)

ClientFairSpec == ClientSpec /\ ClientFairness

-----------------------------------------------------------------------------
(* Properties.                                                             *)

AnswersOwn == \A s \in Segs : outcome[s] = "text" => answer[s] = {s}

\* A consumer that tears its session down with an abandoned segment gets, for
\* each segment, the transcript of that segment's audio and of nothing else,
\* whatever was abandoned, refused or lost before it.
AnswerIsOwn == consumer = "reference" => AnswersOwn

\* The same of the example, which "transcribes one complete VAD segment" per call.
ExampleAnswerIsOwn == consumer = "example" => AnswersOwn

\* A dead connection is given up for good after two segments: one that was
\* waiting (or that sent into the void), and one that learns it by sending.
DeadLinkCostsTwo == lost <= 2

\* Every segment ends, unless its own decode failed: run_stt does not look at
\* transcription.failed, and waits until the connection or the pipeline ends.
SegmentConcludes ==
    \A s \in Segs :
        (seg = s /\ run \in {"connected", "drain"}) ~>
            (outcome[s] # "none" \/ s \in unlucky)

=============================================================================
