---------------------------- MODULE ClientProofs -----------------------------
(***************************************************************************)
(* Theorems about Client, for any number of segments and of lost           *)
(* connections.  The inductive invariant says what can be on its way       *)
(* between the reference consumer and its session while a segment waits,   *)
(* and that nothing is left of it once the segment has ended.              *)
(***************************************************************************)
EXTENDS Client, SequenceTheorems, TLAPS

\* The segment at hand; over a dead connection nothing is on its way, and it has
\* cost one segment at most while the client is kept.
RunExact ==
    /\ run \in {"connected", "drain"} => seg \in Segs /\ client = "kept"
    /\ run = "drain" \/ link \in {"up", "broken"} => lost = 0
    /\ link # "up" => up = <<>> /\ heard = {} /\ inflight = {}
    /\ client = "kept" => lost <= 1
    /\ lost <= 2

Quiet == up = <<>> /\ down = <<>> /\ heard = {} /\ inflight = {}

\* What is on its way to the session: audio and commit, the commit, or nothing.
UpExact ==
    /\ Len(up) \in 0 .. 2 /\ heard \subseteq {seg} /\ inflight \subseteq {seg}
    /\ Len(up) = 0 => heard = {}
    /\ Len(up) = 1 => up[1].type = "commit" /\ down = <<>> /\ inflight = {}
    /\ Len(up) = 2 => /\ up[1].type \in {"audio", "empty"} /\ up[1].seg = seg
                      /\ up[2].type = "commit"
                      /\ down = <<>> /\ heard = {} /\ inflight = {}

\* What is on its way back: at most one answer, last, and nothing comes after it.
DownExact ==
    \A i \in 1 .. Len(down) :
        /\ down[i].type = "completed" => down[i].of = {seg}
        /\ down[i].type # "committed" =>
              i = Len(down) /\ up = <<>> /\ heard = {} /\ inflight = {}

\* A segment of the reference consumer leaves nothing behind.
LinkExact ==
    consumer = "reference" =>
        IF run = "drain" THEN UpExact /\ DownExact ELSE Quiet

ClientInv == ClientTypeOK /\ RunExact /\ LinkExact /\ AnswerIsOwn

-----------------------------------------------------------------------------
LEMMA FrameFacts ==
    \A t \in {"audio", "empty", "commit"}, s \in Segs :
        Frame(t, s) \in Frames /\ Frame(t, s).type = t /\ Frame(t, s).seg = s
BY DEF Frame, Frames

LEMMA EventFacts ==
    \A t \in {"error", "committed", "completed", "failed"}, of \in SUBSET Segs :
        Event(t, of) \in ClientEvents /\ Event(t, of).type = t /\ Event(t, of).of = of
BY DEF Event, ClientEvents

\* The tail and what is read or taken first.
LEMMA TailFacts ==
    ASSUME NEW S, NEW q \in Seq(S), q # <<>>
    PROVE  /\ Len(q) \in Nat \ {0} /\ Head(q) = q[1] /\ Head(q) \in S
           /\ Tail(q) \in Seq(S) /\ Len(Tail(q)) = Len(q) - 1
           /\ \A i \in 1 .. Len(q) - 1 : Tail(q)[i] = q[i + 1]
           /\ Len(q) = 1 => Tail(q) = <<>>
<1>1. /\ Len(q) \in Nat /\ Head(q) \in S /\ Tail(q) \in Seq(S) /\ Len(Tail(q)) = Len(q) - 1
      /\ \A i \in 1 .. Len(Tail(q)) : Tail(q)[i] = q[i + 1]
  BY HeadTailProperties
<1>2. Len(q) # 0
  BY EmptySeq
<1>3. ASSUME Len(q) = 1 PROVE Tail(q) = <<>>
  <2>1. Len(Tail(q)) = 0
    BY <1>1, <1>3
  <2>2. QED
    BY <1>1, <2>1, EmptySeq
<1>4. Head(q) = q[1]
  OBVIOUS
<1>5. QED
  BY <1>1, <1>2, <1>3, <1>4

\* Another event at the end.
LEMMA ReplyFacts ==
    ASSUME ClientTypeOK, NEW e \in ClientEvents, Reply(e)
    PROVE  /\ down' \in Seq(ClientEvents) /\ Len(down') = Len(down) + 1
           /\ \A i \in 1 .. Len(down) : down'[i] = down[i]
           /\ down'[Len(down) + 1] = e
BY AppendProperties DEF ClientTypeOK, Reply

LEMMA InitClientInv == ClientInit => ClientInv
BY ClientAssumption DEF ClientInit, ClientStart, ClientInv, ClientTypeOK, RunExact, LinkExact, Quiet,
   AnswerIsOwn, AnswersOwn, Segs, Outcomes

\* TypeOK is preserved.
LEMMA TypeStep ==
    ASSUME ClientInv, [ClientNext]_clientVars PROVE ClientTypeOK'
<1> USE ClientAssumption DEF ClientInv, ClientTypeOK, RunExact, Segs, Outcomes, sessionVars, resultVars
<1>1. CASE BeginSegment
  BY <1>1 DEF BeginSegment
<1>2. CASE Connect
  BY <1>2 DEF Connect
<1>3. CASE ConnectFails
  BY <1>3 DEF ConnectFails
<1>4. CASE SendSegment
  <2>1. PICK audio \in {"audio", "empty"} :
          up' = IF link = "up" THEN up \o <<Frame(audio, seg), Frame("commit", seg)>> ELSE up
    BY <1>4 DEF SendSegment
  <2>2. Frame(audio, seg) \in Frames /\ Frame("commit", seg) \in Frames
    BY <1>4, FrameFacts DEF SendSegment
  <2>3. up' \in Seq(Frames)
    BY <2>1, <2>2, ConcatProperties
  <2>4. QED
    BY <1>4, <2>3 DEF SendSegment
<1>5. CASE SendFails
  BY <1>5 DEF SendFails, ConcludeSegment
<1>6. CASE ReadEvent
  <2>1. down' \in Seq(ClientEvents) /\ Head(down) \in ClientEvents
    BY <1>6, TailFacts DEF ReadEvent
  <2>2. Head(down).of \in SUBSET Segs
    BY <2>1 DEF ClientEvents
  <2>3. /\ outcome' \in [Segs -> Outcomes] /\ answer' \in [Segs -> SUBSET Segs]
        /\ run' \in {"idle", "drain"}
    BY <1>6, <2>2 DEF ReadEvent, ConcludeSegment
  <2>4. QED
    BY <1>6, <2>1, <2>3 DEF ReadEvent
<1>7. CASE ReadEnd
  BY <1>7 DEF ReadEnd, ConcludeSegment
<1>8. CASE AbandonSegment
  <2>1. outcome' \in [Segs -> Outcomes] /\ run' = "idle"
    BY <1>8 DEF AbandonSegment, ConcludeSegment
  <2>2. /\ client' \in {"none", "kept"} /\ link' \in {"none", "up", "broken", "down"}
        /\ up' \in Seq(Frames) /\ down' \in Seq(ClientEvents)
        /\ heard' \subseteq Segs /\ inflight' \subseteq Segs
    <3>1. CASE consumer = "reference"
      BY <1>8, <3>1 DEF AbandonSegment, Disconnect
    <3>2. CASE consumer # "reference"
      BY <1>8, <3>2 DEF AbandonSegment
    <3>3. QED
      BY <3>1, <3>2
  <2>3. QED
    BY <1>8, <2>1, <2>2 DEF AbandonSegment
<1>9. CASE ServiceCleanup
  BY <1>9 DEF ServiceCleanup, Disconnect
<1>10. CASE ServerAudio
  <2>1. up' \in Seq(Frames) /\ Head(up) \in Frames
    BY <1>10, TailFacts DEF ServerAudio
  <2>2. Head(up).seg \in Segs
    BY <2>1 DEF Frames
  <2>3. Event("error", {}) \in ClientEvents
    BY EventFacts
  <2>4. down' \in Seq(ClientEvents)
    BY <1>10, <2>3, ReplyFacts DEF ServerAudio, ClientTypeOK
  <2>5. heard' \subseteq Segs
    BY <1>10, <2>2 DEF ServerAudio
  <2>6. QED
    BY <1>10, <2>1, <2>4, <2>5 DEF ServerAudio
<1>11. CASE ServerCommit
  <2>1. up' \in Seq(Frames)
    BY <1>11, TailFacts DEF ServerCommit
  <2>2. Event("error", {}) \in ClientEvents /\ Event("committed", heard) \in ClientEvents
    BY EventFacts
  <2>3. down' \in Seq(ClientEvents)
    BY <1>11, <2>2, ReplyFacts DEF ServerCommit, ClientTypeOK
  <2>4. QED
    BY <1>11, <2>1, <2>3 DEF ServerCommit
<1>12. CASE ServerAnswers
  <2>1. Event("completed", inflight) \in ClientEvents
    BY EventFacts
  <2>2. down' \in Seq(ClientEvents)
    BY <1>12, <2>1, ReplyFacts DEF ServerAnswers
  <2>3. QED
    BY <1>12, <2>2 DEF ServerAnswers
<1>13. CASE ServerDecodeFails
  <2>1. Event("failed", inflight) \in ClientEvents
    BY EventFacts
  <2>2. down' \in Seq(ClientEvents)
    BY <1>13, <2>1, ReplyFacts DEF ServerDecodeFails
  <2>3. QED
    BY <1>13, <2>2 DEF ServerDecodeFails
<1>14. CASE Break
  <2>1. PICK n \in 0 .. Len(down) : down' = SubSeq(down, 1, n)
    BY <1>14 DEF Break
  <2>2. down' \in Seq(ClientEvents)
    BY <2>1, SubSeqProperties
  <2>3. QED
    BY <1>14, <2>2 DEF Break
<1>15. CASE Notice
  BY <1>15 DEF Notice
<1>16. CASE UNCHANGED clientVars
  BY <1>16 DEF clientVars
<1>17. QED
  BY <1>1, <1>2, <1>3, <1>4, <1>5, <1>6, <1>7, <1>8, <1>9, <1>10, <1>11, <1>12, <1>13, <1>14, <1>15, <1>16 DEF ClientNext

\* RunExact is preserved.
LEMMA RunStep ==
    ASSUME ClientInv, [ClientNext]_clientVars PROVE RunExact'
<1> USE ClientAssumption DEF ClientInv, ClientTypeOK, RunExact, Segs, sessionVars, resultVars
<1>1. CASE BeginSegment
  BY <1>1 DEF BeginSegment
<1>2. CASE Connect
  BY <1>2 DEF Connect
<1>3. CASE ConnectFails
  BY <1>3 DEF ConnectFails
<1>4. CASE SendSegment
  BY <1>4 DEF SendSegment
<1>5. CASE SendFails
  BY <1>5 DEF SendFails, ConcludeSegment
<1>6. CASE ReadEvent
  BY <1>6 DEF ReadEvent, ConcludeSegment
<1>7. CASE ReadEnd
  BY <1>7 DEF ReadEnd, ConcludeSegment
<1>8. CASE AbandonSegment
  BY <1>8 DEF AbandonSegment, ConcludeSegment, Disconnect
<1>9. CASE ServiceCleanup
  BY <1>9 DEF ServiceCleanup, Disconnect
<1>10. CASE ServerAudio
  BY <1>10 DEF ServerAudio, Reply
<1>11. CASE ServerCommit
  BY <1>11 DEF ServerCommit, Reply
<1>12. CASE ServerAnswers
  BY <1>12 DEF ServerAnswers, Reply
<1>13. CASE ServerDecodeFails
  BY <1>13 DEF ServerDecodeFails, Reply
<1>14. CASE Break
  BY <1>14 DEF Break
<1>15. CASE Notice
  BY <1>15 DEF Notice
<1>16. CASE UNCHANGED clientVars
  BY <1>16 DEF clientVars
<1>17. QED
  BY <1>1, <1>2, <1>3, <1>4, <1>5, <1>6, <1>7, <1>8, <1>9, <1>10, <1>11, <1>12, <1>13, <1>14, <1>15, <1>16 DEF ClientNext

\* LinkExact is preserved.
LEMMA LinkStep ==
    ASSUME ClientInv, [ClientNext]_clientVars PROVE LinkExact'
<1> USE ClientAssumption DEF ClientInv, ClientTypeOK, RunExact, LinkExact, Quiet, UpExact, DownExact, Segs, sessionVars, resultVars
<1>1. CASE BeginSegment
  BY <1>1 DEF BeginSegment
<1>2. CASE Connect
  BY <1>2 DEF Connect
<1>3. CASE ConnectFails
  BY <1>3 DEF ConnectFails
<1>4. CASE SendSegment
  <2> SUFFICES ASSUME consumer = "reference"
               PROVE  IF run' = "drain" THEN UpExact' /\ DownExact' ELSE Quiet'
    BY <1>4 DEF SendSegment
  <2>1. PICK audio \in {"audio", "empty"} :
          up' = IF link = "up" THEN up \o <<Frame(audio, seg), Frame("commit", seg)>> ELSE up
    BY <1>4 DEF SendSegment
  <2>2. Quiet /\ run' = "drain" /\ seg \in Segs
        /\ UNCHANGED <<seg, down, heard, inflight>>
    BY <1>4 DEF SendSegment
  <2>3. CASE link = "up"
    <3>1. up' = <<Frame(audio, seg), Frame("commit", seg)>>
      BY <2>1, <2>2, <2>3, FrameFacts
    <3>2. Len(up') = 2 /\ up'[1] = Frame(audio, seg) /\ up'[2] = Frame("commit", seg)
      BY <3>1
    <3>3. QED
      BY <2>2, <3>2, FrameFacts
  <2>4. CASE link # "up"
    BY <2>1, <2>2, <2>4
  <2>5. QED
    BY <2>3, <2>4
<1>5. CASE SendFails
  BY <1>5 DEF SendFails, ConcludeSegment
<1>6. CASE ReadEvent
  <2> SUFFICES ASSUME consumer = "reference"
               PROVE  IF run' = "drain" THEN UpExact' /\ DownExact' ELSE Quiet'
    BY <1>6 DEF ReadEvent
  <2>1. /\ Len(down) \in Nat \ {0} /\ Head(down) = down[1] /\ down' \in Seq(ClientEvents)
        /\ Len(down') = Len(down) - 1
        /\ \A i \in 1 .. Len(down) - 1 : down'[i] = down[i + 1]
        /\ Len(down) = 1 => down' = <<>>
    BY <1>6, TailFacts DEF ReadEvent
  <2>2. up = <<>> /\ heard = {} /\ UNCHANGED <<seg, up, heard, inflight>>
    <3>1. Len(up) = 0
      BY <1>6 DEF ReadEvent
    <3>2. QED
      BY <1>6, <3>1, EmptySeq DEF ReadEvent
  <2>3. CASE run' = "drain"
    <3>1. DownExact'
      <4> SUFFICES ASSUME NEW i \in 1 .. Len(down')
                   PROVE  /\ down'[i].type = "completed" => down'[i].of = {seg}
                          /\ down'[i].type # "committed" =>
                                i = Len(down') /\ up = <<>> /\ heard = {} /\ inflight = {}
        BY <2>2
      <4>1. i + 1 \in 1 .. Len(down) /\ down'[i] = down[i + 1]
        BY <2>1
      <4>2. DownExact
        BY <1>6 DEF ReadEvent
      <4>3. /\ down[i + 1].type = "completed" => down[i + 1].of = {seg}
            /\ down[i + 1].type # "committed" =>
                  i + 1 = Len(down) /\ up = <<>> /\ heard = {} /\ inflight = {}
        BY <4>1, <4>2
      <4>4. i + 1 = Len(down) => i = Len(down')
        BY <2>1
      <4>5. QED
        BY <4>1, <4>3, <4>4
    <3>2. QED
      BY <1>6, <2>2, <2>3, <3>1 DEF ReadEvent
  <2>4. CASE run' # "drain"
    <3>1. down[1].type # "committed"
      BY <1>6, <2>1, <2>4 DEF ReadEvent
    <3>2. DownExact
      BY <1>6 DEF ReadEvent
    <3>3. Len(down) = 1 /\ inflight = {}
      BY <2>1, <3>1, <3>2
    <3>4. QED
      BY <2>1, <2>2, <2>4, <3>3
  <2>5. QED
    BY <2>3, <2>4
<1>7. CASE ReadEnd
  BY <1>7 DEF ReadEnd, ConcludeSegment
<1>8. CASE AbandonSegment
  BY <1>8 DEF AbandonSegment, ConcludeSegment, Disconnect
<1>9. CASE ServiceCleanup
  BY <1>9 DEF ServiceCleanup, Disconnect
<1>10. CASE ServerAudio
  <2> SUFFICES ASSUME consumer = "reference"
               PROVE  IF run' = "drain" THEN UpExact' /\ DownExact' ELSE Quiet'
    BY <1>10 DEF ServerAudio
  <2>1. /\ Len(up) \in Nat \ {0} /\ Head(up) = up[1]
        /\ Len(up') = Len(up) - 1 /\ \A i \in 1 .. Len(up) - 1 : up'[i] = up[i + 1]
    BY <1>10, TailFacts DEF ServerAudio
  <2>2. run = "drain" /\ run' = run /\ seg' = seg
    BY <1>10, <2>1 DEF ServerAudio
  <2>3. Len(up) = 2
    BY <1>10, <2>1, <2>2 DEF ServerAudio
  <2>4. Len(up') = 1 /\ up'[1].type = "commit"
    BY <2>1, <2>2, <2>3
  <2>5. Head(up).seg = seg /\ down = <<>> /\ heard = {} /\ inflight = {}
    BY <2>1, <2>2, <2>3
  <2>6. down' = <<>> /\ inflight' = {} /\ heard' \subseteq {seg}
    BY <1>10, <2>5 DEF ServerAudio
  <2>7. QED
    BY <2>2, <2>4, <2>6
<1>11. CASE ServerCommit
  <2> SUFFICES ASSUME consumer = "reference"
               PROVE  IF run' = "drain" THEN UpExact' /\ DownExact' ELSE Quiet'
    BY <1>11 DEF ServerCommit
  <2>1. /\ Len(up) \in Nat \ {0} /\ Head(up) = up[1] /\ (Len(up) = 1 => up' = <<>>)
    BY <1>11, TailFacts DEF ServerCommit
  <2>2. run = "drain" /\ run' = run /\ seg' = seg /\ seg \in Segs
    BY <1>11, <2>1 DEF ServerCommit
  <2>3. Len(up) = 1
    BY <1>11, <2>1, <2>2 DEF ServerCommit
  <2>4. up' = <<>> /\ down = <<>> /\ inflight = {} /\ heard \subseteq {seg}
    BY <2>1, <2>2, <2>3
  <2>5. CASE heard # {}
    <3>1. Reply(Event("committed", heard)) /\ inflight' = heard /\ heard' = {}
      BY <1>11, <2>4, <2>5 DEF ServerCommit
    <3>2. Event("committed", heard) \in ClientEvents /\ Event("committed", heard).type = "committed"
      BY EventFacts
    <3>3. Len(down') = 1 /\ down'[1] = Event("committed", heard)
      BY <2>4, <3>1, <3>2, ReplyFacts
    <3>4. QED
      BY <2>2, <2>4, <3>1, <3>2, <3>3
  <2>6. CASE heard = {}
    <3>1. Reply(Event("error", {})) /\ UNCHANGED <<heard, inflight>>
      BY <1>11, <2>6 DEF ServerCommit
    <3>2. Event("error", {}) \in ClientEvents /\ Event("error", {}).type = "error"
      BY EventFacts
    <3>3. Len(down') = 1 /\ down'[1] = Event("error", {})
      BY <2>4, <3>1, <3>2, ReplyFacts
    <3>4. QED
      BY <2>2, <2>4, <2>6, <3>1, <3>2, <3>3
  <2>7. QED
    BY <2>5, <2>6
<1>12. CASE ServerAnswers
  <2> SUFFICES ASSUME consumer = "reference"
               PROVE  IF run' = "drain" THEN UpExact' /\ DownExact' ELSE Quiet'
    BY <1>12 DEF ServerAnswers
  <2> DEFINE ev == Event("completed", inflight)
  <2>1. ev \in ClientEvents /\ ev.type = "completed" /\ ev.of = inflight
    BY EventFacts
  <2>2. /\ Len(down) \in Nat /\ Len(down') = Len(down) + 1 /\ down'[Len(down) + 1] = ev
        /\ \A i \in 1 .. Len(down) : down'[i] = down[i]
    BY <1>12, <2>1, ReplyFacts DEF ServerAnswers
  <2>3. run = "drain" /\ inflight = {seg} /\ inflight' = {}
        /\ UNCHANGED <<run, seg, up, heard>>
    BY <1>12 DEF ServerAnswers
  <2>4. Len(up) = 0
    BY <2>3
  <2>5. up = <<>> /\ heard = {}
    BY <2>3, <2>4, EmptySeq
  <2>6. DownExact'
    <3> SUFFICES ASSUME NEW i \in 1 .. Len(down')
                 PROVE  /\ down'[i].type = "completed" => down'[i].of = {seg}
                        /\ down'[i].type # "committed" => i = Len(down')
      BY <2>3, <2>5
    <3>1. CASE i \in 1 .. Len(down)
      BY <2>2, <2>3, <3>1
    <3>2. CASE i = Len(down) + 1
      BY <2>1, <2>2, <2>3, <3>2
    <3>3. QED
      BY <2>2, <3>1, <3>2
  <2>7. QED
    BY <2>3, <2>5, <2>6
<1>13. CASE ServerDecodeFails
  <2> SUFFICES ASSUME consumer = "reference"
               PROVE  IF run' = "drain" THEN UpExact' /\ DownExact' ELSE Quiet'
    BY <1>13 DEF ServerDecodeFails
  <2> DEFINE ev == Event("failed", inflight)
  <2>1. ev \in ClientEvents /\ ev.type = "failed" /\ ev.of = inflight
    BY EventFacts
  <2>2. /\ Len(down) \in Nat /\ Len(down') = Len(down) + 1 /\ down'[Len(down) + 1] = ev
        /\ \A i \in 1 .. Len(down) : down'[i] = down[i]
    BY <1>13, <2>1, ReplyFacts DEF ServerDecodeFails
  <2>3. run = "drain" /\ inflight = {seg} /\ inflight' = {}
        /\ UNCHANGED <<run, seg, up, heard>>
    BY <1>13 DEF ServerDecodeFails
  <2>4. Len(up) = 0
    BY <2>3
  <2>5. up = <<>> /\ heard = {}
    BY <2>3, <2>4, EmptySeq
  <2>6. DownExact'
    <3> SUFFICES ASSUME NEW i \in 1 .. Len(down')
                 PROVE  /\ down'[i].type = "completed" => down'[i].of = {seg}
                        /\ down'[i].type # "committed" => i = Len(down')
      BY <2>3, <2>5
    <3>1. CASE i \in 1 .. Len(down)
      BY <2>2, <2>3, <3>1
    <3>2. CASE i = Len(down) + 1
      BY <2>1, <2>2, <2>3, <3>2
    <3>3. QED
      BY <2>2, <3>1, <3>2
  <2>7. QED
    BY <2>3, <2>5, <2>6
<1>14. CASE Break
  BY <1>14 DEF Break
<1>15. CASE Notice
  BY <1>15 DEF Notice
<1>16. CASE UNCHANGED clientVars
  BY <1>16 DEF clientVars
<1>17. QED
  BY <1>1, <1>2, <1>3, <1>4, <1>5, <1>6, <1>7, <1>8, <1>9, <1>10, <1>11, <1>12, <1>13, <1>14, <1>15, <1>16 DEF ClientNext

\* AnswerIsOwn is preserved.
LEMMA AnswerStep ==
    ASSUME ClientInv, [ClientNext]_clientVars PROVE AnswerIsOwn'
<1> USE ClientAssumption DEF ClientInv, ClientTypeOK, RunExact, LinkExact, AnswerIsOwn, AnswersOwn, Segs, Outcomes, sessionVars, resultVars
<1>1. CASE BeginSegment
  BY <1>1 DEF BeginSegment
<1>2. CASE Connect
  BY <1>2 DEF Connect
<1>3. CASE ConnectFails
  BY <1>3 DEF ConnectFails
<1>4. CASE SendSegment
  BY <1>4 DEF SendSegment
<1>5. CASE SendFails
  BY <1>5 DEF SendFails, ConcludeSegment
<1>6. CASE ReadEvent
  <2>1. CASE run' = "drain"
    BY <1>6, <2>1 DEF ReadEvent, ConcludeSegment
  <2>2. CASE run' # "drain"
    <3>1. PICK how \in {"text", "blank", "error"} : outcome' = [outcome EXCEPT ![seg] = how]
      BY <1>6, <2>2 DEF ReadEvent, ConcludeSegment
    <3>2. /\ how # "text" => \A s \in Segs \ {seg} : answer'[s] = answer[s]
          /\ how = "text" => /\ Head(down).type = "completed"
                             /\ answer' = [answer EXCEPT ![seg] = Head(down).of]
      BY <1>6, <2>2, <3>1 DEF ReadEvent, ConcludeSegment
    <3>3. Head(down) = down[1] /\ Len(down) \in Nat \ {0}
      BY <1>6, TailFacts DEF ReadEvent
    <3>4. consumer = "reference" /\ how = "text" => Head(down).of = {seg}
      BY <1>6, <3>2, <3>3 DEF ReadEvent, DownExact
    <3>5. QED
      BY <1>6, <3>1, <3>2, <3>4 DEF ReadEvent
  <2>3. QED
    BY <2>1, <2>2
<1>7. CASE ReadEnd
  BY <1>7 DEF ReadEnd, ConcludeSegment
<1>8. CASE AbandonSegment
  BY <1>8 DEF AbandonSegment, ConcludeSegment, Disconnect
<1>9. CASE ServiceCleanup
  BY <1>9 DEF ServiceCleanup, Disconnect
<1>10. CASE ServerAudio
  BY <1>10 DEF ServerAudio, Reply
<1>11. CASE ServerCommit
  BY <1>11 DEF ServerCommit, Reply
<1>12. CASE ServerAnswers
  BY <1>12 DEF ServerAnswers, Reply
<1>13. CASE ServerDecodeFails
  BY <1>13 DEF ServerDecodeFails, Reply
<1>14. CASE Break
  BY <1>14 DEF Break
<1>15. CASE Notice
  BY <1>15 DEF Notice
<1>16. CASE UNCHANGED clientVars
  BY <1>16 DEF clientVars
<1>17. QED
  BY <1>1, <1>2, <1>3, <1>4, <1>5, <1>6, <1>7, <1>8, <1>9, <1>10, <1>11, <1>12, <1>13, <1>14, <1>15, <1>16 DEF ClientNext

LEMMA NextClientInv == ClientInv /\ [ClientNext]_clientVars => ClientInv'
BY TypeStep, RunStep, LinkStep, AnswerStep DEF ClientInv

LEMMA SpecClientInv == ClientSpec => []ClientInv
BY InitClientInv, NextClientInv, PTL DEF ClientSpec

-----------------------------------------------------------------------------
\* Every variable keeps its type.
THEOREM ClientTypeCorrect == ClientSpec => []ClientTypeOK
<1>1. ClientInv => ClientTypeOK
  BY DEF ClientInv
<1>2. QED
  BY SpecClientInv, <1>1, PTL

\* A consumer that tears its session down with an abandoned segment never reads
\* another segment's transcript.
THEOREM AnswersKept == ClientSpec => []AnswerIsOwn
<1>1. ClientInv => AnswerIsOwn
  BY DEF ClientInv
<1>2. QED
  BY SpecClientInv, <1>1, PTL

\* A dead connection costs two segments at most.
THEOREM TwoLost == ClientSpec => []DeadLinkCostsTwo
<1>1. ClientInv => DeadLinkCostsTwo
  BY DEF ClientInv, RunExact, DeadLinkCostsTwo
<1>2. QED
  BY SpecClientInv, <1>1, PTL

=============================================================================
