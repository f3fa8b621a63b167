---------------------------- MODULE SessionProofs ----------------------------
(***************************************************************************)
(* Proofs about Session for every buffer cap and every pair of limits: the *)
(* types, that no audio is buffered while a decode is in flight, that a    *)
(* decode never outlives its handler, and that the events on the wire keep *)
(* the contract of SessionContract.                                        *)
(***************************************************************************)
EXTENDS Session, TLAPS

(* What sending does to the connection and to the task that sends. *)

\* The parts of TypeOK and SendsPending that a send touches.
SendTypes ==
    /\ conn \in {"open", "closing", "lost"}
    /\ pending \in Nat /\ paused \in BOOLEAN
    /\ mutex \in {{}, {"handler"}, {"decode"}}
    /\ view \in [stage : {"idle", "committed", "partial", "broken"}, ended : BOOLEAN]
    /\ todo \in [Tasks -> Seq(Events)]
    /\ io \in [Tasks -> {"run", "lock", "drain", "gone"}]
    /\ \A t \in Tasks : io[t] # "run" => todo[t] # <<>>

\* The event at the head is one of the events, and the rest are.
LEMMA HeadAndTail ==
  ASSUME NEW s \in Seq(Events), s # <<>>
  PROVE  Head(s) \in Events /\ Tail(s) \in Seq(Events)
OBVIOUS

\* What the client can conclude stays in its type.
LEMMA ShownType ==
  ASSUME NEW e, view \in [stage : {"idle", "committed", "partial", "broken"}, ended : BOOLEAN]
  PROVE  Shown(e) \in [stage : {"idle", "committed", "partial", "broken"}, ended : BOOLEAN]
BY DEF Shown

\* A send that is over, and one that waits.
LEMMA SendOverTypes ==
  ASSUME SendTypes, NEW t \in Tasks, SendOver(t), todo[t] # <<>>
  PROVE  /\ todo' \in [Tasks -> Seq(Events)]
         /\ io' \in [Tasks -> {"run", "lock", "drain", "gone"}]
         /\ \A u \in Tasks : io'[u] # "run" => todo'[u] # <<>> /\ io[u] # "run"
<1>1. Tail(todo[t]) \in Seq(Events)
  BY HeadAndTail DEF SendTypes
<1>2. \A u \in Tasks : io'[u] = IF u = t THEN "run" ELSE io[u]
  BY DEF SendTypes, SendOver
<1>3. \A u \in Tasks \ {t} : todo'[u] = todo[u]
  BY DEF SendTypes, SendOver
<1> QED BY <1>1, <1>2, <1>3 DEF SendTypes, SendOver

LEMMA SendWaitsTypes ==
  ASSUME SendTypes, NEW t \in Tasks, NEW how \in {"lock", "drain", "gone"},
         SendWaits(t, how), todo[t] # <<>>
  PROVE  /\ todo' \in [Tasks -> Seq(Events)]
         /\ io' \in [Tasks -> {"run", "lock", "drain", "gone"}]
         /\ \A u \in Tasks : io'[u] # "run" => todo'[u] # <<>> /\ (u = t \/ io[u] # "run")
BY DEF SendTypes, SendWaits

\* Writing keeps the types; only the writer can become suspended.
LEMMA WriteTypes ==
  ASSUME SendTypes, NEW t \in Tasks, Write(t), todo[t] # <<>>
  PROVE  SendTypes' /\ \A u \in Tasks : io'[u] # "run" => u = t \/ io[u] # "run"
<1>1. /\ conn' \in {"open", "closing", "lost"}
      /\ pending' \in Nat /\ paused' \in BOOLEAN
      /\ mutex' \in {{}, {"handler"}, {"decode"}}
      /\ view' \in [stage : {"idle", "committed", "partial", "broken"}, ended : BOOLEAN]
  <2>1. \A e : Shown(e) \in [stage : {"idle", "committed", "partial", "broken"},
                            ended : BOOLEAN]
    BY ShownType DEF SendTypes
  <2>2. CASE UNCHANGED connVars
    BY <2>2 DEF SendTypes, connVars
  <2>3. CASE conn' = "closing" /\ UNCHANGED <<pending, paused, view>>
    BY <2>3 DEF SendTypes, Write, Tasks, connVars
  <2>4. CASE /\ pending' = pending + 1 /\ paused' = (paused \/ pending' > WriteLimit)
             /\ view' = Shown(Head(todo[t])) /\ (mutex' = {t} \/ mutex' = mutex)
             /\ UNCHANGED conn
    <3>1. pending' \in Nat
      BY <2>4 DEF SendTypes
    <3>2. paused' \in BOOLEAN
      BY <2>4 DEF SendTypes
    <3>3. mutex' \in {{}, {"handler"}, {"decode"}}
      BY <2>4 DEF SendTypes, Tasks
    <3> QED BY <2>1, <2>4, <3>1, <3>2, <3>3 DEF SendTypes
  <2> QED BY <2>2, <2>3, <2>4 DEF Write
<1>2. SendOver(t) \/ SendWaits(t, "drain") \/ SendWaits(t, "gone")
  BY DEF Write
<1>3. CASE SendOver(t)
  BY <1>1, <1>3, SendOverTypes DEF SendTypes
<1>4. CASE SendWaits(t, "drain")
  BY <1>1, <1>4, SendWaitsTypes DEF SendTypes
<1>5. CASE SendWaits(t, "gone")
  BY <1>1, <1>5, SendWaitsTypes DEF SendTypes
<1> QED BY <1>2, <1>3, <1>4, <1>5

\* A step of a send keeps the types, and moves no task.
LEMMA SendKeeps ==
  ASSUME TaskInv, NEW t \in Tasks, SendNext(t)
  PROVE  /\ SendTypes' /\ closed' \in BOOLEAN
         /\ UNCHANGED <<handler, decode, asked, buffer, stopping>>
         /\ \A u \in Tasks : io'[u] # "run" => (u = t /\ Running(t)) \/ io[u] # "run"
<1>1. SendTypes /\ closed \in BOOLEAN
  BY DEF TaskInv, TypeOK, SendsPending, SendTypes
<1>2. CASE Send(t) /\ Overflows(Head(todo[t]))
  <2>1. Tail(todo[t]) \in Seq(Events) /\ "bye" \in Events
    BY <1>1, <1>2, HeadAndTail DEF Send, SendTypes, Events
  <2>2. <<"bye">> \o Tail(todo[t]) \in Seq(Events) /\ <<"bye">> \o Tail(todo[t]) # <<>>
    BY <2>1
  <2>3. io' = io /\ todo' = [todo EXCEPT ![t] = <<"bye">> \o Tail(todo[t])]
    BY <1>2 DEF Send
  <2>4. /\ todo' \in [Tasks -> Seq(Events)]
        /\ \A u \in Tasks : io'[u] # "run" => todo'[u] # <<>>
    BY <1>1, <2>2, <2>3 DEF SendTypes
  <2> QED BY <1>1, <1>2, <2>3, <2>4 DEF Send, SendTypes, connVars
<1>3. CASE Send(t) /\ ~Overflows(Head(todo[t]))
  <2>1. CASE Write(t)
    BY <1>1, <1>3, <2>1, WriteTypes DEF Send
  <2>2. CASE SendWaits(t, "lock") /\ UNCHANGED connVars
    BY <1>1, <1>3, <2>2, SendWaitsTypes DEF Send, SendTypes, connVars
  <2> QED BY <1>3, <2>1, <2>2 DEF Send
<1>4. CASE SendLocked(t)
  <2>1. io[t] # "run" /\ todo[t] # <<>>
    BY <1>1, <1>4 DEF SendLocked, SendTypes
  <2> QED BY <1>1, <1>4, <2>1, WriteTypes DEF SendLocked
<1>5. CASE SendDrained(t)
  <2>1. io[t] # "run" /\ todo[t] # <<>>
    BY <1>1, <1>5 DEF SendDrained, SendTypes
  <2>2. CASE SendWaits(t, "gone")
    BY <1>1, <1>5, <2>1, <2>2, SendWaitsTypes DEF SendDrained, SendTypes
  <2>3. CASE SendOver(t)
    BY <1>1, <1>5, <2>1, <2>3, SendOverTypes DEF SendDrained, SendTypes
  <2> QED BY <1>5, <2>2, <2>3 DEF SendDrained
<1>6. CASE SendGone(t)
  <2>1. io[t] # "run" /\ todo[t] # <<>>
    BY <1>1, <1>6 DEF SendGone, SendTypes
  <2> QED BY <1>1, <1>6, <2>1, SendOverTypes DEF SendGone, SendTypes, connVars
<1> QED BY <1>2, <1>3, <1>4, <1>5, <1>6 DEF SendNext

(* Where the tasks are. *)

\* Sending keeps it: the tasks stay where they are.
LEMMA SendInv == ASSUME TaskInv, NEW t \in Tasks, SendNext(t) PROVE TaskInv'
<1>1. /\ SendTypes' /\ closed' \in BOOLEAN
      /\ UNCHANGED <<handler, decode, asked, buffer, stopping>>
      /\ \A u \in Tasks : io'[u] # "run" => (u = t /\ Running(t)) \/ io[u] # "run"
  BY SendKeeps
<1>2. TypeOK'
  BY <1>1 DEF TaskInv, TypeOK, SendTypes
<1>3. SendsPending'
  BY <1>1 DEF TaskInv, SendsPending, SendTypes, Running, Tasks
<1>4. SpawnsAlone' /\ BufferClosedInFlight' /\ NoOrphanDecode'
  BY <1>1 DEF TaskInv, SpawnsAlone, BufferClosedInFlight, NoOrphanDecode, InFlight
<1> QED BY <1>2, <1>3, <1>4 DEF TaskInv

\* A request keeps it.
LEMMA RequestInv == ASSUME TaskInv, RequestNext PROVE TaskInv'
<1> USE DEF RequestNext, AppendAudio, Refuse, Inform, Clear, Commit, Close, Cancel,
            Answer, Farewell, Reads, taskVars, connVars
<1>1. todo' \in [Tasks -> Seq(Events)] /\ io' = io /\ io["handler"] = "run"
  <2>1. /\ <<"error">> \in Seq(Events) /\ <<"reply", "reply">> \in Seq(Events)
        /\ <<"reply">> \in Seq(Events) /\ <<"cleared">> \in Seq(Events)
        /\ <<"committed">> \in Seq(Events) /\ <<"closed", "bye">> \in Seq(Events)
    BY DEF Events
  <2>2. todo' = todo \/ \E e \in Seq(Events) : todo' = [todo EXCEPT !["handler"] = e]
    BY <2>1
  <2>3. todo' \in [Tasks -> Seq(Events)]
    BY ONLY TaskInv, <2>2 DEF TaskInv, TypeOK
  <2>4. io' = io
    OBVIOUS
  <2>5. io["handler"] = "run"
    BY DEF TaskInv, SendsPending
  <2> QED BY <2>3, <2>4, <2>5
<1>2. TypeOK'
  <2>1. buffer' \in 0 .. MaxBuffer
    BY SessionAssumption DEF TaskInv, TypeOK
  <2>2. /\ handler' \in {"recv", "reply", "commit", "farewell", "closewait", "unwind",
                        "teardown", "over"}
        /\ asked' \subseteq Tasks /\ closed' \in BOOLEAN
        /\ UNCHANGED <<decode, stopping, connVars>>
    BY DEF TaskInv, TypeOK, Tasks
  <2> QED BY <1>1, <2>1, <2>2 DEF TaskInv, TypeOK
<1>3. SendsPending'
  <2>1. todo'["decode"] = todo["decode"] /\ decode' = decode
    BY DEF TaskInv, TypeOK, Tasks
  <2> QED BY <1>1, <2>1 DEF TaskInv, SendsPending, Tasks
<1>4. SpawnsAlone' /\ BufferClosedInFlight' /\ NoOrphanDecode'
  BY DEF TaskInv, SpawnsAlone, BufferClosedInFlight, NoOrphanDecode, InFlight, TypeOK
<1> QED BY <1>2, <1>3, <1>4 DEF TaskInv

\* The handler's own steps keep it.
LEMMA HandlerInv == ASSUME TaskInv, HandlerNext \/ CloseTimeout PROVE TaskInv'
<1>1. CASE SendNext("handler")
  BY <1>1, SendInv DEF Tasks
<1>2. CASE \/ HandlerContinues \/ HandlerStops \/ CloseWaited
           \/ Unwound \/ TornDown \/ CloseTimeout
  <2> USE <1>2 DEF HandlerContinues, HandlerStops, CloseWaited, Unwound,
                   TornDown, CloseTimeout, Teardown, Farewell, Running, taskVars, connVars
  <2>1. todo' \in [Tasks -> Seq(Events)] /\ io' = io /\ io["handler"] = "run"
    <3>1. <<"closed", "bye">> \in Seq(Events)
      BY DEF Events
    <3>2. todo' = todo \/ todo' = [todo EXCEPT !["handler"] = <<"closed", "bye">>]
      OBVIOUS
    <3>3. io' = io /\ io["handler"] = "run"
      BY DEF TaskInv, TypeOK, SendsPending
    <3> QED BY <3>1, <3>2, <3>3 DEF TaskInv, TypeOK
  <2>2. TypeOK'
    <3>1. /\ handler' \in {"recv", "reply", "commit", "farewell", "closewait", "unwind",
                          "teardown", "over"}
          /\ decode' \in {"none", "created", "decoding", "sending", "done", "cancelled"}
      BY DEF TaskInv, TypeOK
    <3>2. asked' \subseteq Tasks /\ closed' \in BOOLEAN
      BY DEF TaskInv, TypeOK, Tasks
    <3>3. UNCHANGED <<conn, pending, paused, mutex, view, buffer, stopping>>
      OBVIOUS
    <3> HIDE <1>2
    <3> QED BY <2>1, <3>1, <3>2, <3>3 DEF TaskInv, TypeOK
  <2>3. SendsPending'
    <3>1. /\ todo'["decode"] = todo["decode"]
          /\ decode' = decode \/ (decode' = "created" /\ decode # "sending")
      BY DEF TaskInv, TypeOK, Tasks, SpawnsAlone, InFlight
    <3> QED BY <2>1, <3>1 DEF TaskInv, SendsPending, Tasks
  <2>4. SpawnsAlone' /\ BufferClosedInFlight' /\ NoOrphanDecode'
    BY DEF TaskInv, SpawnsAlone, BufferClosedInFlight, NoOrphanDecode, InFlight, TypeOK
  <2> QED BY <2>2, <2>3, <2>4 DEF TaskInv
<1>3. CASE HandlerCancelled
  <2> USE <1>3 DEF HandlerCancelled, Teardown
  <2>1. <<>> \in Seq(Events)
    OBVIOUS
  <2>2. TypeOK'
    <3>1. /\ handler' \in {"recv", "reply", "commit", "farewell", "closewait", "unwind",
                          "teardown", "over"}
          /\ decode' \in {"none", "created", "decoding", "sending", "done", "cancelled"}
      BY DEF TaskInv, TypeOK
    <3>2. asked' \subseteq Tasks /\ closed' \in BOOLEAN
      BY DEF TaskInv, TypeOK, Tasks
    <3>3. /\ mutex' \in {{}, {"handler"}, {"decode"}}
          /\ todo' \in [Tasks -> Seq(Events)]
          /\ io' \in [Tasks -> {"run", "lock", "drain", "gone"}]
      BY <2>1 DEF TaskInv, TypeOK
    <3>4. UNCHANGED <<conn, pending, paused, view, buffer, stopping>>
      OBVIOUS
    <3> HIDE <1>3
    <3> QED BY <3>1, <3>2, <3>3, <3>4 DEF TaskInv, TypeOK
  <2>3. SendsPending'
    BY DEF TaskInv, TypeOK, SendsPending, Tasks
  <2>4. SpawnsAlone' /\ BufferClosedInFlight' /\ NoOrphanDecode'
    BY DEF TaskInv, SpawnsAlone, BufferClosedInFlight, NoOrphanDecode, InFlight, TypeOK
  <2> QED BY <2>2, <2>3, <2>4 DEF TaskInv
<1> QED BY <1>1, <1>2, <1>3 DEF HandlerNext

\* The decode task's steps keep it.
LEMMA DecodeInv == ASSUME TaskInv, DecodeNext \/ DecodeAnswers PROVE TaskInv'
<1>1. CASE SendNext("decode")
  BY <1>1, SendInv DEF Tasks
<1>2. CASE DecodeStarts \/ DecodeAnswers \/ DecodeEnds
  <2> USE <1>2 DEF DecodeStarts, DecodeAnswers, DecodeEnds, Running, connVars
  <2>1. todo' \in [Tasks -> Seq(Events)] /\ io' = io /\ io["decode"] = "run"
    <3>1. /\ <<"completed">> \in Seq(Events) /\ <<"failed">> \in Seq(Events)
          /\ <<"delta", "completed">> \in Seq(Events)
      BY DEF Events
    <3>2. todo' = todo \/ \E e \in Seq(Events) : todo' = [todo EXCEPT !["decode"] = e]
      BY <3>1
    <3> QED BY <3>2 DEF TaskInv, TypeOK, SendsPending
  <2>2. TypeOK'
    <3>1. /\ handler' \in {"recv", "reply", "commit", "farewell", "closewait", "unwind",
                          "teardown", "over"}
          /\ decode' \in {"none", "created", "decoding", "sending", "done", "cancelled"}
      BY DEF TaskInv, TypeOK
    <3>2. asked' \subseteq Tasks /\ closed' \in BOOLEAN
      BY DEF TaskInv, TypeOK, Tasks
    <3>3. UNCHANGED <<conn, pending, paused, mutex, view, buffer, stopping>>
      OBVIOUS
    <3> HIDE <1>2
    <3> QED BY <2>1, <3>1, <3>2, <3>3 DEF TaskInv, TypeOK
  <2>3. SendsPending'
    <3>1. todo'["handler"] = todo["handler"] /\ handler' = handler
      BY DEF TaskInv, TypeOK, Tasks
    <3> QED BY <2>1, <3>1 DEF TaskInv, SendsPending, Tasks
  <2>4. SpawnsAlone' /\ BufferClosedInFlight' /\ NoOrphanDecode'
    BY DEF TaskInv, SpawnsAlone, BufferClosedInFlight, NoOrphanDecode, InFlight, TypeOK
  <2> QED BY <2>2, <2>3, <2>4 DEF TaskInv
<1>3. CASE DecodeCancelled
  <2> USE <1>3 DEF DecodeCancelled
  <2>1. <<>> \in Seq(Events)
    OBVIOUS
  <2>2. TypeOK'
    BY <2>1 DEF TaskInv, TypeOK, Tasks
  <2>3. SendsPending'
    BY DEF TaskInv, TypeOK, SendsPending, Tasks
  <2>4. SpawnsAlone' /\ BufferClosedInFlight' /\ NoOrphanDecode'
    BY DEF TaskInv, SpawnsAlone, BufferClosedInFlight, NoOrphanDecode, InFlight
  <2> QED BY <2>2, <2>3, <2>4 DEF TaskInv
<1> QED BY <1>1, <1>2, <1>3 DEF DecodeNext

\* The client, the connection and shutdown() keep it, and so does a stutter.
LEMMA OutsideInv == ASSUME TaskInv, OutsideNext \/ UNCHANGED vars PROVE TaskInv'
<1> USE DEF OutsideNext, ClientReads, ClientCloses, ConnectionLost, HandlerReturned,
            ShutdownBegins, ShutdownCloses, ShutdownCancels, taskVars, connVars, vars
<1>1. TypeOK'
  <2>1. pending' \in Nat
    BY DEF TaskInv, TypeOK
  <2>2. paused' \in BOOLEAN
    <3>1. paused' = paused \/ paused' = FALSE \/ paused' = (paused /\ pending' > LowWater)
      BY Zenon
    <3> QED BY <3>1 DEF TaskInv, TypeOK
  <2>3. asked' \subseteq Tasks
    BY DEF TaskInv, TypeOK, Tasks
  <2>4. /\ conn' \in {"open", "closing", "lost"} /\ stopping' \in BOOLEAN
        /\ UNCHANGED <<mutex, view, handler, decode, todo, io, buffer, closed>>
    BY DEF TaskInv, TypeOK
  <2> QED BY <2>1, <2>2, <2>3, <2>4 DEF TaskInv, TypeOK
<1>2. SendsPending'
  BY DEF TaskInv, SendsPending
<1>3. SpawnsAlone' /\ BufferClosedInFlight' /\ NoOrphanDecode'
  BY DEF TaskInv, SpawnsAlone, BufferClosedInFlight, NoOrphanDecode, InFlight
<1> QED BY <1>1, <1>2, <1>3 DEF TaskInv

LEMMA TaskInit == Init => TaskInv
<1> SUFFICES ASSUME Init PROVE TaskInv
  OBVIOUS
<1>1. <<"hello", "reply", "reply">> \in Seq(Events) /\ <<>> \in Seq(Events)
  BY DEF Events
<1>2. todo \in [Tasks -> Seq(Events)] /\ io \in [Tasks -> {"run", "lock", "drain", "gone"}]
  BY <1>1 DEF Init
<1>3. buffer \in 0 .. MaxBuffer
  BY SessionAssumption DEF Init
<1>4. TypeOK
  BY <1>2, <1>3 DEF Init, TypeOK
<1>5. SendsPending /\ SpawnsAlone /\ BufferClosedInFlight /\ NoOrphanDecode
  BY DEF Init, SendsPending, SpawnsAlone, BufferClosedInFlight, NoOrphanDecode, InFlight, Tasks
<1> QED BY <1>4, <1>5 DEF TaskInv

LEMMA TaskStep == TaskInv /\ [Next]_vars => TaskInv'
BY RequestInv, HandlerInv, DecodeInv, OutsideInv DEF Next

-----------------------------------------------------------------------------
(* What the client sees. *)

\* The sequences that are sent, one event after the other.
LEMMA EventSequences ==
    /\ Head(<<"committed">>) = "committed" /\ Tail(<<"committed">>) = <<>>
    /\ Head(<<"completed">>) = "completed" /\ Tail(<<"completed">>) = <<>>
    /\ Head(<<"failed">>) = "failed" /\ Tail(<<"failed">>) = <<>>
    /\ Head(<<"delta", "completed">>) = "delta"
    /\ Tail(<<"delta", "completed">>) = <<"completed">>
    /\ Head(<<"closed", "bye">>) = "closed" /\ Tail(<<"closed", "bye">>) = <<"bye">>
    /\ Head(<<"bye">>) = "bye" /\ <<"bye">> # <<>>
OBVIOUS

\* What an event shows before the end of the session.
LEMMA ShownStage ==
  ASSUME TypeOK, ~view.ended, NEW e
  PROVE  /\ e \in {"hello", "reply", "error", "cleared"} => Shown(e) = view
         /\ e = "committed" /\ view.stage = "idle" =>
              Shown(e).stage = "committed" /\ ~Shown(e).ended
         /\ e = "delta" /\ view.stage = "committed" =>
              Shown(e).stage = "partial" /\ ~Shown(e).ended
         /\ e \in {"completed", "failed"} /\ view.stage \in {"committed", "partial"} =>
              Shown(e).stage = "idle" /\ ~Shown(e).ended
         /\ e = "closed" => Shown(e).stage = view.stage /\ Shown(e).ended
BY DEF TypeOK, Shown

\* The rest of some plain answers is some plain answers.
LEMMA PlainTail ==
  ASSUME NEW s \in Seq(Events), s # <<>>,
         \A i \in 1 .. Len(s) : s[i] \in {"hello", "reply", "error", "cleared"}
  PROVE  \A i \in 1 .. Len(Tail(s)) : Tail(s)[i] \in {"hello", "reply", "error", "cleared"}
<1>1. \A i \in 1 .. Len(Tail(s)) : i + 1 \in 1 .. Len(s) /\ Tail(s)[i] = s[i + 1]
  OBVIOUS
<1> QED BY <1>1

\* On a connection on which nothing can be written any more, nothing is shown.
LEMMA Offline ==
  ASSUME WireExact, CancelsEnd', conn' # "open", view' = view
  PROVE  WireExact'
BY DEF WireExact

\* The handler writes an event: what it shows, and that the contract allows it.
LEMMA HandlerWrites ==
  ASSUME TaskInv, WireExact, conn = "open", todo["handler"] # <<>>,
         handler \in {"reply", "commit", "farewell"}, io["handler"] \in {"run", "lock"},
         Head(todo["handler"]) # "bye", view' = Shown(Head(todo["handler"]))
  PROVE  /\ Contract!ContractNext \/ view' = view
         /\ handler = "reply" => view' = view
         /\ handler = "commit" =>
              todo["handler"] = <<"committed">> /\ view'.stage = "committed" /\ ~view'.ended
         /\ handler = "farewell" =>
              /\ todo["handler"] = <<"closed", "bye">>
              /\ view'.stage = view.stage /\ view'.ended
<1> ~Dropped("handler") /\ TypeOK
  BY DEF Dropped, TaskInv
<1>1. CASE handler = "reply"
  <2>1. 1 \in 1 .. Len(todo["handler"]) /\ Head(todo["handler"]) = todo["handler"][1]
    BY DEF TypeOK, Tasks
  <2>2. Head(todo["handler"]) \in {"hello", "reply", "error", "cleared"} /\ ~view.ended
    BY <1>1, <2>1 DEF WireExact, AnswersExact, FarewellExact
  <2> QED BY <1>1, <2>2, ShownStage
<1>2. CASE handler = "commit"
  <2>1. todo["handler"] = <<"committed">> /\ view.stage = "idle" /\ ~view.ended
    BY <1>2 DEF WireExact, AnswersExact, FarewellExact
  <2>2. Head(todo["handler"]) = "committed"
    BY <2>1
  <2>3. view'.stage = "committed" /\ ~view'.ended
    BY <2>1, <2>2, ShownStage
  <2>4. view'.ended = view.ended
    BY <2>1, <2>2 DEF Shown, TypeOK
  <2> QED BY <1>2, <2>1, <2>3, <2>4 DEF Contract!ContractNext, Contract!Announce
<1>3. CASE handler = "farewell"
  <2>1. todo["handler"] = <<"closed", "bye">> /\ ~view.ended
    BY <1>3 DEF WireExact, FarewellExact
  <2>2. Head(todo["handler"]) = "closed"
    BY <2>1
  <2>3. view'.stage = view.stage /\ view'.ended
    BY <2>1, <2>2, ShownStage
  <2>4. view'.ended = TRUE
    BY <2>1, <2>2 DEF Shown, TypeOK
  <2> QED BY <1>3, <2>1, <2>3, <2>4 DEF Contract!ContractNext, Contract!End
<1> QED BY <1>1, <1>2, <1>3

\* The decode writes an event, which it does in a session that has not ended.
LEMMA DecodeWrites ==
  ASSUME TaskInv, WireExact, conn = "open", todo["decode"] # <<>>,
         decode = "sending", io["decode"] \in {"run", "lock"},
         Running("decode") \/ "decode" \notin asked,
         Head(todo["decode"]) # "bye", view' = Shown(Head(todo["decode"]))
  PROVE  /\ Contract!ContractNext
         /\ ~view.ended /\ ~view'.ended
         /\ \/ todo["decode"] = <<"delta", "completed">> /\ view'.stage = "partial"
            \/ todo["decode"] \in {<<"completed">>, <<"failed">>} /\ view'.stage = "idle"
<1> ~Dropped("decode") /\ TypeOK
  BY DEF Dropped, TaskInv
<1>1. ~view.ended
  BY DEF WireExact, FarewellExact, CancelsEnd, TaskInv, NoOrphanDecode, InFlight
<1>2. CASE todo["decode"] = <<"delta", "completed">>
  <2>1. Head(todo["decode"]) = "delta" /\ view.stage = "committed"
    BY <1>2 DEF WireExact, DecodeExact
  <2>2. view'.stage = "partial" /\ ~view'.ended
    BY <1>1, <2>1, ShownStage
  <2>3. view'.ended = view.ended
    BY <1>1, <2>1 DEF Shown, TypeOK
  <2> QED BY <1>1, <1>2, <2>1, <2>2, <2>3 DEF Contract!ContractNext, Contract!Partial
<1>3. CASE todo["decode"] \in {<<"completed">>, <<"failed">>}
  <2>1. /\ Head(todo["decode"]) \in {"completed", "failed"}
        /\ view.stage \in {"committed", "partial"}
    BY <1>3 DEF WireExact, DecodeExact
  <2>2. view'.stage = "idle" /\ ~view'.ended
    BY <1>1, <2>1, ShownStage
  <2>3. view'.ended = view.ended
    BY <1>1, <2>1 DEF Shown, TypeOK
  <2> QED BY <1>1, <1>3, <2>1, <2>2, <2>3 DEF Contract!ContractNext, Contract!Conclude
<1> QED BY <1>2, <1>3 DEF WireExact, DecodeExact

\* A step of a send, on a connection that is open: the event is replaced, it waits
\* for the lock, it is written or it has been, or the close handshake begins.
LEMMA SendCases ==
  ASSUME TaskInv, WireExact, NEW t \in Tasks, SendNext(t), conn = "open"
  PROVE  \/ /\ conn' = "open" /\ view' = view /\ io' = io /\ io[t] = "run"
            /\ Dropped(t)' /\ \A u \in Tasks \ {t} : todo'[u] = todo[u]
         \/ /\ conn' = "open" /\ view' = view /\ io[t] = "run"
            /\ io' = [io EXCEPT ![t] = "lock"] /\ todo' = todo
         \/ /\ conn' # "open" /\ view' = view
         \/ /\ conn' = "open" /\ io[t] \in {"run", "lock"}
            /\ Running(t) \/ t \notin asked
            /\ todo[t] # <<>> /\ Head(todo[t]) # "bye"
            /\ view' = Shown(Head(todo[t]))
            /\ SendOver(t) \/ SendWaits(t, "drain")
         \/ /\ conn' = "open" /\ view' = view /\ io[t] = "drain" /\ t \notin asked
            /\ todo[t] # <<>> /\ Head(todo[t]) # "bye" /\ SendOver(t)
<1>1. TypeOK /\ SendsPending
  BY DEF TaskInv
<1>2. CASE Send(t) /\ Overflows(Head(todo[t]))
  <2>1. io[t] = "run" /\ conn' = "open" /\ view' = view /\ io' = io
    BY <1>2 DEF Send, Running, connVars
  <2>2. todo' = [todo EXCEPT ![t] = <<"bye">> \o Tail(todo[t])]
    BY <1>2 DEF Send
  <2>3. todo[t] \in Seq(Events) /\ todo[t] # <<>>
    BY <1>1, <1>2 DEF TypeOK, Send
  <2>4. Tail(todo[t]) \in Seq(Events) /\ "bye" \in Events
    BY <2>3, HeadAndTail DEF Events
  <2>5. /\ <<"bye">> \o Tail(todo[t]) # <<>>
        /\ Head(<<"bye">> \o Tail(todo[t])) = "bye"
    BY <2>4
  <2>6. todo'[t] = <<"bye">> \o Tail(todo[t])
    BY <1>1, <2>2 DEF TypeOK
  <2>7. Dropped(t)'
    BY <2>5, <2>6 DEF Dropped
  <2>8. \A u \in Tasks \ {t} : todo'[u] = todo[u]
    BY <1>1, <2>2 DEF TypeOK
  <2> QED BY <2>1, <2>7, <2>8
<1>3. CASE Send(t) /\ ~Overflows(Head(todo[t])) /\ SendWaits(t, "lock") /\ UNCHANGED connVars
  BY <1>3 DEF Send, SendWaits, Running, connVars
<1>4. CASE Write(t) /\ (Send(t) \/ SendLocked(t))
  <2>1. io[t] \in {"run", "lock"} /\ todo[t] # <<>> /\ (Running(t) \/ t \notin asked)
    BY <1>1, <1>4 DEF Send, SendLocked, Running, Resumes, SendsPending
  <2>2. CASE Head(todo[t]) = "bye"
    BY <1>4, <2>2 DEF Write
  <2>3. CASE Head(todo[t]) # "bye"
    BY <1>4, <2>1, <2>3 DEF Write
  <2> QED BY <2>2, <2>3
<1>5. CASE SendDrained(t)
  <2>1. todo[t] # <<>> /\ Head(todo[t]) # "bye"
    BY <1>1, <1>5 DEF SendDrained, SendsPending, WireExact, Dropped
  <2> QED BY <1>5, <2>1 DEF SendDrained, Resumes
<1>6. ~SendGone(t)
  BY DEF SendGone
<1>7. CASE Send(t)
  <2>1. CASE Overflows(Head(todo[t]))
    BY <1>2, <1>7, <2>1
  <2>2. CASE ~Overflows(Head(todo[t]))
    <3>1. Write(t) \/ (SendWaits(t, "lock") /\ UNCHANGED connVars)
      BY <1>7, <2>2 DEF Send
    <3> QED BY <1>3, <1>4, <1>7, <2>2, <3>1
  <2> QED BY <2>1, <2>2
<1>8. CASE SendLocked(t)
  <2>1. Write(t)
    BY <1>8 DEF SendLocked
  <2> QED BY <1>4, <1>8, <2>1
<1> QED BY <1>5, <1>6, <1>7, <1>8 DEF SendNext

\* No event is written on a connection that is closing, and none is sent on it.
LEMMA SendOffline ==
  ASSUME NEW t \in Tasks, SendNext(t), conn # "open"
  PROVE  conn' # "open" /\ view' = view
BY DEF SendNext, Send, SendLocked, SendDrained, SendGone, Write, connVars

\* The end of a session, once begun, is not taken back by a send.
LEMMA SendCancelsEnd ==
  ASSUME TaskInv, WireExact, NEW t \in Tasks, SendNext(t)
  PROVE  CancelsEnd'
<1>1. UNCHANGED <<handler, decode, asked>>
  BY SendKeeps
<1>2. closed => closed'
  BY DEF SendNext, Send, SendLocked, SendDrained, SendGone
<1>3. "decode" \in asked => t = "handler"
  BY DEF SendNext, Send, SendLocked, SendDrained, SendGone, Resumes, Tasks,
         WireExact, CancelsEnd
<1>4. t = "handler" => io'["decode"] = io["decode"]
  BY DEF SendNext, Send, SendLocked, SendDrained, SendGone, Write, SendOver, SendWaits,
         TaskInv, TypeOK, Tasks
<1> QED BY <1>1, <1>2, <1>3, <1>4 DEF WireExact, CancelsEnd, InFlight, Running

\* The handler's sends keep the order of the events.
LEMMA HandlerSendWire ==
  ASSUME TaskInv, WireExact, SendNext("handler")
  PROVE  WireExact' /\ (Contract!ContractNext \/ view' = view)
<1> "handler" \in Tasks /\ "decode" \in Tasks
  BY DEF Tasks
<1> UNCHANGED <<handler, decode, asked>>
  BY SendKeeps
<1> CancelsEnd'
  BY SendCancelsEnd
<1> TypeOK /\ SendsPending
  BY DEF TaskInv
<1>1. CASE conn # "open"
  BY <1>1, SendOffline, Offline
<1>2. CASE conn = "open" /\ conn' # "open"
  <2>1. view' = view
    BY <1>2, SendCases
  <2> QED BY <1>2, <2>1, Offline
<1>3. CASE /\ conn = "open" /\ conn' = "open" /\ view' = view /\ io' = io
           /\ Dropped("handler")' /\ todo'["decode"] = todo["decode"]
           /\ io["handler"] = "run"
  BY <1>3 DEF WireExact, AnswersExact, DecodeExact, FarewellExact, Dropped, Running,
              InFlight, Tasks
<1>4. CASE /\ conn = "open" /\ conn' = "open" /\ view' = view /\ io["handler"] = "run"
           /\ io' = [io EXCEPT !["handler"] = "lock"] /\ todo' = todo
  <2>1. io'["handler"] = "lock" /\ io'["decode"] = io["decode"]
    BY <1>4 DEF TypeOK
  <2> QED BY <1>4, <2>1 DEF WireExact, AnswersExact, DecodeExact, FarewellExact, Dropped,
             Running, InFlight, Tasks
<1>5. CASE /\ conn = "open" /\ conn' = "open" /\ io["handler"] \in {"run", "lock"}
           /\ todo["handler"] # <<>> /\ Head(todo["handler"]) # "bye"
           /\ view' = Shown(Head(todo["handler"]))
           /\ SendOver("handler") \/ SendWaits("handler", "drain")
           /\ handler \in {"reply", "commit", "farewell"}
  <2>1. /\ Contract!ContractNext \/ view' = view
        /\ handler = "reply" => view' = view
        /\ handler = "commit" =>
             todo["handler"] = <<"committed">> /\ view'.stage = "committed" /\ ~view'.ended
        /\ handler = "farewell" =>
             /\ todo["handler"] = <<"closed", "bye">>
             /\ view'.stage = view.stage /\ view'.ended
    BY <1>5, HandlerWrites
  <2>2. io'["decode"] = io["decode"] /\ todo'["decode"] = todo["decode"]
    BY <1>5 DEF SendOver, SendWaits, TypeOK
  <2>3. \/ io'["handler"] = "run" /\ todo'["handler"] = Tail(todo["handler"])
        \/ io'["handler"] = "drain" /\ todo'["handler"] = todo["handler"]
    BY <1>5 DEF SendOver, SendWaits, TypeOK
  <2>4. AnswersExact'
    <3>1. CASE handler = "reply"
      BY <1>5, <2>3, <3>1, PlainTail DEF WireExact, AnswersExact, Dropped, TypeOK
    <3>2. CASE handler = "commit"
      BY <2>1, <2>3, <3>2, EventSequences DEF AnswersExact
    <3>3. CASE handler = "farewell"
      BY <3>3 DEF AnswersExact
    <3> QED BY <1>5, <3>1, <3>2, <3>3
  <2>5. DecodeExact'
    BY <2>1, <2>2, <1>5 DEF WireExact, DecodeExact, Dropped, TaskInv, SpawnsAlone, InFlight
  <2>6. FarewellExact'
    <3>1. CASE handler # "farewell"
      BY <1>5, <2>1, <2>2, <3>1 DEF WireExact, FarewellExact, InFlight, Running
    <3>2. CASE handler = "farewell"
      BY <1>5, <2>1, <2>2, <2>3, <3>2, EventSequences
         DEF WireExact, FarewellExact, InFlight, Running, Dropped
    <3> QED BY <3>1, <3>2
  <2>7. view'.stage # "broken"
    BY <1>5, <2>1 DEF WireExact
  <2>8. \A t \in Tasks : io'[t] # "gone" /\ ~(io'[t] = "drain" /\ Dropped(t)')
    BY <1>5, <2>2, <2>3 DEF WireExact, Dropped, Tasks
  <2> QED BY <1>5, <2>1, <2>4, <2>5, <2>6, <2>7, <2>8 DEF WireExact
<1>6. CASE /\ conn = "open" /\ conn' = "open" /\ view' = view /\ io["handler"] = "drain"
           /\ todo["handler"] # <<>> /\ Head(todo["handler"]) # "bye" /\ SendOver("handler")
  <2>1. io'["decode"] = io["decode"] /\ todo'["decode"] = todo["decode"]
    BY <1>6 DEF SendOver, TypeOK
  <2>2. io'["handler"] = "run" /\ todo'["handler"] = Tail(todo["handler"])
    BY <1>6 DEF SendOver, TypeOK
  <2>3. AnswersExact'
    <3>1. CASE handler = "reply"
      BY <1>6, <2>2, <3>1, PlainTail DEF WireExact, AnswersExact, Dropped, TypeOK
    <3>2. CASE handler = "commit"
      BY <1>6, <2>2, <3>2, EventSequences DEF WireExact, AnswersExact, Dropped
    <3>3. CASE handler \notin {"reply", "commit"}
      BY <3>3 DEF AnswersExact
    <3> QED BY <3>1, <3>2, <3>3
  <2>4. DecodeExact'
    BY <1>6, <2>1 DEF WireExact, DecodeExact, Dropped
  <2>5. FarewellExact'
    BY <1>6, <2>1, <2>2, EventSequences DEF WireExact, FarewellExact, InFlight, Running, Dropped
  <2>6. \A t \in Tasks : io'[t] # "gone" /\ ~(io'[t] = "drain" /\ Dropped(t)')
    BY <1>6, <2>1, <2>2 DEF WireExact, Dropped, Tasks
  <2> QED BY <1>6, <2>3, <2>4, <2>5, <2>6 DEF WireExact
<1>7. io["handler"] # "run" \/ Running("handler")
  BY DEF SendNext, Send, SendLocked, SendDrained, SendGone
<1>8. handler \in {"reply", "commit", "farewell"}
  BY <1>7 DEF SendsPending, Running
<1> QED BY <1>1, <1>2, <1>3, <1>4, <1>5, <1>6, <1>8, SendCases DEF Tasks

\* So do the decode's.
LEMMA DecodeSendWire ==
  ASSUME TaskInv, WireExact, SendNext("decode")
  PROVE  WireExact' /\ (Contract!ContractNext \/ view' = view)
<1> "handler" \in Tasks /\ "decode" \in Tasks
  BY DEF Tasks
<1> UNCHANGED <<handler, decode, asked>>
  BY SendKeeps
<1> CancelsEnd'
  BY SendCancelsEnd
<1> TypeOK /\ SendsPending
  BY DEF TaskInv
<1>1. CASE conn # "open"
  BY <1>1, SendOffline, Offline
<1>2. CASE conn = "open" /\ conn' # "open"
  <2>1. view' = view
    BY <1>2, SendCases
  <2> QED BY <1>2, <2>1, Offline
<1>3. decode = "sending" /\ handler # "commit"
  <2>1. io["decode"] # "run" \/ Running("decode")
    BY DEF SendNext, Send, SendLocked, SendDrained, SendGone
  <2> QED BY <2>1 DEF SendsPending, Running, TaskInv, SpawnsAlone, InFlight
<1>4. Running("decode") \/ "decode" \notin asked
  BY DEF SendNext, Send, SendLocked, SendDrained, SendGone, Resumes
<1>5. conn = "open" => handler \notin {"farewell", "unwind", "teardown"}
  BY <1>3, <1>4 DEF WireExact, FarewellExact, CancelsEnd, InFlight
<1>6. CASE /\ conn = "open" /\ conn' = "open" /\ view' = view /\ io' = io
           /\ Dropped("decode")' /\ todo'["handler"] = todo["handler"]
           /\ io["decode"] = "run"
  BY <1>3, <1>5, <1>6 DEF WireExact, AnswersExact, DecodeExact, FarewellExact, Dropped, Tasks
<1>7. CASE /\ conn = "open" /\ conn' = "open" /\ view' = view /\ io["decode"] = "run"
           /\ io' = [io EXCEPT !["decode"] = "lock"] /\ todo' = todo
  <2>1. io'["decode"] = "lock" /\ io'["handler"] = io["handler"]
    BY <1>7 DEF TypeOK
  <2> QED BY <1>3, <1>5, <1>7, <2>1
          DEF WireExact, AnswersExact, DecodeExact, FarewellExact, Dropped, Tasks
<1>8. CASE /\ conn = "open" /\ conn' = "open" /\ io["decode"] \in {"run", "lock"}
           /\ todo["decode"] # <<>> /\ Head(todo["decode"]) # "bye"
           /\ view' = Shown(Head(todo["decode"]))
           /\ SendOver("decode") \/ SendWaits("decode", "drain")
  <2>1. /\ Contract!ContractNext
        /\ ~view.ended /\ ~view'.ended
        /\ \/ todo["decode"] = <<"delta", "completed">> /\ view'.stage = "partial"
           \/ todo["decode"] \in {<<"completed">>, <<"failed">>} /\ view'.stage = "idle"
    BY <1>3, <1>4, <1>8, DecodeWrites
  <2>2. io'["handler"] = io["handler"] /\ todo'["handler"] = todo["handler"]
    BY <1>8 DEF SendOver, SendWaits, TypeOK
  <2>3. \/ io'["decode"] = "run" /\ todo'["decode"] = Tail(todo["decode"])
        \/ io'["decode"] = "drain" /\ todo'["decode"] = todo["decode"]
    BY <1>8 DEF SendOver, SendWaits, TypeOK
  <2>4. AnswersExact'
    BY <1>3, <1>8, <2>2 DEF WireExact, AnswersExact, Dropped
  <2>5. DecodeExact'
    BY <1>3, <2>1, <2>3, EventSequences DEF DecodeExact
  <2>6. FarewellExact'
    BY <1>5, <1>8, <2>1 DEF FarewellExact
  <2>7. \A t \in Tasks : io'[t] # "gone" /\ ~(io'[t] = "drain" /\ Dropped(t)')
    BY <1>8, <2>2, <2>3 DEF WireExact, Dropped, Tasks
  <2> QED BY <1>8, <2>1, <2>4, <2>5, <2>6, <2>7 DEF WireExact
<1>9. CASE /\ conn = "open" /\ conn' = "open" /\ view' = view /\ io["decode"] = "drain"
           /\ todo["decode"] # <<>> /\ Head(todo["decode"]) # "bye" /\ SendOver("decode")
  <2>1. io'["handler"] = io["handler"] /\ todo'["handler"] = todo["handler"]
    BY <1>9 DEF SendOver, TypeOK
  <2>2. io'["decode"] = "run" /\ todo'["decode"] = Tail(todo["decode"])
    BY <1>9 DEF SendOver, TypeOK
  <2>3. AnswersExact'
    BY <1>3, <1>9, <2>1 DEF WireExact, AnswersExact, Dropped
  <2>4. DecodeExact'
    BY <1>3, <1>9, <2>2, EventSequences DEF WireExact, DecodeExact, Dropped
  <2>5. FarewellExact'
    BY <1>5, <1>9, <2>1 DEF WireExact, FarewellExact
  <2>6. \A t \in Tasks : io'[t] # "gone" /\ ~(io'[t] = "drain" /\ Dropped(t)')
    BY <1>9, <2>1, <2>2 DEF WireExact, Dropped, Tasks
  <2> QED BY <1>9, <2>3, <2>4, <2>5, <2>6 DEF WireExact
<1> QED BY <1>1, <1>2, <1>6, <1>7, <1>8, <1>9, SendCases DEF Tasks

\* Requests are read by a session that goes on, with no event under way.
LEMMA RequestWire == ASSUME TaskInv, WireExact, RequestNext PROVE WireExact' /\ view' = view
<1> USE DEF WireExact, Dropped, InFlight
<1> "handler" \in Tasks /\ "decode" \in Tasks
  BY DEF Tasks
<1> TypeOK /\ SendsPending
  BY DEF TaskInv
<1>1. /\ handler = "recv" /\ "handler" \notin asked /\ ~closed
      /\ io["handler"] = "run" /\ ~Running("decode")
  BY DEF RequestNext, AppendAudio, Refuse, Inform, Clear, Commit, Close, Cancel, Reads,
         Resumes, Turn, SendsPending, Tasks
<1>2. /\ io' = io /\ conn' = conn /\ view' = view /\ decode' = decode
      /\ todo'["decode"] = todo["decode"]
  BY DEF RequestNext, AppendAudio, Refuse, Inform, Clear, Commit, Close, Cancel,
         Answer, Farewell, taskVars, connVars, TypeOK
<1>3. /\ decode # "cancelled" /\ (InFlight => "decode" \notin asked)
      /\ conn = "open" => ~view.ended
  BY <1>1 DEF CancelsEnd, FarewellExact
<1>4. \A t \in Tasks : conn = "open" => io'[t] # "gone" /\ ~(io'[t] = "drain" /\ Dropped(t)')
  BY <1>1, <1>2 DEF Tasks
<1>5. CASE AppendAudio
  <2>1. UNCHANGED <<handler, asked, closed, todo>>
    BY <1>5 DEF AppendAudio, taskVars
  <2> QED BY <1>2, <2>1 DEF AnswersExact, DecodeExact, FarewellExact, CancelsEnd, Running
<1>6. CASE Refuse \/ Inform \/ Clear
  <2>1. /\ handler' = "reply" /\ UNCHANGED <<asked, closed>>
        /\ todo'["handler"] \in {<<"error">>, <<"reply", "reply">>, <<"reply">>, <<"cleared">>}
    BY <1>6 DEF Refuse, Inform, Clear, Answer, TypeOK
  <2>2. \A i \in 1 .. Len(todo'["handler"]) :
           todo'["handler"][i] \in {"hello", "reply", "error", "cleared"}
    BY <2>1
  <2>3. AnswersExact'
    BY <2>1, <2>2 DEF AnswersExact
  <2>4. DecodeExact' \/ conn # "open"
    BY <1>1, <1>2, <2>1 DEF DecodeExact
  <2>5. FarewellExact' \/ conn # "open"
    BY <1>2, <1>3, <2>1 DEF FarewellExact
  <2>6. CancelsEnd'
    BY <1>2, <1>3, <2>1 DEF CancelsEnd
  <2> QED BY <1>2, <1>4, <2>3, <2>4, <2>5, <2>6
<1>7. CASE Commit
  <2>1. /\ handler' = "commit" /\ UNCHANGED <<asked, closed>> /\ ~InFlight
        /\ todo'["handler"] = <<"committed">>
    BY <1>7 DEF Commit, TypeOK
  <2>2. conn = "open" => view.stage = "idle"
    BY <1>1, <1>3, <2>1 DEF DecodeExact, TypeOK
  <2>3. AnswersExact' \/ conn # "open"
    BY <1>1, <1>2, <2>1, <2>2 DEF AnswersExact
  <2>4. DecodeExact'
    BY <1>2, <2>1 DEF DecodeExact
  <2>5. FarewellExact' \/ conn # "open"
    BY <1>2, <1>3, <2>1 DEF FarewellExact
  <2>6. CancelsEnd'
    BY <1>2, <1>3, <2>1 DEF CancelsEnd
  <2> QED BY <1>2, <1>4, <2>3, <2>4, <2>5, <2>6
<1>8. CASE Close \/ Cancel
  <2>1. \/ /\ handler' = "closewait" /\ UNCHANGED <<todo, asked, closed>>
        \/ /\ handler' = "unwind" /\ "decode" \in asked' /\ UNCHANGED <<todo, closed>>
        \/ /\ handler' = "farewell" /\ closed' = TRUE /\ (InFlight => "decode" \in asked')
           /\ todo'["handler"] = <<"closed", "bye">>
    BY <1>8 DEF Close, Cancel, Farewell, TypeOK
  <2>2. AnswersExact'
    BY <2>1 DEF AnswersExact
  <2>3. DecodeExact' \/ conn # "open"
    BY <1>1, <1>2, <2>1 DEF DecodeExact
  <2>4. FarewellExact' \/ conn # "open"
    BY <1>1, <1>2, <1>3, <2>1 DEF FarewellExact, Running
  <2>5. "decode" \in asked' => InFlight \/ "decode" \in asked
    BY <1>8 DEF Close, Cancel
  <2>6. CancelsEnd'
    BY <1>1, <1>2, <1>3, <2>1, <2>5 DEF CancelsEnd, Running
  <2> QED BY <1>2, <1>4, <2>2, <2>3, <2>4, <2>6
<1> QED BY <1>5, <1>6, <1>7, <1>8 DEF RequestNext

\* The handler's own steps end the session of a decode they cancel.
LEMMA HandlerWire ==
  ASSUME TaskInv, WireExact,
         \/ HandlerContinues \/ HandlerStops \/ CloseWaited \/ CloseTimeout
         \/ Unwound \/ TornDown \/ HandlerCancelled
  PROVE  WireExact' /\ view' = view
<1> USE DEF WireExact, Dropped, InFlight
<1> "handler" \in Tasks /\ "decode" \in Tasks
  BY DEF Tasks
<1> TypeOK /\ SendsPending
  BY DEF TaskInv
<1>1. /\ conn' = conn /\ view' = view
      /\ io'["decode"] = io["decode"] /\ todo'["decode"] = todo["decode"]
  BY DEF HandlerContinues, HandlerStops, CloseWaited, CloseTimeout, Unwound, TornDown,
         HandlerCancelled, Farewell, connVars, TypeOK
<1>2. CASE HandlerContinues
  <2>1. /\ handler \in {"reply", "commit", "farewell"} /\ todo["handler"] = <<>>
        /\ handler' = "recv" /\ UNCHANGED <<todo, io, asked, closed>>
        /\ decode' = IF handler = "commit" THEN "created" ELSE decode
    BY <1>2 DEF HandlerContinues, Running
  <2>2. <<"closed", "bye">> # <<>> /\ <<"committed">> # <<>>
    OBVIOUS
  <2>3. conn = "open" => handler # "farewell" /\ ~view.ended
    BY <2>1, <2>2 DEF FarewellExact
  <2>4. CancelsEnd'
    BY <2>1 DEF CancelsEnd, TaskInv, SpawnsAlone, Running
  <2>5. AnswersExact'
    BY <2>1 DEF AnswersExact
  <2>6. DecodeExact' \/ conn # "open"
    BY <1>1, <2>1, <2>2, <2>3 DEF DecodeExact, AnswersExact
  <2>7. FarewellExact' \/ conn # "open"
    BY <1>1, <2>1, <2>3 DEF FarewellExact
  <2> QED BY <1>1, <2>1, <2>4, <2>5, <2>6, <2>7
<1>3. CASE HandlerStops \/ CloseWaited \/ CloseTimeout \/ Unwound \/ TornDown
  <2>1. /\ ~Running("decode") /\ io["handler"] = "run" /\ io' = io /\ decode' = decode
        /\ handler \in {"recv", "closewait", "unwind", "teardown"}
    BY <1>3 DEF HandlerStops, CloseWaited, CloseTimeout, Unwound, TornDown, Resumes, Turn,
                SendsPending, Tasks
  <2>2. \/ /\ handler' = "unwind" /\ "decode" \in asked' /\ InFlight
           /\ handler # "teardown" /\ UNCHANGED <<todo, closed>>
        \/ /\ handler' = "teardown" /\ "decode" \in asked' /\ InFlight
           /\ UNCHANGED <<todo, closed>>
        \/ /\ handler' = "over" /\ closed' = TRUE /\ ~InFlight
           /\ "decode" \in asked' => "decode" \in asked
           /\ UNCHANGED todo
        \/ /\ handler' = "farewell" /\ closed' = TRUE /\ ~InFlight /\ handler # "teardown"
           /\ "decode" \in asked' => "decode" \in asked
           /\ todo'["handler"] = <<"closed", "bye">>
    BY <1>3 DEF HandlerStops, CloseWaited, CloseTimeout, Unwound, TornDown, Teardown,
                Farewell, TypeOK
  <2>3. CancelsEnd'
    BY <2>1, <2>2 DEF CancelsEnd, Running
  <2>4. AnswersExact'
    BY <2>2 DEF AnswersExact
  <2>5. DecodeExact' \/ conn # "open"
    BY <1>1, <2>1, <2>2 DEF DecodeExact
  <2>6. FarewellExact' \/ conn # "open"
    <3>1. conn = "open" /\ handler # "teardown" => ~view'.ended
      BY <1>1, <2>1 DEF FarewellExact
    <3>2. CASE handler' = "farewell"
      BY <1>1, <2>1, <2>2, <3>1, <3>2 DEF FarewellExact
    <3>3. CASE handler' # "farewell"
      BY <1>1, <2>1, <2>2, <3>1, <3>3 DEF FarewellExact
    <3> QED BY <3>2, <3>3
  <2>7. \A t \in Tasks : conn = "open" => io'[t] # "gone" /\ ~(io'[t] = "drain" /\ Dropped(t)')
    BY <1>1, <2>1 DEF Tasks
  <2> QED BY <1>1, <2>3, <2>4, <2>5, <2>6, <2>7
<1>4. CASE HandlerCancelled
  <2>1. /\ ~Running("decode") /\ io'["handler"] = "run" /\ decode' = decode
        /\ handler # "teardown"
    BY <1>4 DEF HandlerCancelled, LoopFree, TypeOK
  <2>2. \/ /\ handler' = "teardown" /\ "decode" \in asked' /\ InFlight /\ UNCHANGED closed
        \/ /\ handler' = "over" /\ closed' = TRUE /\ ~InFlight
           /\ "decode" \in asked' => "decode" \in asked
    BY <1>4 DEF HandlerCancelled, Teardown
  <2>3. CancelsEnd'
    BY <1>1, <2>1, <2>2 DEF CancelsEnd, Running
  <2>4. AnswersExact'
    BY <2>2 DEF AnswersExact
  <2>5. DecodeExact' \/ conn # "open"
    BY <1>1, <2>1, <2>2 DEF DecodeExact
  <2>6. FarewellExact' \/ conn # "open"
    BY <1>1, <2>1, <2>2 DEF FarewellExact
  <2>7. \A t \in Tasks : conn = "open" => io'[t] # "gone" /\ ~(io'[t] = "drain" /\ Dropped(t)')
    BY <1>1, <2>1 DEF Tasks
  <2> QED BY <1>1, <2>3, <2>4, <2>5, <2>6, <2>7
<1> QED BY <1>2, <1>3, <1>4

\* The decode's own steps leave its conclusion to be sent, or end with its session.
LEMMA DecodeWire ==
  ASSUME TaskInv, WireExact, DecodeStarts \/ DecodeAnswers \/ DecodeEnds \/ DecodeCancelled
  PROVE  WireExact' /\ view' = view
<1> USE DEF WireExact, Dropped, InFlight
<1> "handler" \in Tasks /\ "decode" \in Tasks
  BY DEF Tasks
<1> TypeOK /\ SendsPending
  BY DEF TaskInv
<1>1. /\ conn' = conn /\ view' = view /\ handler' = handler /\ closed' = closed
      /\ io'["handler"] = io["handler"] /\ todo'["handler"] = todo["handler"]
      /\ InFlight
  BY DEF DecodeStarts, DecodeAnswers, DecodeEnds, DecodeCancelled, connVars, Running, TypeOK
<1>2. handler # "commit"
  BY <1>1 DEF TaskInv, SpawnsAlone
<1>3. AnswersExact' \/ conn # "open"
  BY <1>1 DEF AnswersExact
<1>4. CASE DecodeStarts \/ DecodeAnswers \/ DecodeEnds
  <2>1. "decode" \notin asked /\ asked' = asked /\ io' = io /\ io["decode"] = "run"
    BY <1>4 DEF DecodeStarts, DecodeAnswers, DecodeEnds, Resumes, Running, SendsPending,
                CancelsEnd
  <2>2. decode' # "cancelled" /\ decode # "cancelled"
    BY <1>4 DEF DecodeStarts, DecodeAnswers, DecodeEnds, Running
  <2>3. CancelsEnd'
    BY <1>1, <2>1, <2>2 DEF CancelsEnd
  <2>4. FarewellExact' \/ conn # "open"
    BY <1>1, <2>1 DEF FarewellExact
  <2>5. DecodeExact' \/ conn # "open"
    <3>1. CASE DecodeStarts
      BY <1>1, <3>1 DEF DecodeStarts, DecodeExact
    <3>2. CASE DecodeAnswers
      <4>1. /\ decode' = "sending"
            /\ todo'["decode"] \in {<<"completed">>, <<"delta", "completed">>, <<"failed">>}
        BY <3>2 DEF DecodeAnswers, TypeOK
      <4>2. conn = "open" => view.stage = "committed"
        BY <3>2 DEF DecodeAnswers, DecodeExact
      <4> QED BY <1>1, <2>1, <4>1, <4>2 DEF DecodeExact
    <3>3. CASE DecodeEnds
      <4>1. decode = "sending" /\ todo["decode"] = <<>> /\ decode' = "done"
        BY <3>3 DEF DecodeEnds, Running
      <4>2. <<"delta", "completed">> # <<>> /\ <<"completed">> # <<>> /\ <<"failed">> # <<>>
        OBVIOUS
      <4>3. conn = "open" => view.stage = "idle"
        BY <4>1, <4>2 DEF DecodeExact
      <4> QED BY <1>1, <4>1, <4>3 DEF DecodeExact
    <3> QED BY <1>4, <3>1, <3>2, <3>3
  <2>6. \A t \in Tasks : conn = "open" => io'[t] # "gone" /\ ~(io'[t] = "drain" /\ Dropped(t)')
    BY <1>1, <2>1 DEF Tasks
  <2> QED BY <1>1, <1>3, <2>3, <2>4, <2>5, <2>6
<1>5. CASE DecodeCancelled
  <2>1. /\ decode' = "cancelled" /\ io'["decode"] = "run" /\ asked' = asked \ {"decode"}
        /\ "decode" \in asked
    BY <1>5 DEF DecodeCancelled, TypeOK
  <2>2. CancelsEnd'
    BY <1>1, <2>1 DEF CancelsEnd
  <2>3. DecodeExact'
    BY <2>1 DEF DecodeExact
  <2>4. FarewellExact' \/ conn # "open"
    BY <1>1, <2>1 DEF FarewellExact
  <2>5. \A t \in Tasks : conn = "open" => io'[t] # "gone" /\ ~(io'[t] = "drain" /\ Dropped(t)')
    BY <1>1, <2>1 DEF Tasks
  <2> QED BY <1>1, <1>3, <2>2, <2>3, <2>4, <2>5
<1> QED BY <1>4, <1>5

\* Nothing the client, the connection or shutdown() does shows an event.
LEMMA OutsideWire ==
  ASSUME TaskInv, WireExact, OutsideNext \/ UNCHANGED vars
  PROVE  WireExact' /\ view' = view
<1>1. /\ view' = view /\ UNCHANGED <<handler, decode, todo, io, closed>>
      /\ conn # "open" => conn' # "open"
  BY DEF OutsideNext, ClientReads, ClientCloses, ConnectionLost, HandlerReturned,
         ShutdownBegins, ShutdownCloses, ShutdownCancels, taskVars, connVars, vars
<1>2. \/ asked' = asked
      \/ /\ asked' = asked \cup {"handler"} \cup (IF InFlight THEN {"decode"} ELSE {})
         /\ ~Running("decode")
  BY DEF OutsideNext, ClientReads, ClientCloses, ConnectionLost, HandlerReturned,
         ShutdownBegins, ShutdownCloses, ShutdownCancels, taskVars, connVars, vars,
         LoopFree, Tasks
<1>3. CancelsEnd'
  BY <1>1, <1>2 DEF WireExact, CancelsEnd, InFlight, Running
<1>4. conn = "open" => AnswersExact' /\ DecodeExact' /\ FarewellExact'
  BY <1>1, <1>2 DEF WireExact, AnswersExact, DecodeExact, FarewellExact, Dropped, InFlight
<1> QED BY <1>1, <1>3, <1>4 DEF WireExact, Dropped

LEMMA WireInit == Init => WireExact
<1> SUFFICES ASSUME Init PROVE WireExact
  OBVIOUS
<1>1. \A i \in 1 .. Len(<<"hello", "reply", "reply">>) :
         <<"hello", "reply", "reply">>[i] \in {"hello", "reply", "error", "cleared"}
  OBVIOUS
<1> QED BY <1>1 DEF Init, WireExact, AnswersExact, DecodeExact, FarewellExact, CancelsEnd,
           Dropped, InFlight, Running, Tasks

\* Every step keeps the order of the events and is allowed by the contract.
LEMMA WireStep ==
  TaskInv /\ WireExact /\ [Next]_vars =>
    WireExact' /\ (Contract!ContractNext \/ view' = view)
BY RequestWire, HandlerWire, DecodeWire, OutsideWire, HandlerSendWire, DecodeSendWire
   DEF Next, HandlerNext, DecodeNext

-----------------------------------------------------------------------------

\* Session's inductive invariant holds for every cap and every pair of limits.
THEOREM SessionInvariance == Spec => []SessionInv
<1>1. Init => SessionInv
  BY TaskInit, WireInit DEF SessionInv
<1>2. SessionInv /\ [Next]_vars => SessionInv'
  BY TaskStep, WireStep DEF SessionInv
<1> QED BY <1>1, <1>2, PTL DEF Spec

\* Every append belongs to one utterance: none is accepted during a decode.
THEOREM AudioBoundary == Spec => []BufferClosedInFlight
<1>1. SessionInv => BufferClosedInFlight
  BY DEF SessionInv, TaskInv
<1> QED BY <1>1, SessionInvariance, PTL

\* A decode never outlives its handler.
THEOREM NoOrphan == Spec => []NoOrphanDecode
<1>1. SessionInv => NoOrphanDecode
  BY DEF SessionInv, TaskInv
<1> QED BY <1>1, SessionInvariance, PTL

\* The events on the wire keep SessionContract, through timeouts, cancellations,
\* overflows and two tasks that write to one connection.
THEOREM Implementation == Spec => ImplementsContract
<1>1. Init => Contract!ContractInit
  BY DEF Init, Contract!ContractInit
<1>2. SessionInv /\ [Next]_vars => [Contract!ContractNext]_Contract!contractVars
  BY WireStep DEF SessionInv, Contract!contractVars
<1> QED BY <1>1, <1>2, SessionInvariance, PTL DEF Spec, ImplementsContract, Contract!ContractSpec

=============================================================================
