-------------------------- MODULE LifecycleProofs --------------------------
(***************************************************************************)
(* Proofs about Lifecycle for any set of sessions, any backend and any     *)
(* outsider: the type invariant, the inductive invariant IInv, and from it *)
(* that the lock covers all work, that the state machine is never asked    *)
(* for an illegal transition and that the contract is implemented.  Five   *)
(* smaller invariants on top of IInv then give what a shutdown and a       *)
(* drain leave alone and what a server leaves behind.                      *)
(***************************************************************************)
EXTENDS Lifecycle, TLAPS

(* The type invariant. *)

\* The first step of a drain keeps the types of what it computes.
LEMMA BeginDrainTypes ==
  ASSUME TypeOK, NEW work \in SUBSET (Tokens \cup Futures),
         NEW f \in [Futures -> FutureStates],
         NEW srv, NEW inode, BeginDrain(work, f, srv, inode)
  PROVE  /\ pending' \subseteq SessionTasks
         /\ ledger' \subseteq Tokens \cup Futures
         /\ fut' \in [Futures -> FutureStates]
<1>1. pending' \subseteq SessionTasks
  BY DEF BeginDrain, LiveSessions, TypeOK, WorkTypeOK
<1>2. ledger' \subseteq Tokens \cup Futures
  BY DEF BeginDrain, Tokens, Futures
<1>3. fut' \in [Futures -> FutureStates]
  BY DEF BeginDrain, FutureStates
<1> QED BY <1>1, <1>2, <1>3

\* The steps of start() keep the types.
LEMMA StartNextTypes == ASSUME TypeOK, StartNext PROVE TypeOK'
<1>1. CASE StartCall
  <2>1. LifeTypeOK'
    BY <1>1 DEF TypeOK, StartCall, sockVars, LifeTypeOK
  <2>2. WorkTypeOK'
    <3>1. ledger' \subseteq Tokens \cup Futures
      BY <1>1 DEF TypeOK, WorkTypeOK, StartCall, Tokens
    <3>2. QED BY <1>1, <3>1 DEF TypeOK, WorkTypeOK, StartCall
  <2>3. SocketTypeOK'
    BY <1>1 DEF TypeOK, StartCall, sockVars, SocketTypeOK
  <2> QED BY <2>1, <2>2, <2>3 DEF TypeOK
<1>2. CASE BackendStarted
  BY <1>2 DEF BackendStarted, lifeVars, sockVars, TypeOK, LifeTypeOK,
      WorkTypeOK, SessionTasks, Tokens, Futures, FutureStates, TaskStates,
      SocketTypeOK
<1>3. CASE BackendStartedLate
  <2>1. LifeTypeOK'
    BY <1>3 DEF TypeOK, BackendStartedLate, BeginDrain, LiveSessions, Live,
        Futures, AfterUnlink, lifeVars, LifeTypeOK
  <2>2. WorkTypeOK'
    BY <1>3, BeginDrainTypes DEF TypeOK, WorkTypeOK, BackendStartedLate
  <2>3. SocketTypeOK'
    BY <1>3 DEF TypeOK, BackendStartedLate, BeginDrain, LiveSessions, Live,
        Futures, AfterUnlink, lifeVars, SocketTypeOK
  <2> QED BY <2>1, <2>2, <2>3 DEF TypeOK
<1>4. CASE BackendStartFails
  <2>1. LifeTypeOK'
    BY <1>4 DEF TypeOK, BackendStartFails, FinishStart, Settle, ResetAttempt,
        LifeTypeOK
  <2>2. WorkTypeOK'
    BY <1>4 DEF TypeOK, BackendStartFails, FinishStart, Settle, ResetAttempt,
        WorkTypeOK, SessionTasks, Tokens, Futures, FutureStates, TaskStates
  <2>3. SocketTypeOK'
    BY <1>4 DEF TypeOK, BackendStartFails, FinishStart, Settle, ResetAttempt,
        SocketTypeOK
  <2> QED BY <2>1, <2>2, <2>3 DEF TypeOK
<1>5. CASE BindSocket
  BY <1>5 DEF BindSocket, lifeVars, workVars, TypeOK, LifeTypeOK, WorkTypeOK,
      SessionTasks, Tokens, Futures, FutureStates, TaskStates, SocketTypeOK
<1>6. CASE BindFails
  BY <1>6 DEF BindFails, lifeVars, workVars, sockVars, TypeOK, LifeTypeOK,
      WorkTypeOK, SessionTasks, Tokens, Futures, FutureStates, TaskStates,
      SocketTypeOK
<1>7. CASE BindDone
  BY <1>7 DEF BindDone, lifeVars, workVars, TypeOK, LifeTypeOK, WorkTypeOK,
      SessionTasks, Tokens, Futures, FutureStates, TaskStates, SocketTypeOK
<1>8. CASE StartSucceeds
  <2>1. LifeTypeOK'
    BY <1>8 DEF TypeOK, StartSucceeds, LifeTypeOK
  <2>2. WorkTypeOK'
    <3>1. ledger' \subseteq Tokens \cup Futures
      BY <1>8 DEF TypeOK, WorkTypeOK, StartSucceeds, Tokens
    <3>2. QED BY <1>8, <3>1 DEF TypeOK, WorkTypeOK, StartSucceeds
  <2>3. SocketTypeOK'
    BY <1>8 DEF TypeOK, StartSucceeds, SocketTypeOK
  <2> QED BY <2>1, <2>2, <2>3 DEF TypeOK
<1>9. CASE StartUnwinds
  <2>1. LifeTypeOK'
    BY <1>9 DEF TypeOK, StartUnwinds, BindOver, BeginDrain, LiveSessions,
        Live, Futures, AfterUnlink, lifeVars, LifeTypeOK
  <2>2. WorkTypeOK'
    <3>1. ledger \cup {"listener"} \in SUBSET (Tokens \cup Futures)
      BY DEF TypeOK, WorkTypeOK, Tokens
    <3>2. fut \in [Futures -> FutureStates] /\ ledger \in SUBSET (Tokens \cup Futures)
      BY DEF TypeOK, WorkTypeOK
    <3>3. /\ pending' \subseteq SessionTasks
          /\ ledger' \subseteq Tokens \cup Futures
          /\ fut' \in [Futures -> FutureStates]
      <4>1. CASE listener = "open"
        BY <1>9, <3>1, <3>2, <4>1, BeginDrainTypes DEF StartUnwinds
      <4>2. CASE listener # "open"
        BY <1>9, <3>2, <4>2, BeginDrainTypes DEF StartUnwinds
      <4> QED BY <4>1, <4>2
    <3>4. QED BY <1>9, <3>3 DEF TypeOK, WorkTypeOK, StartUnwinds
  <2>3. SocketTypeOK'
    BY <1>9 DEF TypeOK, StartUnwinds, BindOver, BeginDrain, LiveSessions,
        Live, Futures, AfterUnlink, lifeVars, SocketTypeOK
  <2> QED BY <2>1, <2>2, <2>3 DEF TypeOK
<1>10. CASE CancelBind
  BY <1>10 DEF CancelBind, BindOver, lifeVars, workVars, sockVars, TypeOK,
      LifeTypeOK, WorkTypeOK, SessionTasks, Tokens, Futures, FutureStates,
      TaskStates, SocketTypeOK
<1>11. CASE AbandonBind
  <2>1. LifeTypeOK'
    BY <1>11 DEF TypeOK, AbandonBind, BindOver, BeginDrain, LiveSessions,
        Live, Futures, AfterUnlink, lifeVars, LifeTypeOK
  <2>2. WorkTypeOK'
    BY <1>11, BeginDrainTypes DEF TypeOK, WorkTypeOK, AbandonBind
  <2>3. SocketTypeOK'
    BY <1>11 DEF TypeOK, AbandonBind, BindOver, BeginDrain, LiveSessions,
        Live, Futures, AfterUnlink, lifeVars, SocketTypeOK
  <2> QED BY <2>1, <2>2, <2>3 DEF TypeOK
<1> QED BY <1>1, <1>2, <1>3, <1>4, <1>5, <1>6, <1>7, <1>8, <1>9, <1>10, <1>11
       DEF StartNext

\* The steps of the drain keep the types.
LEMMA DrainNextTypes == ASSUME TypeOK, DrainNext PROVE TypeOK'
<1>1. CASE DrainBegin
  <2>1. LifeTypeOK'
    BY <1>1 DEF TypeOK, DrainBegin, BeginDrain, LiveSessions, Live, Futures,
        AfterUnlink, lifeVars, LifeTypeOK
  <2>2. WorkTypeOK'
    <3>1. [fut EXCEPT !["stop"] = "run"] \in [Futures -> FutureStates]
      BY DEF TypeOK, WorkTypeOK, FutureStates
    <3>2. QED BY <1>1, <3>1, BeginDrainTypes DEF TypeOK, WorkTypeOK, DrainBegin
  <2>3. SocketTypeOK'
    BY <1>1 DEF TypeOK, DrainBegin, BeginDrain, LiveSessions, Live, Futures,
        AfterUnlink, lifeVars, SocketTypeOK
  <2> QED BY <2>1, <2>2, <2>3 DEF TypeOK
<1>2. CASE DrainSessionsDone
  <2>1. LifeTypeOK'
    BY <1>2 DEF TypeOK, DrainSessionsDone, Live, AfterSessions,
        StartBackendClose, lifeVars, sockVars, LifeTypeOK
  <2>2. WorkTypeOK'
    <3>1. ledger' \subseteq Tokens \cup Futures /\ fut' \in [Futures -> FutureStates]
      BY <1>2 DEF TypeOK, WorkTypeOK, DrainSessionsDone, AfterSessions,
                  StartBackendClose, Tokens, Futures, FutureStates
    <3>2. QED BY <1>2, <3>1 DEF TypeOK, WorkTypeOK, DrainSessionsDone
  <2>3. SocketTypeOK'
    BY <1>2 DEF TypeOK, DrainSessionsDone, Live, AfterSessions,
        StartBackendClose, lifeVars, sockVars, SocketTypeOK
  <2> QED BY <2>1, <2>2, <2>3 DEF TypeOK
<1>3. CASE DrainTimeout
  BY <1>3 DEF DrainTimeout, Live, CancelTasks, SessionTasks, AfterCancel,
      lifeVars, workVars, sockVars, TypeOK, LifeTypeOK, WorkTypeOK, Tokens,
      Futures, FutureStates, TaskStates, SocketTypeOK
<1>4. CASE DrainGraceOver
  <2>1. LifeTypeOK'
    BY <1>4 DEF TypeOK, DrainGraceOver, AfterSessions, StartBackendClose,
        lifeVars, sockVars, LifeTypeOK
  <2>2. WorkTypeOK'
    <3>1. ledger' \subseteq Tokens \cup Futures /\ fut' \in [Futures -> FutureStates]
      BY <1>4 DEF TypeOK, WorkTypeOK, DrainGraceOver, AfterSessions,
                  StartBackendClose, Tokens, Futures, FutureStates
    <3>2. QED BY <1>4, <3>1 DEF TypeOK, WorkTypeOK, DrainGraceOver
  <2>3. SocketTypeOK'
    BY <1>4 DEF TypeOK, DrainGraceOver, AfterSessions, StartBackendClose,
        lifeVars, sockVars, SocketTypeOK
  <2> QED BY <2>1, <2>2, <2>3 DEF TypeOK
<1>5. CASE DrainListenerOver
  BY <1>5 DEF DrainListenerOver, StartBackendClose, lifeVars, sockVars,
      TypeOK, LifeTypeOK, WorkTypeOK, SessionTasks, Tokens, Futures,
      FutureStates, TaskStates, SocketTypeOK
<1>6. CASE DrainBackendOver
  <2>1. LifeTypeOK'
    BY <1>6 DEF TypeOK, DrainBackendOver, EndDrain, Futures, CancelSessions,
        CancelTasks, SessionTasks, AfterCancel, LiveSessions, Live,
        FinishStart, Settle, ResetAttempt, LifeTypeOK
  <2>2. WorkTypeOK'
    <3>1. ledger' \subseteq Tokens \cup Futures
      BY <1>6 DEF TypeOK, WorkTypeOK, DrainBackendOver, EndDrain, Tokens, Futures
    <3>2. fut' \in [Futures -> FutureStates]
      BY <1>6 DEF TypeOK, WorkTypeOK, DrainBackendOver, EndDrain, FutureStates
    <3>3. task' \in [SessionTasks -> TaskStates]
      BY <1>6 DEF TypeOK, WorkTypeOK, DrainBackendOver, EndDrain, CancelSessions,
                  CancelTasks, AfterCancel, TaskStates
    <3>4. QED
      BY <1>6, <3>1, <3>2, <3>3 DEF TypeOK, WorkTypeOK, DrainBackendOver, EndDrain
  <2>3. SocketTypeOK'
    BY <1>6 DEF TypeOK, DrainBackendOver, EndDrain, Futures, CancelSessions,
        CancelTasks, SessionTasks, AfterCancel, LiveSessions, Live,
        FinishStart, Settle, ResetAttempt, SocketTypeOK
  <2> QED BY <2>1, <2>2, <2>3 DEF TypeOK
<1>7. CASE DrainCancelled
  <2>1. LifeTypeOK'
    BY <1>7 DEF TypeOK, DrainCancelled, EndDrain, Futures, CancelSessions,
        CancelTasks, SessionTasks, AfterCancel, LiveSessions, Live,
        FinishStart, Settle, ResetAttempt, LifeTypeOK
  <2>2. WorkTypeOK'
    BY <1>7 DEF TypeOK, DrainCancelled, EndDrain, Futures, CancelSessions,
        CancelTasks, SessionTasks, AfterCancel, LiveSessions, Live,
        FinishStart, Settle, ResetAttempt, WorkTypeOK, Tokens, FutureStates,
        TaskStates
  <2>3. SocketTypeOK'
    BY <1>7 DEF TypeOK, DrainCancelled, EndDrain, Futures, CancelSessions,
        CancelTasks, SessionTasks, AfterCancel, LiveSessions, Live,
        FinishStart, Settle, ResetAttempt, SocketTypeOK
  <2> QED BY <2>1, <2>2, <2>3 DEF TypeOK
<1> QED BY <1>1, <1>2, <1>3, <1>4, <1>5, <1>6, <1>7 DEF DrainNext

\* The steps of the futures and their callbacks keep the types.
LEMMA FutureNextTypes == ASSUME TypeOK, FutureNext PROVE TypeOK'
<1>1. CASE ListenerRefuse
  BY <1>1 DEF ListenerRefuse, lifeVars, workVars, sockVars, TypeOK,
      LifeTypeOK, WorkTypeOK, SessionTasks, Tokens, Futures, FutureStates,
      TaskStates, SocketTypeOK
<1>2. CASE ListenerClosed
  BY <1>2 DEF ListenerClosed, Live, Handler, lifeVars, workVars, sockVars,
      TypeOK, LifeTypeOK, WorkTypeOK, SessionTasks, Tokens, Futures,
      FutureStates, TaskStates, SocketTypeOK
<1>3. CASE CloseEnds
  BY <1>3 DEF CloseEnds, lifeVars, workVars, sockVars, TypeOK, LifeTypeOK,
      WorkTypeOK, SessionTasks, Tokens, Futures, FutureStates, TaskStates,
      SocketTypeOK
<1>4. CASE IdleDone
  BY <1>4 DEF IdleDone, lifeVars, workVars, sockVars, TypeOK, LifeTypeOK,
      WorkTypeOK, SessionTasks, Tokens, Futures, FutureStates, TaskStates,
      SocketTypeOK
<1>5. CASE Adopt
  BY <1>5 DEF Adopt, Adoptable, lifeVars, sockVars, TypeOK, LifeTypeOK,
      WorkTypeOK, SessionTasks, Tokens, Futures, FutureStates, TaskStates,
      SocketTypeOK
<1>6. CASE AdoptedEnds
  BY <1>6 DEF AdoptedEnds, lifeVars, workVars, sockVars, TypeOK, LifeTypeOK,
      WorkTypeOK, SessionTasks, Tokens, Futures, FutureStates, TaskStates,
      SocketTypeOK
<1>7. ASSUME NEW k \in Futures, Retire(k) PROVE TypeOK'
  <2>1. LifeTypeOK'
    BY <1>7 DEF TypeOK, Retire, Settle, sockVars, LifeTypeOK
  <2>2. WorkTypeOK'
    BY <1>7 DEF TypeOK, Retire, Settle, sockVars, WorkTypeOK, SessionTasks,
        Tokens, Futures, FutureStates, TaskStates
  <2>3. SocketTypeOK'
    BY <1>7 DEF TypeOK, Retire, Settle, sockVars, SocketTypeOK
  <2> QED BY <2>1, <2>2, <2>3 DEF TypeOK
<1>8. CASE RetireOrphan
  <2>1. LifeTypeOK'
    BY <1>8 DEF TypeOK, RetireOrphan, lifeVars, LifeTypeOK
  <2>2. WorkTypeOK'
    BY <1>8 DEF TypeOK, RetireOrphan, lifeVars, WorkTypeOK, SessionTasks,
        Tokens, Futures, FutureStates, TaskStates
  <2>3. SocketTypeOK'
    BY <1>8 DEF TypeOK, RetireOrphan, lifeVars, SocketTypeOK
  <2> QED BY <2>1, <2>2, <2>3 DEF TypeOK
<1>9. CASE RetireFailedOrphan
  <2>1. LifeTypeOK'
    BY <1>9 DEF TypeOK, RetireFailedOrphan, Settle, sockVars, LifeTypeOK
  <2>2. WorkTypeOK'
    BY <1>9 DEF TypeOK, RetireFailedOrphan, Settle, sockVars, WorkTypeOK,
        SessionTasks, Tokens, Futures, FutureStates, TaskStates
  <2>3. SocketTypeOK'
    BY <1>9 DEF TypeOK, RetireFailedOrphan, Settle, sockVars, SocketTypeOK
  <2> QED BY <2>1, <2>2, <2>3 DEF TypeOK
<1>10. CASE OrphanCleanupFails
  <2>1. LifeTypeOK'
    BY <1>10 DEF TypeOK, OrphanCleanupFails, lifeVars, workVars, LifeTypeOK
  <2>2. WorkTypeOK'
    BY <1>10 DEF TypeOK, OrphanCleanupFails, lifeVars, workVars, WorkTypeOK,
        SessionTasks, Tokens, Futures, FutureStates, TaskStates
  <2>3. SocketTypeOK'
    BY <1>10 DEF TypeOK, OrphanCleanupFails, lifeVars, workVars, SocketTypeOK
  <2> QED BY <2>1, <2>2, <2>3 DEF TypeOK
<1>11. ASSUME NEW t \in SessionTasks, RetireTask(t) PROVE TypeOK'
  <2>1. LifeTypeOK'
    BY <1>11 DEF TypeOK, RetireTask, Settle, sockVars, LifeTypeOK
  <2>2. WorkTypeOK'
    BY <1>11 DEF TypeOK, RetireTask, Settle, sockVars, WorkTypeOK,
        SessionTasks, Tokens, Futures, FutureStates, TaskStates
  <2>3. SocketTypeOK'
    BY <1>11 DEF TypeOK, RetireTask, Settle, sockVars, SocketTypeOK
  <2> QED BY <2>1, <2>2, <2>3 DEF TypeOK
<1> QED BY <1>1, <1>2, <1>3, <1>4, <1>5, <1>6, <1>7, <1>8, <1>9, <1>10, <1>11
       DEF FutureNext

\* The steps of the sessions keep the types.
LEMMA SessionNextTypes == ASSUME TypeOK, SessionNext PROVE TypeOK'
<1>1. ASSUME NEW s \in Sessions, Accept(s) PROVE TypeOK'
  BY <1>1 DEF Accept, Handler, Decode, lifeVars, sockVars, TypeOK, LifeTypeOK,
      WorkTypeOK, SessionTasks, Tokens, Futures, FutureStates, TaskStates,
      SocketTypeOK
<1>2. ASSUME NEW s \in Sessions, Commit(s) PROVE TypeOK'
  <2>1. LifeTypeOK'
    BY <1>2 DEF TypeOK, Commit, Handler, Decode, lifeVars, sockVars,
        LifeTypeOK
  <2>2. WorkTypeOK'
    <3>1. Decode(s) \in SessionTasks
      BY <1>2 DEF Decode, SessionTasks
    <3>2. task' \in [SessionTasks -> TaskStates]
      BY <1>2, <3>1 DEF TypeOK, WorkTypeOK, Commit, TaskStates
    <3>3. QED BY <1>2, <3>1, <3>2 DEF TypeOK, WorkTypeOK, Commit
  <2>3. SocketTypeOK'
    BY <1>2 DEF TypeOK, Commit, Handler, Decode, lifeVars, sockVars,
        SocketTypeOK
  <2> QED BY <2>1, <2>2, <2>3 DEF TypeOK
<1>3. ASSUME NEW s \in Sessions, DecodeLaunch(s) PROVE TypeOK'
  <2>1. LifeTypeOK'
    BY <1>3 DEF TypeOK, DecodeLaunch, Decode, lifeVars, workVars, sockVars,
        LifeTypeOK
  <2>2. WorkTypeOK'
    BY <1>3 DEF TypeOK, DecodeLaunch, Decode, lifeVars, workVars, sockVars,
        WorkTypeOK, SessionTasks, Tokens, Futures, FutureStates, TaskStates
  <2>3. SocketTypeOK'
    BY <1>3 DEF TypeOK, DecodeLaunch, Decode, lifeVars, workVars, sockVars,
        SocketTypeOK
  <2> QED BY <2>1, <2>2, <2>3 DEF TypeOK
<1>4. ASSUME NEW s \in Sessions, ThreadEnds(s) PROVE TypeOK'
  BY <1>4 DEF ThreadEnds, lifeVars, workVars, sockVars, TypeOK, LifeTypeOK,
      WorkTypeOK, SessionTasks, Tokens, Futures, FutureStates, TaskStates,
      SocketTypeOK
<1>5. ASSUME NEW s \in Sessions, DecodeEnds(s) PROVE TypeOK'
  <2>1. LifeTypeOK'
    BY <1>5 DEF TypeOK, DecodeEnds, Decode, lifeVars, workVars, sockVars,
        LifeTypeOK
  <2>2. WorkTypeOK'
    BY <1>5 DEF TypeOK, DecodeEnds, Decode, lifeVars, workVars, sockVars,
        WorkTypeOK, SessionTasks, Tokens, Futures, FutureStates, TaskStates
  <2>3. SocketTypeOK'
    BY <1>5 DEF TypeOK, DecodeEnds, Decode, lifeVars, workVars, sockVars,
        SocketTypeOK
  <2> QED BY <2>1, <2>2, <2>3 DEF TypeOK
<1>6. ASSUME NEW s \in Sessions, ClientLeaves(s) PROVE TypeOK'
  BY <1>6 DEF ClientLeaves, Handler, Live, Decode, lifeVars, workVars,
      sockVars, TypeOK, LifeTypeOK, WorkTypeOK, SessionTasks, Tokens, Futures,
      FutureStates, TaskStates, SocketTypeOK
<1>7. ASSUME NEW s \in Sessions, HandlerStops(s) PROVE TypeOK'
  BY <1>7 DEF HandlerStops, Handler, Live, Decode, lifeVars, workVars,
      sockVars, TypeOK, LifeTypeOK, WorkTypeOK, SessionTasks, Tokens, Futures,
      FutureStates, TaskStates, SocketTypeOK
<1>8. ASSUME NEW s \in Sessions, HandlerEnds(s) PROVE TypeOK'
  BY <1>8 DEF HandlerEnds, Handler, Live, Decode, lifeVars, workVars,
      sockVars, TypeOK, LifeTypeOK, WorkTypeOK, SessionTasks, Tokens, Futures,
      FutureStates, TaskStates, SocketTypeOK
<1> QED BY <1>1, <1>2, <1>3, <1>4, <1>5, <1>6, <1>7, <1>8 DEF SessionNext

\* The steps of shutdown() keep the types.
LEMMA ShutdownNextTypes == ASSUME TypeOK, ShutdownNext PROVE TypeOK'
<1>1. CASE ShutdownNew
  <2>1. LifeTypeOK'
    BY <1>1 DEF TypeOK, ShutdownNew, workVars, sockVars, LifeTypeOK
  <2>2. WorkTypeOK'
    BY <1>1 DEF TypeOK, ShutdownNew, workVars, sockVars, WorkTypeOK,
        SessionTasks, Tokens, Futures, FutureStates, TaskStates
  <2>3. SocketTypeOK'
    BY <1>1 DEF TypeOK, ShutdownNew, workVars, sockVars, SocketTypeOK
  <2> QED BY <2>1, <2>2, <2>3 DEF TypeOK
<1>2. CASE ShutdownStarting
  BY <1>2 DEF ShutdownStarting, workVars, sockVars, TypeOK, LifeTypeOK,
      WorkTypeOK, SessionTasks, Tokens, Futures, FutureStates, TaskStates,
      SocketTypeOK
<1>3. CASE ShutdownRunning
  BY <1>3 DEF ShutdownRunning, sockVars, TypeOK, LifeTypeOK, WorkTypeOK,
      SessionTasks, Tokens, Futures, FutureStates, TaskStates, SocketTypeOK
<1>4. CASE ShutdownAgain
  BY <1>4 DEF ShutdownAgain, workVars, sockVars, TypeOK, LifeTypeOK,
      WorkTypeOK, SessionTasks, Tokens, Futures, FutureStates, TaskStates,
      SocketTypeOK
<1>5. CASE CancelShutdown
  <2>1. LifeTypeOK'
    BY <1>5 DEF TypeOK, CancelShutdown, CancelSessions, CancelTasks,
        SessionTasks, AfterCancel, LiveSessions, Live, workVars, sockVars,
        LifeTypeOK
  <2>2. WorkTypeOK'
    BY <1>5 DEF TypeOK, CancelShutdown, CancelSessions, CancelTasks,
        SessionTasks, AfterCancel, LiveSessions, Live, workVars, sockVars,
        WorkTypeOK, Tokens, Futures, FutureStates, TaskStates
  <2>3. SocketTypeOK'
    BY <1>5 DEF TypeOK, CancelShutdown, CancelSessions, CancelTasks,
        SessionTasks, AfterCancel, LiveSessions, Live, workVars, sockVars,
        SocketTypeOK
  <2> QED BY <2>1, <2>2, <2>3 DEF TypeOK
<1> QED BY <1>1, <1>2, <1>3, <1>4, <1>5 DEF ShutdownNext

\* The steps of the outsider keep the types.
LEMMA OutsiderReplacesTypes == ASSUME TypeOK, OutsiderReplaces PROVE TypeOK'
  BY DEF OutsiderReplaces, lifeVars, workVars, TypeOK, LifeTypeOK, WorkTypeOK,
      SessionTasks, Tokens, Futures, FutureStates, TaskStates, SocketTypeOK

(* The inductive invariant. *)

\* StartNext keeps the inductive invariant.
LEMMA StartNextInv == ASSUME IInv, StartNext PROVE IInv'
<1> TypeOK /\ TypeOK'
  BY StartNextTypes DEF IInv
<1>1. CASE StartCall
  <2>1. LockByState'
    BY <1>1 DEF IInv, StartCall, sockVars, TypeOK, LifeTypeOK, WorkTypeOK,
        SessionTasks, Tokens, Futures, FutureStates, TaskStates, SocketTypeOK,
        LockByState, Adoptable, LedgerByState, Unlocked, LedgerExact,
        DrainRunner, FreshStart, ListenerOwned, ThreadsWatched, Handler,
        Decode
  <2>2. LedgerByState'
    BY <1>1 DEF StartCall, LedgerByState, Unlocked
  <2>3. LedgerExact'
    BY <1>1 DEF IInv, StartCall, sockVars, TypeOK, LifeTypeOK, WorkTypeOK,
        SessionTasks, Tokens, Futures, FutureStates, TaskStates, SocketTypeOK,
        LockByState, Adoptable, LedgerByState, Unlocked, LedgerExact,
        DrainRunner, FreshStart, ListenerOwned, ThreadsWatched, Handler,
        Decode
  <2>4. DrainRunner'
    BY <1>1 DEF IInv, StartCall, FreshStart, DrainRunner
  <2>5. FreshStart'
    BY <1>1 DEF IInv, FreshStart, StartCall, sockVars
  <2>6. ListenerOwned'
    <3>1. ledger = {} /\ fut["bind"] = "none" /\ fut["listener-close"] = "none" /\ start = "idle"
      BY <1>1 DEF IInv, StartCall, LedgerByState, LedgerExact, Unlocked, Futures
    <3>2. ListenerOwned
      BY DEF IInv
    <3>3. QED BY <1>1, <3>1, <3>2 DEF StartCall, ListenerOwned, sockVars
  <2>7. ThreadsWatched'
    BY <1>1 DEF IInv, StartCall, sockVars, TypeOK, LifeTypeOK, WorkTypeOK,
        SessionTasks, Tokens, Futures, FutureStates, TaskStates, SocketTypeOK,
        LockByState, Adoptable, LedgerByState, Unlocked, LedgerExact,
        DrainRunner, FreshStart, ListenerOwned, ThreadsWatched, Handler,
        Decode
  <2> QED BY <2>1, <2>2, <2>3, <2>4, <2>5, <2>6, <2>7 DEF IInv
<1>2. CASE BackendStarted
  BY <1>2 DEF IInv, BackendStarted, lifeVars, sockVars, TypeOK, LifeTypeOK,
      WorkTypeOK, SessionTasks, Tokens, Futures, FutureStates, TaskStates,
      SocketTypeOK, LockByState, Adoptable, LedgerByState, Unlocked,
      LedgerExact, DrainRunner, FreshStart, ListenerOwned, ThreadsWatched,
      Handler, Decode
<1>3. CASE BackendStartedLate
  <2>1. LockByState'
    BY <1>3 DEF IInv, BackendStartedLate, BeginDrain, LiveSessions, Live,
        Futures, AfterUnlink, lifeVars, TypeOK, LifeTypeOK, WorkTypeOK,
        SessionTasks, Tokens, FutureStates, TaskStates, SocketTypeOK,
        LockByState, Adoptable, LedgerByState, Unlocked, LedgerExact,
        DrainRunner, FreshStart, ListenerOwned, ThreadsWatched, Handler,
        Decode
  <2>2. LedgerByState'
    BY <1>3 DEF IInv, BackendStartedLate, BeginDrain, LiveSessions, Live,
        Futures, AfterUnlink, lifeVars, TypeOK, LifeTypeOK, WorkTypeOK,
        SessionTasks, Tokens, FutureStates, TaskStates, SocketTypeOK,
        LockByState, Adoptable, LedgerByState, Unlocked, LedgerExact,
        DrainRunner, FreshStart, ListenerOwned, ThreadsWatched, Handler,
        Decode
  <2>3. LedgerExact'
    BY <1>3 DEF IInv, BackendStartedLate, BeginDrain, LiveSessions, Live,
        Futures, AfterUnlink, lifeVars, TypeOK, LifeTypeOK, WorkTypeOK,
        SessionTasks, Tokens, FutureStates, TaskStates, SocketTypeOK,
        LockByState, Adoptable, LedgerByState, Unlocked, LedgerExact,
        DrainRunner, FreshStart, ListenerOwned, ThreadsWatched, Handler,
        Decode
  <2>4. DrainRunner'
    BY <1>3 DEF IInv, BackendStartedLate, BeginDrain, LiveSessions, Live,
        Futures, AfterUnlink, lifeVars, TypeOK, LifeTypeOK, WorkTypeOK,
        SessionTasks, Tokens, FutureStates, TaskStates, SocketTypeOK,
        LockByState, Adoptable, LedgerByState, Unlocked, LedgerExact,
        DrainRunner, FreshStart, ListenerOwned, ThreadsWatched, Handler,
        Decode
  <2>5. FreshStart'
    BY <1>3 DEF IInv, BackendStartedLate, BeginDrain, LiveSessions, Live,
        Futures, AfterUnlink, lifeVars, TypeOK, LifeTypeOK, WorkTypeOK,
        SessionTasks, Tokens, FutureStates, TaskStates, SocketTypeOK,
        LockByState, Adoptable, LedgerByState, Unlocked, LedgerExact,
        DrainRunner, FreshStart, ListenerOwned, ThreadsWatched, Handler,
        Decode
  <2>6. ListenerOwned'
    BY <1>3 DEF IInv, BackendStartedLate, BeginDrain, LiveSessions, Live,
        Futures, AfterUnlink, lifeVars, TypeOK, LifeTypeOK, WorkTypeOK,
        SessionTasks, Tokens, FutureStates, TaskStates, SocketTypeOK,
        LockByState, Adoptable, LedgerByState, Unlocked, LedgerExact,
        DrainRunner, FreshStart, ListenerOwned, ThreadsWatched, Handler,
        Decode
  <2>7. ThreadsWatched'
    BY <1>3 DEF IInv, BackendStartedLate, BeginDrain, LiveSessions, Live,
        Futures, AfterUnlink, lifeVars, TypeOK, LifeTypeOK, WorkTypeOK,
        SessionTasks, Tokens, FutureStates, TaskStates, SocketTypeOK,
        LockByState, Adoptable, LedgerByState, Unlocked, LedgerExact,
        DrainRunner, FreshStart, ListenerOwned, ThreadsWatched, Handler,
        Decode
  <2> QED BY <2>1, <2>2, <2>3, <2>4, <2>5, <2>6, <2>7 DEF IInv
<1>4. CASE BackendStartFails
  <2>1. LockByState'
    BY <1>4 DEF IInv, BackendStartFails, FinishStart, Settle, ResetAttempt,
        TypeOK, LifeTypeOK, WorkTypeOK, SessionTasks, Tokens, Futures,
        FutureStates, TaskStates, SocketTypeOK, LockByState, Adoptable,
        LedgerByState, Unlocked, LedgerExact, DrainRunner, FreshStart,
        ListenerOwned, ThreadsWatched, Handler, Decode
  <2>2. LedgerByState'
    BY <1>4 DEF IInv, BackendStartFails, FinishStart, Settle, ResetAttempt,
        TypeOK, LifeTypeOK, WorkTypeOK, SessionTasks, Tokens, Futures,
        FutureStates, TaskStates, SocketTypeOK, LockByState, Adoptable,
        LedgerByState, Unlocked, LedgerExact, DrainRunner, FreshStart,
        ListenerOwned, ThreadsWatched, Handler, Decode
  <2>3. LedgerExact'
    BY <1>4 DEF IInv, BackendStartFails, FinishStart, Settle, ResetAttempt,
        TypeOK, LifeTypeOK, WorkTypeOK, SessionTasks, Tokens, Futures,
        FutureStates, TaskStates, SocketTypeOK, LockByState, Adoptable,
        LedgerByState, Unlocked, LedgerExact, DrainRunner, FreshStart,
        ListenerOwned, ThreadsWatched, Handler, Decode
  <2>4. DrainRunner'
    BY <1>4 DEF IInv, BackendStartFails, FinishStart, Settle, ResetAttempt,
        TypeOK, LifeTypeOK, WorkTypeOK, SessionTasks, Tokens, Futures,
        FutureStates, TaskStates, SocketTypeOK, LockByState, Adoptable,
        LedgerByState, Unlocked, LedgerExact, DrainRunner, FreshStart,
        ListenerOwned, ThreadsWatched, Handler, Decode
  <2>5. FreshStart'
    BY <1>4 DEF IInv, BackendStartFails, FinishStart, Settle, ResetAttempt,
        TypeOK, LifeTypeOK, WorkTypeOK, SessionTasks, Tokens, Futures,
        FutureStates, TaskStates, SocketTypeOK, LockByState, Adoptable,
        LedgerByState, Unlocked, LedgerExact, DrainRunner, FreshStart,
        ListenerOwned, ThreadsWatched, Handler, Decode
  <2>6. ListenerOwned'
    BY <1>4 DEF IInv, BackendStartFails, FinishStart, Settle, ResetAttempt,
        TypeOK, LifeTypeOK, WorkTypeOK, SessionTasks, Tokens, Futures,
        FutureStates, TaskStates, SocketTypeOK, LockByState, Adoptable,
        LedgerByState, Unlocked, LedgerExact, DrainRunner, FreshStart,
        ListenerOwned, ThreadsWatched, Handler, Decode
  <2>7. ThreadsWatched'
    <3>1. (IdleAware => threads' = {}) /\ \A t \in SessionTasks : task'[t] = "none"
      BY <1>4 DEF IInv, FreshStart, BackendStartFails
    <3>2. \A s \in Sessions : Handler(s) \in SessionTasks /\ Decode(s) \in SessionTasks
      BY DEF Handler, Decode, SessionTasks
    <3>3. QED BY <3>1, <3>2 DEF ThreadsWatched
  <2> QED BY <2>1, <2>2, <2>3, <2>4, <2>5, <2>6, <2>7 DEF IInv
<1>5. CASE BindSocket
  BY <1>5 DEF IInv, BindSocket, lifeVars, workVars, TypeOK, LifeTypeOK,
      WorkTypeOK, SessionTasks, Tokens, Futures, FutureStates, TaskStates,
      SocketTypeOK, LockByState, Adoptable, LedgerByState, Unlocked,
      LedgerExact, DrainRunner, FreshStart, ListenerOwned, ThreadsWatched,
      Handler, Decode
<1>6. CASE BindFails
  BY <1>6 DEF IInv, BindFails, lifeVars, workVars, sockVars, TypeOK,
      LifeTypeOK, WorkTypeOK, SessionTasks, Tokens, Futures, FutureStates,
      TaskStates, SocketTypeOK, LockByState, Adoptable, LedgerByState,
      Unlocked, LedgerExact, DrainRunner, FreshStart, ListenerOwned,
      ThreadsWatched, Handler, Decode
<1>7. CASE BindDone
  BY <1>7 DEF IInv, BindDone, lifeVars, workVars, TypeOK, LifeTypeOK,
      WorkTypeOK, SessionTasks, Tokens, Futures, FutureStates, TaskStates,
      SocketTypeOK, LockByState, Adoptable, LedgerByState, Unlocked,
      LedgerExact, DrainRunner, FreshStart, ListenerOwned, ThreadsWatched,
      Handler, Decode
<1>8. CASE StartSucceeds
  <2>1. LockByState'
    BY <1>8 DEF IInv, StartSucceeds, TypeOK, LifeTypeOK, WorkTypeOK,
        SessionTasks, Tokens, Futures, FutureStates, TaskStates, SocketTypeOK,
        LockByState, Adoptable, LedgerByState, Unlocked, LedgerExact,
        DrainRunner, FreshStart, ListenerOwned, ThreadsWatched, Handler,
        Decode
  <2>2. LedgerByState'
    BY <1>8 DEF IInv, StartSucceeds, TypeOK, LifeTypeOK, WorkTypeOK,
        SessionTasks, Tokens, Futures, FutureStates, TaskStates, SocketTypeOK,
        LockByState, Adoptable, LedgerByState, Unlocked, LedgerExact,
        DrainRunner, FreshStart, ListenerOwned, ThreadsWatched, Handler,
        Decode
  <2>3. LedgerExact'
    BY <1>8 DEF IInv, StartSucceeds, TypeOK, LifeTypeOK, WorkTypeOK,
        SessionTasks, Tokens, Futures, FutureStates, TaskStates, SocketTypeOK,
        LockByState, Adoptable, LedgerByState, Unlocked, LedgerExact,
        DrainRunner, FreshStart, ListenerOwned, ThreadsWatched, Handler,
        Decode
  <2>4. DrainRunner'
    BY <1>8 DEF IInv, StartSucceeds, TypeOK, LifeTypeOK, WorkTypeOK,
        SessionTasks, Tokens, Futures, FutureStates, TaskStates, SocketTypeOK,
        LockByState, Adoptable, LedgerByState, Unlocked, LedgerExact,
        DrainRunner, FreshStart, ListenerOwned, ThreadsWatched, Handler,
        Decode
  <2>5. FreshStart'
    BY <1>8 DEF IInv, StartSucceeds, TypeOK, LifeTypeOK, WorkTypeOK,
        SessionTasks, Tokens, Futures, FutureStates, TaskStates, SocketTypeOK,
        LockByState, Adoptable, LedgerByState, Unlocked, LedgerExact,
        DrainRunner, FreshStart, ListenerOwned, ThreadsWatched, Handler,
        Decode
  <2>6. ListenerOwned'
    BY <1>8 DEF IInv, StartSucceeds, TypeOK, LifeTypeOK, WorkTypeOK,
        SessionTasks, Tokens, Futures, FutureStates, TaskStates, SocketTypeOK,
        LockByState, Adoptable, LedgerByState, Unlocked, LedgerExact,
        DrainRunner, FreshStart, ListenerOwned, ThreadsWatched, Handler,
        Decode
  <2>7. ThreadsWatched'
    BY <1>8 DEF IInv, StartSucceeds, TypeOK, LifeTypeOK, WorkTypeOK,
        SessionTasks, Tokens, Futures, FutureStates, TaskStates, SocketTypeOK,
        LockByState, Adoptable, LedgerByState, Unlocked, LedgerExact,
        DrainRunner, FreshStart, ListenerOwned, ThreadsWatched, Handler,
        Decode
  <2> QED BY <2>1, <2>2, <2>3, <2>4, <2>5, <2>6, <2>7 DEF IInv
<1>9. CASE StartUnwinds
  <2>1. LockByState'
    BY <1>9 DEF IInv, StartUnwinds, BindOver, BeginDrain, LiveSessions, Live,
        Futures, AfterUnlink, lifeVars, TypeOK, LifeTypeOK, WorkTypeOK,
        SessionTasks, Tokens, FutureStates, TaskStates, SocketTypeOK,
        LockByState, Adoptable, LedgerByState, Unlocked, LedgerExact,
        DrainRunner, FreshStart, ListenerOwned, ThreadsWatched, Handler,
        Decode
  <2>2. LedgerByState'
    BY <1>9 DEF IInv, StartUnwinds, BindOver, BeginDrain, LiveSessions, Live,
        Futures, AfterUnlink, lifeVars, TypeOK, LifeTypeOK, WorkTypeOK,
        SessionTasks, Tokens, FutureStates, TaskStates, SocketTypeOK,
        LockByState, Adoptable, LedgerByState, Unlocked, LedgerExact,
        DrainRunner, FreshStart, ListenerOwned, ThreadsWatched, Handler,
        Decode
  <2>3. LedgerExact'
    BY <1>9 DEF IInv, StartUnwinds, BindOver, BeginDrain, LiveSessions, Live,
        Futures, AfterUnlink, lifeVars, TypeOK, LifeTypeOK, WorkTypeOK,
        SessionTasks, Tokens, FutureStates, TaskStates, SocketTypeOK,
        LockByState, Adoptable, LedgerByState, Unlocked, LedgerExact,
        DrainRunner, FreshStart, ListenerOwned, ThreadsWatched, Handler,
        Decode
  <2>4. DrainRunner'
    BY <1>9 DEF IInv, StartUnwinds, BindOver, BeginDrain, LiveSessions, Live,
        Futures, AfterUnlink, lifeVars, TypeOK, LifeTypeOK, WorkTypeOK,
        SessionTasks, Tokens, FutureStates, TaskStates, SocketTypeOK,
        LockByState, Adoptable, LedgerByState, Unlocked, LedgerExact,
        DrainRunner, FreshStart, ListenerOwned, ThreadsWatched, Handler,
        Decode
  <2>5. FreshStart'
    BY <1>9 DEF IInv, StartUnwinds, BindOver, BeginDrain, LiveSessions, Live,
        Futures, AfterUnlink, lifeVars, TypeOK, LifeTypeOK, WorkTypeOK,
        SessionTasks, Tokens, FutureStates, TaskStates, SocketTypeOK,
        LockByState, Adoptable, LedgerByState, Unlocked, LedgerExact,
        DrainRunner, FreshStart, ListenerOwned, ThreadsWatched, Handler,
        Decode
  <2>6. ListenerOwned'
    BY <1>9 DEF IInv, StartUnwinds, BindOver, BeginDrain, LiveSessions, Live,
        Futures, AfterUnlink, lifeVars, TypeOK, LifeTypeOK, WorkTypeOK,
        SessionTasks, Tokens, FutureStates, TaskStates, SocketTypeOK,
        LockByState, Adoptable, LedgerByState, Unlocked, LedgerExact,
        DrainRunner, FreshStart, ListenerOwned, ThreadsWatched, Handler,
        Decode
  <2>7. ThreadsWatched'
    BY <1>9 DEF IInv, StartUnwinds, BindOver, BeginDrain, LiveSessions, Live,
        Futures, AfterUnlink, lifeVars, TypeOK, LifeTypeOK, WorkTypeOK,
        SessionTasks, Tokens, FutureStates, TaskStates, SocketTypeOK,
        LockByState, Adoptable, LedgerByState, Unlocked, LedgerExact,
        DrainRunner, FreshStart, ListenerOwned, ThreadsWatched, Handler,
        Decode
  <2> QED BY <2>1, <2>2, <2>3, <2>4, <2>5, <2>6, <2>7 DEF IInv
<1>10. CASE CancelBind
  BY <1>10 DEF IInv, CancelBind, BindOver, lifeVars, workVars, sockVars,
      TypeOK, LifeTypeOK, WorkTypeOK, SessionTasks, Tokens, Futures,
      FutureStates, TaskStates, SocketTypeOK, LockByState, Adoptable,
      LedgerByState, Unlocked, LedgerExact, DrainRunner, FreshStart,
      ListenerOwned, ThreadsWatched, Handler, Decode
<1>11. CASE AbandonBind
  <2>1. LockByState'
    BY <1>11 DEF IInv, AbandonBind, BindOver, BeginDrain, LiveSessions, Live,
        Futures, AfterUnlink, lifeVars, TypeOK, LifeTypeOK, WorkTypeOK,
        SessionTasks, Tokens, FutureStates, TaskStates, SocketTypeOK,
        LockByState, Adoptable, LedgerByState, Unlocked, LedgerExact,
        DrainRunner, FreshStart, ListenerOwned, ThreadsWatched, Handler,
        Decode
  <2>2. LedgerByState'
    BY <1>11 DEF IInv, AbandonBind, BindOver, BeginDrain, LiveSessions, Live,
        Futures, AfterUnlink, lifeVars, TypeOK, LifeTypeOK, WorkTypeOK,
        SessionTasks, Tokens, FutureStates, TaskStates, SocketTypeOK,
        LockByState, Adoptable, LedgerByState, Unlocked, LedgerExact,
        DrainRunner, FreshStart, ListenerOwned, ThreadsWatched, Handler,
        Decode
  <2>3. LedgerExact'
    BY <1>11 DEF IInv, AbandonBind, BindOver, BeginDrain, LiveSessions, Live,
        Futures, AfterUnlink, lifeVars, TypeOK, LifeTypeOK, WorkTypeOK,
        SessionTasks, Tokens, FutureStates, TaskStates, SocketTypeOK,
        LockByState, Adoptable, LedgerByState, Unlocked, LedgerExact,
        DrainRunner, FreshStart, ListenerOwned, ThreadsWatched, Handler,
        Decode
  <2>4. DrainRunner'
    BY <1>11 DEF IInv, AbandonBind, BindOver, BeginDrain, LiveSessions, Live,
        Futures, AfterUnlink, lifeVars, TypeOK, LifeTypeOK, WorkTypeOK,
        SessionTasks, Tokens, FutureStates, TaskStates, SocketTypeOK,
        LockByState, Adoptable, LedgerByState, Unlocked, LedgerExact,
        DrainRunner, FreshStart, ListenerOwned, ThreadsWatched, Handler,
        Decode
  <2>5. FreshStart'
    <3>1. state # "new"
      BY <1>11 DEF IInv, AbandonBind, LedgerByState, LedgerExact, Unlocked
    <3>2. QED BY <1>11, <3>1 DEF AbandonBind, FreshStart, lifeVars
  <2>6. ListenerOwned'
    <3>1. fut["bind"] \in {"queued", "run"} /\ ~server
      BY <1>11 DEF IInv, TypeOK, WorkTypeOK, AbandonBind, BindOver, FreshStart,
                  FutureStates, Futures
    <3>2. /\ fut'["bind"] = fut["bind"] /\ fut'["listener-close"] = fut["listener-close"]
          /\ listener' = listener /\ server' = FALSE /\ orphan' = TRUE
      BY <1>11, <3>1 DEF AbandonBind, BeginDrain, Futures, IInv, TypeOK, SocketTypeOK
    <3>3. ListenerOwned
      BY DEF IInv
    <3>4. QED BY <1>11, <3>1, <3>2, <3>3 DEF ListenerOwned, AbandonBind, lifeVars
  <2>7. ThreadsWatched'
    BY <1>11 DEF IInv, AbandonBind, BindOver, BeginDrain, LiveSessions, Live,
        Futures, AfterUnlink, lifeVars, TypeOK, LifeTypeOK, WorkTypeOK,
        SessionTasks, Tokens, FutureStates, TaskStates, SocketTypeOK,
        LockByState, Adoptable, LedgerByState, Unlocked, LedgerExact,
        DrainRunner, FreshStart, ListenerOwned, ThreadsWatched, Handler,
        Decode
  <2> QED BY <2>1, <2>2, <2>3, <2>4, <2>5, <2>6, <2>7 DEF IInv
<1> QED BY <1>1, <1>2, <1>3, <1>4, <1>5, <1>6, <1>7, <1>8, <1>9, <1>10, <1>11
       DEF StartNext

\* DrainNext keeps the inductive invariant.
LEMMA DrainNextInv == ASSUME IInv, DrainNext PROVE IInv'
<1> TypeOK /\ TypeOK'
  BY DrainNextTypes DEF IInv
<1>1. CASE DrainBegin
  BY <1>1 DEF IInv, DrainBegin, BeginDrain, LiveSessions, Live, Futures,
      AfterUnlink, lifeVars, TypeOK, LifeTypeOK, WorkTypeOK, SessionTasks,
      Tokens, FutureStates, TaskStates, SocketTypeOK, LockByState, Adoptable,
      LedgerByState, Unlocked, LedgerExact, DrainRunner, FreshStart,
      ListenerOwned, ThreadsWatched, Handler, Decode
<1>2. CASE DrainSessionsDone
  BY <1>2 DEF IInv, DrainSessionsDone, Live, AfterSessions, StartBackendClose,
      lifeVars, sockVars, TypeOK, LifeTypeOK, WorkTypeOK, SessionTasks,
      Tokens, Futures, FutureStates, TaskStates, SocketTypeOK, LockByState,
      Adoptable, LedgerByState, Unlocked, LedgerExact, DrainRunner,
      FreshStart, ListenerOwned, ThreadsWatched, Handler, Decode
<1>3. CASE DrainTimeout
  BY <1>3 DEF IInv, DrainTimeout, Live, CancelTasks, SessionTasks,
      AfterCancel, lifeVars, workVars, sockVars, TypeOK, LifeTypeOK,
      WorkTypeOK, Tokens, Futures, FutureStates, TaskStates, SocketTypeOK,
      LockByState, Adoptable, LedgerByState, Unlocked, LedgerExact,
      DrainRunner, FreshStart, ListenerOwned, ThreadsWatched, Handler, Decode
<1>4. CASE DrainGraceOver
  BY <1>4 DEF IInv, DrainGraceOver, AfterSessions, StartBackendClose,
      lifeVars, sockVars, TypeOK, LifeTypeOK, WorkTypeOK, SessionTasks,
      Tokens, Futures, FutureStates, TaskStates, SocketTypeOK, LockByState,
      Adoptable, LedgerByState, Unlocked, LedgerExact, DrainRunner,
      FreshStart, ListenerOwned, ThreadsWatched, Handler, Decode
<1>5. CASE DrainListenerOver
  BY <1>5 DEF IInv, DrainListenerOver, StartBackendClose, lifeVars, sockVars,
      TypeOK, LifeTypeOK, WorkTypeOK, SessionTasks, Tokens, Futures,
      FutureStates, TaskStates, SocketTypeOK, LockByState, Adoptable,
      LedgerByState, Unlocked, LedgerExact, DrainRunner, FreshStart,
      ListenerOwned, ThreadsWatched, Handler, Decode
<1>6. CASE DrainBackendOver
  <2>1. LockByState'
    BY <1>6 DEF IInv, DrainBackendOver, EndDrain, Futures, CancelSessions,
        CancelTasks, SessionTasks, AfterCancel, LiveSessions, Live,
        FinishStart, Settle, ResetAttempt, TypeOK, LifeTypeOK, WorkTypeOK,
        Tokens, FutureStates, TaskStates, SocketTypeOK, LockByState,
        Adoptable, LedgerByState, Unlocked, LedgerExact, DrainRunner,
        FreshStart, ListenerOwned, ThreadsWatched, Handler, Decode
  <2>2. LedgerByState'
    BY <1>6 DEF IInv, DrainBackendOver, EndDrain, Futures, CancelSessions,
        CancelTasks, SessionTasks, AfterCancel, LiveSessions, Live,
        FinishStart, Settle, ResetAttempt, TypeOK, LifeTypeOK, WorkTypeOK,
        Tokens, FutureStates, TaskStates, SocketTypeOK, LockByState,
        Adoptable, LedgerByState, Unlocked, LedgerExact, DrainRunner,
        FreshStart, ListenerOwned, ThreadsWatched, Handler, Decode
  <2>3. LedgerExact'
    <3>1. CASE start = "unwind"
      BY <1>6, <3>1 DEF IInv, DrainBackendOver, EndDrain, Futures,
          CancelSessions, CancelTasks, SessionTasks, AfterCancel, LiveSessions,
          Live, FinishStart, Settle, ResetAttempt, TypeOK, LifeTypeOK,
          WorkTypeOK, Tokens, FutureStates, TaskStates, SocketTypeOK,
          LockByState, Adoptable, LedgerByState, Unlocked, LedgerExact,
          DrainRunner, FreshStart, ListenerOwned, ThreadsWatched, Handler,
          Decode
    <3>2. CASE start # "unwind"
      <4>1. fut["stop"] = "run" /\ drain = "backend"
        BY <1>6, <3>2 DEF IInv, DrainRunner, DrainBackendOver
      <4>2. \A k \in Futures : k \in ledger' <=> fut'[k] # "none"
        BY <1>6, <3>2, <4>1 DEF IInv, LedgerExact, DrainBackendOver, EndDrain, Futures
      <4>3. \A t \in SessionTasks : t \in sessionWork' <=> task'[t] # "none"
        BY <1>6, <3>2 DEF IInv, LedgerExact, DrainBackendOver, EndDrain,
                    CancelSessions, CancelTasks, AfterCancel
      <4>4. /\ "start" \in ledger' <=> start' # "idle"
            /\ "drain" \in ledger' <=> drain' \notin {"off", "begin"}
        BY <1>6, <3>2 DEF IInv, LedgerExact, DrainBackendOver, EndDrain
      <4> QED BY <4>2, <4>3, <4>4 DEF LedgerExact
    <3> QED BY <3>1, <3>2
  <2>4. DrainRunner'
    BY <1>6 DEF IInv, DrainBackendOver, EndDrain, Futures, CancelSessions,
        CancelTasks, SessionTasks, AfterCancel, LiveSessions, Live,
        FinishStart, Settle, ResetAttempt, TypeOK, LifeTypeOK, WorkTypeOK,
        Tokens, FutureStates, TaskStates, SocketTypeOK, LockByState,
        Adoptable, LedgerByState, Unlocked, LedgerExact, DrainRunner,
        FreshStart, ListenerOwned, ThreadsWatched, Handler, Decode
  <2>5. FreshStart'
    BY <1>6 DEF IInv, DrainBackendOver, EndDrain, Futures, CancelSessions,
        CancelTasks, SessionTasks, AfterCancel, LiveSessions, Live,
        FinishStart, Settle, ResetAttempt, TypeOK, LifeTypeOK, WorkTypeOK,
        Tokens, FutureStates, TaskStates, SocketTypeOK, LockByState,
        Adoptable, LedgerByState, Unlocked, LedgerExact, DrainRunner,
        FreshStart, ListenerOwned, ThreadsWatched, Handler, Decode
  <2>6. ListenerOwned'
    <3>1. CASE start = "unwind"
      BY <1>6, <3>1 DEF IInv, DrainBackendOver, EndDrain, Futures,
          CancelSessions, CancelTasks, SessionTasks, AfterCancel, LiveSessions,
          Live, FinishStart, Settle, ResetAttempt, TypeOK, LifeTypeOK,
          WorkTypeOK, Tokens, FutureStates, TaskStates, SocketTypeOK,
          LockByState, Adoptable, LedgerByState, Unlocked, LedgerExact,
          DrainRunner, FreshStart, ListenerOwned, ThreadsWatched, Handler,
          Decode
    <3>2. CASE start # "unwind"
      <4>1. /\ fut'["bind"] = fut["bind"] /\ fut'["listener-close"] = fut["listener-close"]
            /\ drain = "backend" /\ start = "idle" /\ state = "stopping" /\ drain' = "off"
            /\ UNCHANGED <<state, start, server, listener, orphan>>
        BY <1>6, <3>2 DEF IInv, DrainRunner, DrainBackendOver, EndDrain, Futures
      <4> QED BY <4>1 DEF IInv, ListenerOwned
    <3> QED BY <3>1, <3>2
  <2>7. ThreadsWatched'
    <3>1. CASE start = "unwind"
      BY <1>6, <3>1 DEF IInv, DrainBackendOver, EndDrain, Futures,
          CancelSessions, CancelTasks, SessionTasks, AfterCancel, LiveSessions,
          Live, FinishStart, Settle, ResetAttempt, TypeOK, LifeTypeOK,
          WorkTypeOK, Tokens, FutureStates, TaskStates, SocketTypeOK,
          LockByState, Adoptable, LedgerByState, Unlocked, LedgerExact,
          DrainRunner, FreshStart, ListenerOwned, ThreadsWatched, Handler,
          Decode
    <3>2. CASE start # "unwind"
      <4>1. \A t \in SessionTasks : task'[t] \notin {"queued", "run", "closing"}
        BY <1>6, <3>2 DEF IInv, LedgerExact, DrainBackendOver, EndDrain, LiveSessions,
                    Live, CancelSessions, CancelTasks, AfterCancel
      <4>2. IdleAware /\ threads' # {} => fut'["thread"] = "run"
        BY <1>6, <3>2 DEF DrainBackendOver, EndDrain, Futures
      <4> QED BY <4>1, <4>2 DEF ThreadsWatched, Handler, Decode, SessionTasks
    <3> QED BY <3>1, <3>2
  <2> QED BY <2>1, <2>2, <2>3, <2>4, <2>5, <2>6, <2>7 DEF IInv
<1>7. CASE DrainCancelled
  <2>1. LockByState'
    BY <1>7 DEF IInv, DrainCancelled, EndDrain, Futures, CancelSessions,
        CancelTasks, SessionTasks, AfterCancel, LiveSessions, Live,
        FinishStart, Settle, ResetAttempt, TypeOK, LifeTypeOK, WorkTypeOK,
        Tokens, FutureStates, TaskStates, SocketTypeOK, LockByState,
        Adoptable, LedgerByState, Unlocked, LedgerExact, DrainRunner,
        FreshStart, ListenerOwned, ThreadsWatched, Handler, Decode
  <2>2. LedgerByState'
    BY <1>7 DEF IInv, DrainCancelled, EndDrain, Futures, CancelSessions,
        CancelTasks, SessionTasks, AfterCancel, LiveSessions, Live,
        FinishStart, Settle, ResetAttempt, TypeOK, LifeTypeOK, WorkTypeOK,
        Tokens, FutureStates, TaskStates, SocketTypeOK, LockByState,
        Adoptable, LedgerByState, Unlocked, LedgerExact, DrainRunner,
        FreshStart, ListenerOwned, ThreadsWatched, Handler, Decode
  <2>3. LedgerExact'
    BY <1>7 DEF IInv, DrainCancelled, EndDrain, Futures, CancelSessions,
        CancelTasks, SessionTasks, AfterCancel, LiveSessions, Live,
        FinishStart, Settle, ResetAttempt, TypeOK, LifeTypeOK, WorkTypeOK,
        Tokens, FutureStates, TaskStates, SocketTypeOK, LockByState,
        Adoptable, LedgerByState, Unlocked, LedgerExact, DrainRunner,
        FreshStart, ListenerOwned, ThreadsWatched, Handler, Decode
  <2>4. DrainRunner'
    BY <1>7 DEF IInv, DrainCancelled, EndDrain, Futures, CancelSessions,
        CancelTasks, SessionTasks, AfterCancel, LiveSessions, Live,
        FinishStart, Settle, ResetAttempt, TypeOK, LifeTypeOK, WorkTypeOK,
        Tokens, FutureStates, TaskStates, SocketTypeOK, LockByState,
        Adoptable, LedgerByState, Unlocked, LedgerExact, DrainRunner,
        FreshStart, ListenerOwned, ThreadsWatched, Handler, Decode
  <2>5. FreshStart'
    BY <1>7 DEF IInv, DrainCancelled, EndDrain, Futures, CancelSessions,
        CancelTasks, SessionTasks, AfterCancel, LiveSessions, Live,
        FinishStart, Settle, ResetAttempt, TypeOK, LifeTypeOK, WorkTypeOK,
        Tokens, FutureStates, TaskStates, SocketTypeOK, LockByState,
        Adoptable, LedgerByState, Unlocked, LedgerExact, DrainRunner,
        FreshStart, ListenerOwned, ThreadsWatched, Handler, Decode
  <2>6. ListenerOwned'
    BY <1>7 DEF IInv, DrainCancelled, EndDrain, Futures, CancelSessions,
        CancelTasks, SessionTasks, AfterCancel, LiveSessions, Live,
        FinishStart, Settle, ResetAttempt, TypeOK, LifeTypeOK, WorkTypeOK,
        Tokens, FutureStates, TaskStates, SocketTypeOK, LockByState,
        Adoptable, LedgerByState, Unlocked, LedgerExact, DrainRunner,
        FreshStart, ListenerOwned, ThreadsWatched, Handler, Decode
  <2>7. ThreadsWatched'
    BY <1>7 DEF IInv, DrainCancelled, EndDrain, Futures, CancelSessions,
        CancelTasks, SessionTasks, AfterCancel, LiveSessions, Live,
        FinishStart, Settle, ResetAttempt, TypeOK, LifeTypeOK, WorkTypeOK,
        Tokens, FutureStates, TaskStates, SocketTypeOK, LockByState,
        Adoptable, LedgerByState, Unlocked, LedgerExact, DrainRunner,
        FreshStart, ListenerOwned, ThreadsWatched, Handler, Decode
  <2> QED BY <2>1, <2>2, <2>3, <2>4, <2>5, <2>6, <2>7 DEF IInv
<1> QED BY <1>1, <1>2, <1>3, <1>4, <1>5, <1>6, <1>7 DEF DrainNext

\* FutureNext keeps the inductive invariant.
LEMMA FutureNextInv == ASSUME IInv, FutureNext PROVE IInv'
<1> TypeOK /\ TypeOK'
  BY FutureNextTypes DEF IInv
<1>1. CASE ListenerRefuse
  BY <1>1 DEF IInv, ListenerRefuse, lifeVars, workVars, sockVars, TypeOK,
      LifeTypeOK, WorkTypeOK, SessionTasks, Tokens, Futures, FutureStates,
      TaskStates, SocketTypeOK, LockByState, Adoptable, LedgerByState,
      Unlocked, LedgerExact, DrainRunner, FreshStart, ListenerOwned,
      ThreadsWatched, Handler, Decode
<1>2. CASE ListenerClosed
  BY <1>2 DEF IInv, ListenerClosed, Live, Handler, lifeVars, workVars,
      sockVars, TypeOK, LifeTypeOK, WorkTypeOK, SessionTasks, Tokens, Futures,
      FutureStates, TaskStates, SocketTypeOK, LockByState, Adoptable,
      LedgerByState, Unlocked, LedgerExact, DrainRunner, FreshStart,
      ListenerOwned, ThreadsWatched, Decode
<1>3. CASE CloseEnds
  BY <1>3 DEF IInv, CloseEnds, lifeVars, workVars, sockVars, TypeOK,
      LifeTypeOK, WorkTypeOK, SessionTasks, Tokens, Futures, FutureStates,
      TaskStates, SocketTypeOK, LockByState, Adoptable, LedgerByState,
      Unlocked, LedgerExact, DrainRunner, FreshStart, ListenerOwned,
      ThreadsWatched, Handler, Decode
<1>4. CASE IdleDone
  BY <1>4 DEF IInv, IdleDone, lifeVars, workVars, sockVars, TypeOK,
      LifeTypeOK, WorkTypeOK, SessionTasks, Tokens, Futures, FutureStates,
      TaskStates, SocketTypeOK, LockByState, Adoptable, LedgerByState,
      Unlocked, LedgerExact, DrainRunner, FreshStart, ListenerOwned,
      ThreadsWatched, Handler, Decode
<1>5. CASE Adopt
  <2>1. LockByState'
    BY <1>5 DEF IInv, Adopt, Adoptable, lifeVars, sockVars, TypeOK,
        LifeTypeOK, WorkTypeOK, SessionTasks, Tokens, Futures, FutureStates,
        TaskStates, SocketTypeOK, LockByState, LedgerByState, Unlocked,
        LedgerExact, DrainRunner, FreshStart, ListenerOwned, ThreadsWatched,
        Handler, Decode
  <2>2. LedgerByState'
    BY <1>5 DEF IInv, Adopt, Adoptable, lifeVars, sockVars, TypeOK,
        LifeTypeOK, WorkTypeOK, SessionTasks, Tokens, Futures, FutureStates,
        TaskStates, SocketTypeOK, LockByState, LedgerByState, Unlocked,
        LedgerExact, DrainRunner, FreshStart, ListenerOwned, ThreadsWatched,
        Handler, Decode
  <2>3. LedgerExact'
    BY <1>5 DEF IInv, Adopt, Adoptable, lifeVars, sockVars, TypeOK,
        LifeTypeOK, WorkTypeOK, SessionTasks, Tokens, Futures, FutureStates,
        TaskStates, SocketTypeOK, LockByState, LedgerByState, Unlocked,
        LedgerExact, DrainRunner, FreshStart, ListenerOwned, ThreadsWatched,
        Handler, Decode
  <2>4. DrainRunner'
    BY <1>5 DEF IInv, Adopt, Adoptable, lifeVars, sockVars, TypeOK,
        LifeTypeOK, WorkTypeOK, SessionTasks, Tokens, Futures, FutureStates,
        TaskStates, SocketTypeOK, LockByState, LedgerByState, Unlocked,
        LedgerExact, DrainRunner, FreshStart, ListenerOwned, ThreadsWatched,
        Handler, Decode
  <2>5. FreshStart'
    BY <1>5 DEF IInv, Adopt, Adoptable, lifeVars, sockVars, TypeOK,
        LifeTypeOK, WorkTypeOK, SessionTasks, Tokens, Futures, FutureStates,
        TaskStates, SocketTypeOK, LockByState, LedgerByState, Unlocked,
        LedgerExact, DrainRunner, FreshStart, ListenerOwned, ThreadsWatched,
        Handler, Decode
  <2>6. ListenerOwned'
    BY <1>5 DEF IInv, Adopt, Adoptable, lifeVars, sockVars, TypeOK,
        LifeTypeOK, WorkTypeOK, SessionTasks, Tokens, Futures, FutureStates,
        TaskStates, SocketTypeOK, LockByState, LedgerByState, Unlocked,
        LedgerExact, DrainRunner, FreshStart, ListenerOwned, ThreadsWatched,
        Handler, Decode
  <2>7. ThreadsWatched'
    BY <1>5 DEF IInv, Adopt, Adoptable, lifeVars, sockVars, TypeOK,
        LifeTypeOK, WorkTypeOK, SessionTasks, Tokens, Futures, FutureStates,
        TaskStates, SocketTypeOK, LockByState, LedgerByState, Unlocked,
        LedgerExact, DrainRunner, FreshStart, ListenerOwned, ThreadsWatched,
        Handler, Decode
  <2> QED BY <2>1, <2>2, <2>3, <2>4, <2>5, <2>6, <2>7 DEF IInv
<1>6. CASE AdoptedEnds
  BY <1>6 DEF IInv, AdoptedEnds, lifeVars, workVars, sockVars, TypeOK,
      LifeTypeOK, WorkTypeOK, SessionTasks, Tokens, Futures, FutureStates,
      TaskStates, SocketTypeOK, LockByState, Adoptable, LedgerByState,
      Unlocked, LedgerExact, DrainRunner, FreshStart, ListenerOwned,
      ThreadsWatched, Handler, Decode
<1>7. ASSUME NEW k \in Futures, Retire(k) PROVE IInv'
  BY <1>7 DEF IInv, Retire, Settle, sockVars, TypeOK, LifeTypeOK, WorkTypeOK,
      SessionTasks, Tokens, Futures, FutureStates, TaskStates, SocketTypeOK,
      LockByState, Adoptable, LedgerByState, Unlocked, LedgerExact,
      DrainRunner, FreshStart, ListenerOwned, ThreadsWatched, Handler, Decode
<1>8. CASE RetireOrphan
  BY <1>8 DEF IInv, RetireOrphan, lifeVars, TypeOK, LifeTypeOK, WorkTypeOK,
      SessionTasks, Tokens, Futures, FutureStates, TaskStates, SocketTypeOK,
      LockByState, Adoptable, LedgerByState, Unlocked, LedgerExact,
      DrainRunner, FreshStart, ListenerOwned, ThreadsWatched, Handler, Decode
<1>9. CASE RetireFailedOrphan
  BY <1>9 DEF IInv, RetireFailedOrphan, Settle, sockVars, TypeOK, LifeTypeOK,
      WorkTypeOK, SessionTasks, Tokens, Futures, FutureStates, TaskStates,
      SocketTypeOK, LockByState, Adoptable, LedgerByState, Unlocked,
      LedgerExact, DrainRunner, FreshStart, ListenerOwned, ThreadsWatched,
      Handler, Decode
<1>10. CASE OrphanCleanupFails
  BY <1>10 DEF IInv, OrphanCleanupFails, lifeVars, workVars, TypeOK,
      LifeTypeOK, WorkTypeOK, SessionTasks, Tokens, Futures, FutureStates,
      TaskStates, SocketTypeOK, LockByState, Adoptable, LedgerByState,
      Unlocked, LedgerExact, DrainRunner, FreshStart, ListenerOwned,
      ThreadsWatched, Handler, Decode
<1>11. ASSUME NEW t \in SessionTasks, RetireTask(t) PROVE IInv'
  BY <1>11 DEF IInv, RetireTask, Settle, sockVars, TypeOK, LifeTypeOK,
      WorkTypeOK, SessionTasks, Tokens, Futures, FutureStates, TaskStates,
      SocketTypeOK, LockByState, Adoptable, LedgerByState, Unlocked,
      LedgerExact, DrainRunner, FreshStart, ListenerOwned, ThreadsWatched,
      Handler, Decode
<1> QED BY <1>1, <1>2, <1>3, <1>4, <1>5, <1>6, <1>7, <1>8, <1>9, <1>10, <1>11
       DEF FutureNext

\* SessionNext keeps the inductive invariant.
LEMMA SessionNextInv == ASSUME IInv, SessionNext PROVE IInv'
<1> TypeOK /\ TypeOK'
  BY SessionNextTypes DEF IInv
<1>1. ASSUME NEW s \in Sessions, Accept(s) PROVE IInv'
  BY <1>1 DEF IInv, Accept, Handler, Decode, lifeVars, sockVars, TypeOK,
      LifeTypeOK, WorkTypeOK, SessionTasks, Tokens, Futures, FutureStates,
      TaskStates, SocketTypeOK, LockByState, Adoptable, LedgerByState,
      Unlocked, LedgerExact, DrainRunner, FreshStart, ListenerOwned,
      ThreadsWatched
<1>2. ASSUME NEW s \in Sessions, Commit(s) PROVE IInv'
  BY <1>2 DEF IInv, Commit, Handler, Decode, lifeVars, sockVars, TypeOK,
      LifeTypeOK, WorkTypeOK, SessionTasks, Tokens, Futures, FutureStates,
      TaskStates, SocketTypeOK, LockByState, Adoptable, LedgerByState,
      Unlocked, LedgerExact, DrainRunner, FreshStart, ListenerOwned,
      ThreadsWatched
<1>3. ASSUME NEW s \in Sessions, DecodeLaunch(s) PROVE IInv'
  <2>1. LockByState'
    BY <1>3 DEF IInv, DecodeLaunch, Decode, lifeVars, workVars, sockVars,
        TypeOK, LifeTypeOK, WorkTypeOK, SessionTasks, Tokens, Futures,
        FutureStates, TaskStates, SocketTypeOK, LockByState, Adoptable,
        LedgerByState, Unlocked, LedgerExact, DrainRunner, FreshStart,
        ListenerOwned, ThreadsWatched, Handler
  <2>2. LedgerByState'
    BY <1>3 DEF IInv, DecodeLaunch, Decode, lifeVars, workVars, sockVars,
        TypeOK, LifeTypeOK, WorkTypeOK, SessionTasks, Tokens, Futures,
        FutureStates, TaskStates, SocketTypeOK, LockByState, Adoptable,
        LedgerByState, Unlocked, LedgerExact, DrainRunner, FreshStart,
        ListenerOwned, ThreadsWatched, Handler
  <2>3. LedgerExact'
    BY <1>3 DEF IInv, DecodeLaunch, Decode, lifeVars, workVars, sockVars,
        TypeOK, LifeTypeOK, WorkTypeOK, SessionTasks, Tokens, Futures,
        FutureStates, TaskStates, SocketTypeOK, LockByState, Adoptable,
        LedgerByState, Unlocked, LedgerExact, DrainRunner, FreshStart,
        ListenerOwned, ThreadsWatched, Handler
  <2>4. DrainRunner'
    BY <1>3 DEF IInv, DecodeLaunch, Decode, lifeVars, workVars, sockVars,
        TypeOK, LifeTypeOK, WorkTypeOK, SessionTasks, Tokens, Futures,
        FutureStates, TaskStates, SocketTypeOK, LockByState, Adoptable,
        LedgerByState, Unlocked, LedgerExact, DrainRunner, FreshStart,
        ListenerOwned, ThreadsWatched, Handler
  <2>5. FreshStart'
    BY <1>3 DEF IInv, DecodeLaunch, Decode, lifeVars, workVars, sockVars,
        TypeOK, LifeTypeOK, WorkTypeOK, SessionTasks, Tokens, Futures,
        FutureStates, TaskStates, SocketTypeOK, LockByState, Adoptable,
        LedgerByState, Unlocked, LedgerExact, DrainRunner, FreshStart,
        ListenerOwned, ThreadsWatched, Handler
  <2>6. ListenerOwned'
    BY <1>3 DEF IInv, DecodeLaunch, Decode, lifeVars, workVars, sockVars,
        TypeOK, LifeTypeOK, WorkTypeOK, SessionTasks, Tokens, Futures,
        FutureStates, TaskStates, SocketTypeOK, LockByState, Adoptable,
        LedgerByState, Unlocked, LedgerExact, DrainRunner, FreshStart,
        ListenerOwned, ThreadsWatched, Handler
  <2>7. ThreadsWatched'
    <3>1. ThreadsWatched /\ task[Decode(s)] = "queued"
      BY <1>3 DEF IInv, DecodeLaunch
    <3>2. ~(start = "idle" /\ drain = "off" /\ state # "running")
      BY <1>3, <3>1 DEF ThreadsWatched
    <3>3. QED BY <1>3, <3>2 DEF DecodeLaunch, ThreadsWatched, lifeVars
  <2> QED BY <2>1, <2>2, <2>3, <2>4, <2>5, <2>6, <2>7 DEF IInv
<1>4. ASSUME NEW s \in Sessions, ThreadEnds(s) PROVE IInv'
  BY <1>4 DEF IInv, ThreadEnds, lifeVars, workVars, sockVars, TypeOK,
      LifeTypeOK, WorkTypeOK, SessionTasks, Tokens, Futures, FutureStates,
      TaskStates, SocketTypeOK, LockByState, Adoptable, LedgerByState,
      Unlocked, LedgerExact, DrainRunner, FreshStart, ListenerOwned,
      ThreadsWatched, Handler, Decode
<1>5. ASSUME NEW s \in Sessions, DecodeEnds(s) PROVE IInv'
  BY <1>5 DEF IInv, DecodeEnds, Decode, lifeVars, workVars, sockVars, TypeOK,
      LifeTypeOK, WorkTypeOK, SessionTasks, Tokens, Futures, FutureStates,
      TaskStates, SocketTypeOK, LockByState, Adoptable, LedgerByState,
      Unlocked, LedgerExact, DrainRunner, FreshStart, ListenerOwned,
      ThreadsWatched, Handler
<1>6. ASSUME NEW s \in Sessions, ClientLeaves(s) PROVE IInv'
  BY <1>6 DEF IInv, ClientLeaves, Handler, Live, Decode, lifeVars, workVars,
      sockVars, TypeOK, LifeTypeOK, WorkTypeOK, SessionTasks, Tokens, Futures,
      FutureStates, TaskStates, SocketTypeOK, LockByState, Adoptable,
      LedgerByState, Unlocked, LedgerExact, DrainRunner, FreshStart,
      ListenerOwned, ThreadsWatched
<1>7. ASSUME NEW s \in Sessions, HandlerStops(s) PROVE IInv'
  <2>1. LockByState'
    BY <1>7 DEF IInv, HandlerStops, Handler, Live, Decode, lifeVars, workVars,
        sockVars, TypeOK, LifeTypeOK, WorkTypeOK, SessionTasks, Tokens,
        Futures, FutureStates, TaskStates, SocketTypeOK, LockByState,
        Adoptable, LedgerByState, Unlocked, LedgerExact, DrainRunner,
        FreshStart, ListenerOwned, ThreadsWatched
  <2>2. LedgerByState'
    BY <1>7 DEF IInv, HandlerStops, Handler, Live, Decode, lifeVars, workVars,
        sockVars, TypeOK, LifeTypeOK, WorkTypeOK, SessionTasks, Tokens,
        Futures, FutureStates, TaskStates, SocketTypeOK, LockByState,
        Adoptable, LedgerByState, Unlocked, LedgerExact, DrainRunner,
        FreshStart, ListenerOwned, ThreadsWatched
  <2>3. LedgerExact'
    BY <1>7 DEF IInv, HandlerStops, Handler, Live, Decode, lifeVars, workVars,
        sockVars, TypeOK, LifeTypeOK, WorkTypeOK, SessionTasks, Tokens,
        Futures, FutureStates, TaskStates, SocketTypeOK, LockByState,
        Adoptable, LedgerByState, Unlocked, LedgerExact, DrainRunner,
        FreshStart, ListenerOwned, ThreadsWatched
  <2>4. DrainRunner'
    BY <1>7 DEF IInv, HandlerStops, Handler, Live, Decode, lifeVars, workVars,
        sockVars, TypeOK, LifeTypeOK, WorkTypeOK, SessionTasks, Tokens,
        Futures, FutureStates, TaskStates, SocketTypeOK, LockByState,
        Adoptable, LedgerByState, Unlocked, LedgerExact, DrainRunner,
        FreshStart, ListenerOwned, ThreadsWatched
  <2>5. FreshStart'
    BY <1>7 DEF IInv, HandlerStops, Handler, Live, Decode, lifeVars, workVars,
        sockVars, TypeOK, LifeTypeOK, WorkTypeOK, SessionTasks, Tokens,
        Futures, FutureStates, TaskStates, SocketTypeOK, LockByState,
        Adoptable, LedgerByState, Unlocked, LedgerExact, DrainRunner,
        FreshStart, ListenerOwned, ThreadsWatched
  <2>6. ListenerOwned'
    BY <1>7 DEF IInv, HandlerStops, Handler, Live, Decode, lifeVars, workVars,
        sockVars, TypeOK, LifeTypeOK, WorkTypeOK, SessionTasks, Tokens,
        Futures, FutureStates, TaskStates, SocketTypeOK, LockByState,
        Adoptable, LedgerByState, Unlocked, LedgerExact, DrainRunner,
        FreshStart, ListenerOwned, ThreadsWatched
  <2>7. ThreadsWatched'
    <3>1. \A x \in Sessions :
            /\ task'[Handler(x)] \in {"run", "closing"} => task[Handler(x)] = task'[Handler(x)]
            /\ task'[Decode(x)] \in {"queued", "run"} => task[Decode(x)] = task'[Decode(x)]
      BY <1>7 DEF HandlerStops, TypeOK, WorkTypeOK, SessionTasks, Handler, Decode
    <3>2. QED BY <1>7, <3>1 DEF IInv, HandlerStops, ThreadsWatched, lifeVars
  <2> QED BY <2>1, <2>2, <2>3, <2>4, <2>5, <2>6, <2>7 DEF IInv
<1>8. ASSUME NEW s \in Sessions, HandlerEnds(s) PROVE IInv'
  BY <1>8 DEF IInv, HandlerEnds, Handler, Live, Decode, lifeVars, workVars,
      sockVars, TypeOK, LifeTypeOK, WorkTypeOK, SessionTasks, Tokens, Futures,
      FutureStates, TaskStates, SocketTypeOK, LockByState, Adoptable,
      LedgerByState, Unlocked, LedgerExact, DrainRunner, FreshStart,
      ListenerOwned, ThreadsWatched
<1> QED BY <1>1, <1>2, <1>3, <1>4, <1>5, <1>6, <1>7, <1>8 DEF SessionNext

\* ShutdownNext keeps the inductive invariant.
LEMMA ShutdownNextInv == ASSUME IInv, ShutdownNext PROVE IInv'
<1> TypeOK /\ TypeOK'
  BY ShutdownNextTypes DEF IInv
<1>1. CASE ShutdownNew
  <2>1. LockByState'
    BY <1>1 DEF IInv, ShutdownNew, workVars, sockVars, TypeOK, LifeTypeOK,
        WorkTypeOK, SessionTasks, Tokens, Futures, FutureStates, TaskStates,
        SocketTypeOK, LockByState, Adoptable, LedgerByState, Unlocked,
        LedgerExact, DrainRunner, FreshStart, ListenerOwned, ThreadsWatched,
        Handler, Decode
  <2>2. LedgerByState'
    BY <1>1 DEF IInv, ShutdownNew, workVars, sockVars, TypeOK, LifeTypeOK,
        WorkTypeOK, SessionTasks, Tokens, Futures, FutureStates, TaskStates,
        SocketTypeOK, LockByState, Adoptable, LedgerByState, Unlocked,
        LedgerExact, DrainRunner, FreshStart, ListenerOwned, ThreadsWatched,
        Handler, Decode
  <2>3. LedgerExact'
    BY <1>1 DEF IInv, ShutdownNew, workVars, sockVars, TypeOK, LifeTypeOK,
        WorkTypeOK, SessionTasks, Tokens, Futures, FutureStates, TaskStates,
        SocketTypeOK, LockByState, Adoptable, LedgerByState, Unlocked,
        LedgerExact, DrainRunner, FreshStart, ListenerOwned, ThreadsWatched,
        Handler, Decode
  <2>4. DrainRunner'
    BY <1>1 DEF IInv, ShutdownNew, workVars, sockVars, TypeOK, LifeTypeOK,
        WorkTypeOK, SessionTasks, Tokens, Futures, FutureStates, TaskStates,
        SocketTypeOK, LockByState, Adoptable, LedgerByState, Unlocked,
        LedgerExact, DrainRunner, FreshStart, ListenerOwned, ThreadsWatched,
        Handler, Decode
  <2>5. FreshStart'
    BY <1>1 DEF IInv, ShutdownNew, workVars, sockVars, TypeOK, LifeTypeOK,
        WorkTypeOK, SessionTasks, Tokens, Futures, FutureStates, TaskStates,
        SocketTypeOK, LockByState, Adoptable, LedgerByState, Unlocked,
        LedgerExact, DrainRunner, FreshStart, ListenerOwned, ThreadsWatched,
        Handler, Decode
  <2>6. ListenerOwned'
    BY <1>1 DEF IInv, ShutdownNew, workVars, sockVars, TypeOK, LifeTypeOK,
        WorkTypeOK, SessionTasks, Tokens, Futures, FutureStates, TaskStates,
        SocketTypeOK, LockByState, Adoptable, LedgerByState, Unlocked,
        LedgerExact, DrainRunner, FreshStart, ListenerOwned, ThreadsWatched,
        Handler, Decode
  <2>7. ThreadsWatched'
    BY <1>1 DEF IInv, ShutdownNew, workVars, sockVars, TypeOK, LifeTypeOK,
        WorkTypeOK, SessionTasks, Tokens, Futures, FutureStates, TaskStates,
        SocketTypeOK, LockByState, Adoptable, LedgerByState, Unlocked,
        LedgerExact, DrainRunner, FreshStart, ListenerOwned, ThreadsWatched,
        Handler, Decode
  <2> QED BY <2>1, <2>2, <2>3, <2>4, <2>5, <2>6, <2>7 DEF IInv
<1>2. CASE ShutdownStarting
  <2>1. LockByState'
    BY <1>2 DEF IInv, ShutdownStarting, workVars, sockVars, TypeOK,
        LifeTypeOK, WorkTypeOK, SessionTasks, Tokens, Futures, FutureStates,
        TaskStates, SocketTypeOK, LockByState, Adoptable, LedgerByState,
        Unlocked, LedgerExact, DrainRunner, FreshStart, ListenerOwned,
        ThreadsWatched, Handler, Decode
  <2>2. LedgerByState'
    BY <1>2 DEF IInv, ShutdownStarting, workVars, sockVars, TypeOK,
        LifeTypeOK, WorkTypeOK, SessionTasks, Tokens, Futures, FutureStates,
        TaskStates, SocketTypeOK, LockByState, Adoptable, LedgerByState,
        Unlocked, LedgerExact, DrainRunner, FreshStart, ListenerOwned,
        ThreadsWatched, Handler, Decode
  <2>3. LedgerExact'
    BY <1>2 DEF IInv, ShutdownStarting, workVars, sockVars, TypeOK,
        LifeTypeOK, WorkTypeOK, SessionTasks, Tokens, Futures, FutureStates,
        TaskStates, SocketTypeOK, LockByState, Adoptable, LedgerByState,
        Unlocked, LedgerExact, DrainRunner, FreshStart, ListenerOwned,
        ThreadsWatched, Handler, Decode
  <2>4. DrainRunner'
    BY <1>2 DEF IInv, ShutdownStarting, workVars, sockVars, TypeOK,
        LifeTypeOK, WorkTypeOK, SessionTasks, Tokens, Futures, FutureStates,
        TaskStates, SocketTypeOK, LockByState, Adoptable, LedgerByState,
        Unlocked, LedgerExact, DrainRunner, FreshStart, ListenerOwned,
        ThreadsWatched, Handler, Decode
  <2>5. FreshStart'
    BY <1>2 DEF IInv, ShutdownStarting, workVars, sockVars, TypeOK,
        LifeTypeOK, WorkTypeOK, SessionTasks, Tokens, Futures, FutureStates,
        TaskStates, SocketTypeOK, LockByState, Adoptable, LedgerByState,
        Unlocked, LedgerExact, DrainRunner, FreshStart, ListenerOwned,
        ThreadsWatched, Handler, Decode
  <2>6. ListenerOwned'
    BY <1>2 DEF IInv, ShutdownStarting, workVars, sockVars, TypeOK,
        LifeTypeOK, WorkTypeOK, SessionTasks, Tokens, Futures, FutureStates,
        TaskStates, SocketTypeOK, LockByState, Adoptable, LedgerByState,
        Unlocked, LedgerExact, DrainRunner, FreshStart, ListenerOwned,
        ThreadsWatched, Handler, Decode
  <2>7. ThreadsWatched'
    BY <1>2 DEF IInv, ShutdownStarting, workVars, sockVars, TypeOK,
        LifeTypeOK, WorkTypeOK, SessionTasks, Tokens, Futures, FutureStates,
        TaskStates, SocketTypeOK, LockByState, Adoptable, LedgerByState,
        Unlocked, LedgerExact, DrainRunner, FreshStart, ListenerOwned,
        ThreadsWatched, Handler, Decode
  <2> QED BY <2>1, <2>2, <2>3, <2>4, <2>5, <2>6, <2>7 DEF IInv
<1>3. CASE ShutdownRunning
  <2>1. LockByState'
    BY <1>3 DEF IInv, ShutdownRunning, sockVars, TypeOK, LifeTypeOK,
        WorkTypeOK, SessionTasks, Tokens, Futures, FutureStates, TaskStates,
        SocketTypeOK, LockByState, Adoptable, LedgerByState, Unlocked,
        LedgerExact, DrainRunner, FreshStart, ListenerOwned, ThreadsWatched,
        Handler, Decode
  <2>2. LedgerByState'
    BY <1>3 DEF IInv, ShutdownRunning, sockVars, TypeOK, LifeTypeOK,
        WorkTypeOK, SessionTasks, Tokens, Futures, FutureStates, TaskStates,
        SocketTypeOK, LockByState, Adoptable, LedgerByState, Unlocked,
        LedgerExact, DrainRunner, FreshStart, ListenerOwned, ThreadsWatched,
        Handler, Decode
  <2>3. LedgerExact'
    BY <1>3 DEF IInv, ShutdownRunning, sockVars, TypeOK, LifeTypeOK,
        WorkTypeOK, SessionTasks, Tokens, Futures, FutureStates, TaskStates,
        SocketTypeOK, LockByState, Adoptable, LedgerByState, Unlocked,
        LedgerExact, DrainRunner, FreshStart, ListenerOwned, ThreadsWatched,
        Handler, Decode
  <2>4. DrainRunner'
    BY <1>3 DEF IInv, ShutdownRunning, sockVars, TypeOK, LifeTypeOK,
        WorkTypeOK, SessionTasks, Tokens, Futures, FutureStates, TaskStates,
        SocketTypeOK, LockByState, Adoptable, LedgerByState, Unlocked,
        LedgerExact, DrainRunner, FreshStart, ListenerOwned, ThreadsWatched,
        Handler, Decode
  <2>5. FreshStart'
    BY <1>3 DEF IInv, ShutdownRunning, sockVars, TypeOK, LifeTypeOK,
        WorkTypeOK, SessionTasks, Tokens, Futures, FutureStates, TaskStates,
        SocketTypeOK, LockByState, Adoptable, LedgerByState, Unlocked,
        LedgerExact, DrainRunner, FreshStart, ListenerOwned, ThreadsWatched,
        Handler, Decode
  <2>6. ListenerOwned'
    BY <1>3 DEF IInv, ShutdownRunning, sockVars, TypeOK, LifeTypeOK,
        WorkTypeOK, SessionTasks, Tokens, Futures, FutureStates, TaskStates,
        SocketTypeOK, LockByState, Adoptable, LedgerByState, Unlocked,
        LedgerExact, DrainRunner, FreshStart, ListenerOwned, ThreadsWatched,
        Handler, Decode
  <2>7. ThreadsWatched'
    BY <1>3 DEF IInv, ShutdownRunning, sockVars, TypeOK, LifeTypeOK,
        WorkTypeOK, SessionTasks, Tokens, Futures, FutureStates, TaskStates,
        SocketTypeOK, LockByState, Adoptable, LedgerByState, Unlocked,
        LedgerExact, DrainRunner, FreshStart, ListenerOwned, ThreadsWatched,
        Handler, Decode
  <2> QED BY <2>1, <2>2, <2>3, <2>4, <2>5, <2>6, <2>7 DEF IInv
<1>4. CASE ShutdownAgain
  BY <1>4 DEF IInv, ShutdownAgain, workVars, sockVars, TypeOK, LifeTypeOK,
      WorkTypeOK, SessionTasks, Tokens, Futures, FutureStates, TaskStates,
      SocketTypeOK, LockByState, Adoptable, LedgerByState, Unlocked,
      LedgerExact, DrainRunner, FreshStart, ListenerOwned, ThreadsWatched,
      Handler, Decode
<1>5. CASE CancelShutdown
  <2>1. LockByState'
    BY <1>5 DEF IInv, CancelShutdown, CancelSessions, CancelTasks,
        SessionTasks, AfterCancel, LiveSessions, Live, workVars, sockVars,
        TypeOK, LifeTypeOK, WorkTypeOK, Tokens, Futures, FutureStates,
        TaskStates, SocketTypeOK, LockByState, Adoptable, LedgerByState,
        Unlocked, LedgerExact, DrainRunner, FreshStart, ListenerOwned,
        ThreadsWatched, Handler, Decode
  <2>2. LedgerByState'
    BY <1>5 DEF IInv, CancelShutdown, CancelSessions, CancelTasks,
        SessionTasks, AfterCancel, LiveSessions, Live, workVars, sockVars,
        TypeOK, LifeTypeOK, WorkTypeOK, Tokens, Futures, FutureStates,
        TaskStates, SocketTypeOK, LockByState, Adoptable, LedgerByState,
        Unlocked, LedgerExact, DrainRunner, FreshStart, ListenerOwned,
        ThreadsWatched, Handler, Decode
  <2>3. LedgerExact'
    BY <1>5 DEF IInv, CancelShutdown, CancelSessions, CancelTasks,
        SessionTasks, AfterCancel, LiveSessions, Live, workVars, sockVars,
        TypeOK, LifeTypeOK, WorkTypeOK, Tokens, Futures, FutureStates,
        TaskStates, SocketTypeOK, LockByState, Adoptable, LedgerByState,
        Unlocked, LedgerExact, DrainRunner, FreshStart, ListenerOwned,
        ThreadsWatched, Handler, Decode
  <2>4. DrainRunner'
    BY <1>5 DEF IInv, CancelShutdown, CancelSessions, CancelTasks,
        SessionTasks, AfterCancel, LiveSessions, Live, workVars, sockVars,
        TypeOK, LifeTypeOK, WorkTypeOK, Tokens, Futures, FutureStates,
        TaskStates, SocketTypeOK, LockByState, Adoptable, LedgerByState,
        Unlocked, LedgerExact, DrainRunner, FreshStart, ListenerOwned,
        ThreadsWatched, Handler, Decode
  <2>5. FreshStart'
    BY <1>5 DEF IInv, CancelShutdown, CancelSessions, CancelTasks,
        SessionTasks, AfterCancel, LiveSessions, Live, workVars, sockVars,
        TypeOK, LifeTypeOK, WorkTypeOK, Tokens, Futures, FutureStates,
        TaskStates, SocketTypeOK, LockByState, Adoptable, LedgerByState,
        Unlocked, LedgerExact, DrainRunner, FreshStart, ListenerOwned,
        ThreadsWatched, Handler, Decode
  <2>6. ListenerOwned'
    BY <1>5 DEF IInv, CancelShutdown, CancelSessions, CancelTasks,
        SessionTasks, AfterCancel, LiveSessions, Live, workVars, sockVars,
        TypeOK, LifeTypeOK, WorkTypeOK, Tokens, Futures, FutureStates,
        TaskStates, SocketTypeOK, LockByState, Adoptable, LedgerByState,
        Unlocked, LedgerExact, DrainRunner, FreshStart, ListenerOwned,
        ThreadsWatched, Handler, Decode
  <2>7. ThreadsWatched'
    <3>1. \A x \in Sessions : Handler(x) \in SessionTasks /\ Decode(x) \in SessionTasks
      BY DEF Handler, Decode, SessionTasks
    <3>2. \A t \in SessionTasks :
            task'[t] \in {"run", "closing", "queued"} => task[t] = task'[t]
      BY <1>5 DEF CancelShutdown, CancelSessions, CancelTasks, AfterCancel
    <3>3. QED BY <1>5, <3>1, <3>2 DEF IInv, CancelShutdown, ThreadsWatched
  <2> QED BY <2>1, <2>2, <2>3, <2>4, <2>5, <2>6, <2>7 DEF IInv
<1> QED BY <1>1, <1>2, <1>3, <1>4, <1>5 DEF ShutdownNext

\* OutsiderReplaces keeps the inductive invariant.
LEMMA OutsiderReplacesInv == ASSUME IInv, OutsiderReplaces PROVE IInv'
  BY OutsiderReplacesTypes DEF IInv, OutsiderReplaces, lifeVars, workVars,
      LockByState, Adoptable, LedgerByState, Unlocked, LedgerExact, Futures,
      SessionTasks, DrainRunner, FreshStart, ListenerOwned, ThreadsWatched,
      Handler, Decode

\* A step that changes nothing keeps it.
LEMMA StutterInv == ASSUME IInv, UNCHANGED vars PROVE IInv'
<1>1. /\ TypeOK' /\ LockByState' /\ LedgerByState' /\ DrainRunner' /\ ListenerOwned'
  BY DEF IInv, vars, TypeOK, LifeTypeOK, WorkTypeOK, SocketTypeOK, LockByState,
         LedgerByState, DrainRunner, ListenerOwned
<1>2. LedgerExact' /\ FreshStart' /\ ThreadsWatched'
  BY DEF IInv, vars, LedgerExact, FreshStart, ThreadsWatched
<1> QED BY <1>1, <1>2 DEF IInv

\* The initial state satisfies the inductive invariant.
LEMMA InitInv == Init => IInv
<1> SUFFICES ASSUME Init PROVE IInv
  OBVIOUS
<1>1. TypeOK
  BY DEF Init, TypeOK, LifeTypeOK, WorkTypeOK, SocketTypeOK, FutureStates, TaskStates
<1>2. LockByState /\ LedgerByState /\ DrainRunner /\ FreshStart /\ ListenerOwned
  BY DEF Init, LockByState, LedgerByState, DrainRunner, FreshStart, ListenerOwned,
         Adoptable, Futures
<1>3. LedgerExact /\ ThreadsWatched
  BY DEF Init, LedgerExact, ThreadsWatched, Handler, Decode, SessionTasks
<1> QED BY <1>1, <1>2, <1>3 DEF IInv

\* Every step keeps the inductive invariant.
LEMMA StepInv == IInv /\ [Next]_vars => IInv'
  BY StartNextInv, DrainNextInv, FutureNextInv, SessionNextInv, ShutdownNextInv,
     OutsiderReplacesInv, StutterInv DEF Next

\* The inductive invariant holds throughout.
THEOREM Invariance == Spec => []IInv
<1>1. Init => IInv
  BY InitInv
<1>2. IInv /\ [Next]_vars => IInv'
  BY StepInv
<1> QED BY <1>1, <1>2, PTL DEF Spec

\* Every variable keeps its type.
THEOREM TypeCorrect == Spec => []TypeOK
<1>1. IInv => TypeOK
  BY DEF IInv
<1> QED BY <1>1, Invariance, PTL

-----------------------------------------------------------------------------
(* The lock. *)

\* Where the lock is free nothing is under way.
LEMMA FreeMeansIdle == IInv => LockCoversWork
<1> SUFFICES ASSUME IInv, ~lock PROVE ~Busy
  BY DEF LockCoversWork
<1>1. state \in Unlocked /\ ledger = {} /\ sessionWork = {}
  BY DEF IInv, LockByState, LedgerByState, Unlocked, Adoptable, TypeOK, LifeTypeOK
<1>2. start = "idle" /\ drain \in {"off", "begin"}
  BY <1>1 DEF IInv, LedgerExact
<1>3. \A k \in Futures : fut[k] = "none"
  BY <1>1 DEF IInv, LedgerExact
<1>4. \A t \in SessionTasks : task[t] = "none"
  BY <1>1 DEF IInv, LedgerExact
<1>5. drain = "off"
  BY <1>1, <1>2, <1>3 DEF IInv, DrainRunner, Futures, Unlocked
<1>6. listener \notin {"bound", "open", "closing", "refusing"}
  BY <1>1, <1>2, <1>3 DEF IInv, ListenerOwned, Futures, Unlocked
<1>7. ~(IdleAware /\ threads # {})
  BY <1>1, <1>2, <1>3, <1>5 DEF IInv, ThreadsWatched, Futures, Unlocked
<1> QED BY <1>2, <1>3, <1>4, <1>5, <1>6, <1>7 DEF Busy, Live

\* The single-server lock covers everything that can still touch the socket or
\* the backend (class docstring, invariants 1 to 3).
THEOREM LockSafety == Spec => []LockCoversWork
  BY Invariance, FreeMeansIdle, PTL

\* Each step takes one of the edges of _TRANSITIONS, or none.
LEMMA StepEdges ==
  ASSUME IInv, Next PROVE state' = state \/ <<state, state'>> \in Transitions
<1> USE DEF Transitions
<1>1. CASE StartNext
  BY <1>1 DEF StartNext, StartCall, BackendStarted, BackendStartedLate,
     BackendStartFails, FinishStart, Settle, BindSocket, BindFails, BindDone,
     StartSucceeds, StartUnwinds, CancelBind, AbandonBind, lifeVars
<1>2. CASE DrainNext
  BY <1>2 DEF DrainNext, DrainBegin, DrainSessionsDone, DrainTimeout,
     DrainGraceOver, DrainListenerOver, DrainBackendOver, DrainCancelled, EndDrain,
     FinishStart, Settle, lifeVars
<1>3. CASE FutureNext
  BY <1>3 DEF FutureNext, ListenerRefuse, ListenerClosed, CloseEnds, IdleDone,
     Adopt, AdoptedEnds, Retire, RetireOrphan, RetireFailedOrphan,
     OrphanCleanupFails, RetireTask, Settle, lifeVars
<1>4. CASE SessionNext
  BY <1>4 DEF SessionNext, Accept, Commit, DecodeLaunch, ThreadEnds, DecodeEnds,
     ClientLeaves, HandlerStops, HandlerEnds, lifeVars
<1>5. CASE ShutdownNext
  BY <1>5 DEF ShutdownNext, ShutdownNew, ShutdownStarting, ShutdownRunning,
     ShutdownAgain, CancelShutdown
<1>6. CASE OutsiderReplaces
  BY <1>6 DEF OutsiderReplaces, lifeVars
<1> QED BY <1>1, <1>2, <1>3, <1>4, <1>5, <1>6 DEF Next

\* A step that ends in "new" or "stopped" leaves an empty ledger.
LEMMA LegalStep ==
  ASSUME IInv, [Next]_vars
  PROVE  state' # state =>
           /\ <<state, state'>> \in Transitions
           /\ state' \in Unlocked => ledger' = {} /\ sessionWork' = {}
<1>1. IInv'
  BY StepInv
<1>2. CASE Next
  BY <1>1, <1>2, StepEdges DEF IInv, LedgerByState
<1>3. CASE UNCHANGED vars
  BY <1>3 DEF vars
<1> QED BY <1>2, <1>3

\* _transition never raises: no illegal edge, no release with work left.
THEOREM TransitionsAreLegal == Spec => LegalTransitions
<1>1. IInv /\ [Next]_vars =>
        [state' # state =>
           /\ <<state, state'>> \in Transitions
           /\ state' \in Unlocked => ledger' = {} /\ sessionWork' = {}]_vars
  BY LegalStep
<1> QED BY <1>1, Invariance, PTL DEF Spec, LegalTransitions

-----------------------------------------------------------------------------
(* Refinement of the contract. *)

\* Every step of the lifecycle is a step of the contract or a stutter.
LEMMA ContractStep ==
  ASSUME IInv, [Next]_vars PROVE [Contract!ContractNext]_(Contract!contractVars)
<1>1. IInv' /\ LockCoversWork /\ LockCoversWork'
  <2>1. IInv'
    BY StepInv
  <2>2. LockCoversWork
    BY FreeMeansIdle
  <2>3. LockCoversWork'
    BY <2>1, FreeMeansIdle, PTL
  <2> QED BY <2>1, <2>2, <2>3
<1>2. /\ lock \in BOOLEAN /\ lock' \in BOOLEAN /\ Busy \in BOOLEAN /\ Busy' \in BOOLEAN
      /\ (lock <=> state \in Adoptable) /\ (lock' <=> state' \in Adoptable)
  BY <1>1 DEF IInv, TypeOK, LifeTypeOK, LockByState, Busy
<1>3. CASE state' = state
  <2>1. lock' = lock
    BY <1>2, <1>3
  <2>2. CASE lock
    BY <1>2, <1>3, <2>1, <2>2 DEF Contract!ContractNext, Contract!Work
  <2>3. CASE ~lock
    <3>1. Busy = FALSE /\ Busy' = FALSE
      BY <1>1, <1>2, <2>1, <2>3 DEF LockCoversWork
    <3>2. QED BY <1>3, <2>1, <3>1 DEF Contract!contractVars
  <2> QED BY <2>2, <2>3
<1>4. CASE state' # state
  <2>1. <<state, state'>> \in Transitions
    BY <1>4, LegalStep
  <2>2. state' \in {"starting", "running"} => Busy'
    BY <1>1 DEF IInv, DrainRunner, Busy
  <2>3. CASE state = "new"
    BY <1>1, <1>2, <2>1, <2>2, <2>3 DEF Transitions, Adoptable, LockCoversWork,
       Contract!ContractNext, Contract!Begin, Contract!Retire
  <2>4. CASE state # "new" /\ state' \in Unlocked
    BY <1>1, <1>2, <2>1, <2>4 DEF Transitions, Adoptable, Unlocked, LockCoversWork,
       Contract!ContractNext, Contract!Release
  <2>5. CASE state # "new" /\ state' \notin Unlocked
    BY <1>2, <2>1, <2>2, <2>5 DEF Transitions, Adoptable, Unlocked,
       Contract!ContractNext, Contract!Serve, Contract!Stop
  <2> QED BY <2>3, <2>4, <2>5
<1> QED BY <1>3, <1>4

\* The lifecycle implements ServerContract, for every value of the constants.
THEOREM Implementation == Spec => ImplementsContract
<1>1. Init => Contract!ContractInit
  <2> SUFFICES ASSUME Init PROVE Contract!ContractInit
    OBVIOUS
  <2>1. ~Busy
    BY InitInv, FreeMeansIdle DEF Init, LockCoversWork
  <2>2. QED BY <2>1 DEF Init, Contract!ContractInit, Busy
<1>2. IInv /\ [Next]_vars => [Contract!ContractNext]_(Contract!contractVars)
  BY ContractStep
<1> QED BY <1>1, <1>2, Invariance, PTL DEF Spec, ImplementsContract, Contract!ContractSpec

-----------------------------------------------------------------------------
(* What a shutdown leaves alone, and what a server leaves behind. *)

\* After a shutdown() the server is on its way down, or down.
ShutdownIsFinal == requested => state \in {"stopping", "stopped"}

\* What the drain waits for is not new, and is over or asked to cancel once the
\* drain has waited for it.
SnapshotExact ==
    /\ \A t \in pending : task[t] # "none"
    /\ drain \in {"grace", "listener", "backend"} =>
         \A t \in pending : task[t] \notin {"queued", "run", "closing"}

\* A started backend is up for a bind, a running server or a drain, which closes
\* it, and its close is a future.
BackendOwned ==
    /\ backend = "up" <=>
         start \in {"bind", "rebind"} \/ state = "running" \/ drain \notin {"off", "backend"}
    /\ backend = "closing" <=> fut["close"] = "run"
    /\ state = "new" \/ start = "backend" => backend = "off"

\* Our socket file is there only while we listen, and its inode is recorded.
SocketOwned ==
    /\ sock = "ours" => listener \in {"bound", "open"}
    /\ server /\ sock = "ours" => bound = "ours"

\* Nobody replaced our socket before its inode was recorded for the last time.
RecordOurs ==
    /\ bound # "other"
    /\ listener \in {"bound", "open"} /\ (orphan \/ start \in {"bind", "rebind"}) =>
         sock = "ours"

\* shutdown() is the only step that asks for one, and no state leads back.
LEMMA ShutdownFinalStep ==
  ASSUME IInv, ShutdownIsFinal, [Next]_vars PROVE ShutdownIsFinal'
<1>1. requested' = requested \/ state' \in {"stopping", "stopped"}
  <2>1. CASE StartNext
    BY <2>1 DEF StartNext, StartCall, BackendStarted, BackendStartedLate,
       BackendStartFails, BindSocket, BindFails, BindDone,
       StartSucceeds, StartUnwinds, CancelBind, AbandonBind, lifeVars
  <2>2. CASE DrainNext
    BY <2>2 DEF DrainNext, DrainBegin, DrainSessionsDone, DrainTimeout,
       DrainGraceOver, DrainListenerOver, DrainBackendOver, DrainCancelled, lifeVars
  <2>3. CASE FutureNext
    BY <2>3 DEF FutureNext, ListenerRefuse, ListenerClosed, CloseEnds, IdleDone,
       Adopt, AdoptedEnds, Retire, RetireOrphan, RetireFailedOrphan,
       OrphanCleanupFails, RetireTask, lifeVars
  <2>4. CASE SessionNext
    BY <2>4 DEF SessionNext, Accept, Commit, DecodeLaunch, ThreadEnds, DecodeEnds,
       ClientLeaves, HandlerStops, HandlerEnds, lifeVars
  <2>5. CASE ShutdownNext
    BY <2>5 DEF ShutdownNext, ShutdownNew, ShutdownStarting, ShutdownRunning,
       ShutdownAgain, CancelShutdown
  <2>6. CASE OutsiderReplaces \/ UNCHANGED vars
    BY <2>6 DEF OutsiderReplaces, lifeVars, vars
  <2> QED BY <2>1, <2>2, <2>3, <2>4, <2>5, <2>6 DEF Next
<1>2. state' = state \/ <<state, state'>> \in Transitions
  BY LegalStep
<1>3. CASE requested' = requested
  BY <1>2, <1>3 DEF ShutdownIsFinal, Transitions
<1>4. CASE state' \in {"stopping", "stopped"}
  BY <1>4 DEF ShutdownIsFinal
<1> QED BY <1>1, <1>3, <1>4

\* Only a start that no shutdown() has met creates a bind.
LEMMA BindStep ==
  ASSUME IInv, ShutdownIsFinal, [Next]_vars, requested, fut["bind"] = "none"
  PROVE  fut'["bind"] = "none"
<1> state # "starting"
  BY DEF ShutdownIsFinal
<1> fut \in [Futures -> FutureStates] /\ "bind" \in Futures
  BY DEF IInv, TypeOK, WorkTypeOK, Futures
<1>1. CASE StartNext
  BY <1>1 DEF StartNext, StartCall, BackendStarted, BackendStartedLate, BeginDrain,
     BackendStartFails, BindSocket, BindFails, BindDone,
     StartSucceeds, StartUnwinds, CancelBind, AbandonBind
<1>2. CASE DrainNext
  BY <1>2 DEF DrainNext, DrainBegin, BeginDrain, DrainSessionsDone, DrainTimeout,
     DrainGraceOver, DrainListenerOver, DrainBackendOver, DrainCancelled,
     AfterSessions, StartBackendClose, EndDrain
<1>3. CASE FutureNext
  BY <1>3 DEF FutureNext, ListenerRefuse, ListenerClosed, CloseEnds, IdleDone,
     Adopt, AdoptedEnds, Retire, RetireOrphan, RetireFailedOrphan,
     OrphanCleanupFails, RetireTask
<1>4. CASE SessionNext
  BY <1>4 DEF SessionNext, Accept, Commit, DecodeLaunch, ThreadEnds, DecodeEnds,
     ClientLeaves, HandlerStops, HandlerEnds
<1>5. CASE ShutdownNext
  BY <1>5 DEF ShutdownNext, ShutdownNew, ShutdownStarting, ShutdownRunning,
     ShutdownAgain, CancelShutdown
<1>6. CASE OutsiderReplaces \/ UNCHANGED vars
  BY <1>6 DEF OutsiderReplaces, vars
<1> QED BY <1>1, <1>2, <1>3, <1>4, <1>5, <1>6 DEF Next

\* A shutdown() that finds no bind begun is never followed by one.
THEOREM NoLateBind == Spec => NoBindAfterShutdown
<1>1. Init => ShutdownIsFinal
  BY DEF Init, ShutdownIsFinal
<1>2. IInv /\ ShutdownIsFinal /\ [Next]_vars => ShutdownIsFinal'
  BY ShutdownFinalStep
<1>3. IInv /\ ShutdownIsFinal /\ [Next]_vars =>
        [requested /\ fut["bind"] = "none" => fut'["bind"] = "none"]_vars
  BY BindStep
<1> QED BY <1>1, <1>2, <1>3, Invariance, PTL DEF Spec, NoBindAfterShutdown

\* The drain's snapshot, as BeginDrain takes it, holds tasks that are under way.
LEMMA SnapshotTaken ==
  ASSUME NEW work, NEW f, NEW srv, NEW inode, BeginDrain(work, f, srv, inode), task' = task
  PROVE  SnapshotExact'
<1>1. pending' = LiveSessions
  BY DEF BeginDrain
<1>2. drain' \in {"grace", "listener", "backend"} => LiveSessions = {}
  BY DEF BeginDrain
<1> QED BY <1>1, <1>2 DEF SnapshotExact, LiveSessions, Live

\* The tasks of the drain's snapshot stay asked.
LEMMA SnapshotStep ==
  ASSUME IInv, SnapshotExact, [Next]_vars PROVE SnapshotExact'
<1> pending \subseteq SessionTasks /\ task \in [SessionTasks -> TaskStates]
  BY DEF IInv, TypeOK, WorkTypeOK
<1> USE DEF SnapshotExact, lifeVars, workVars, sockVars
<1>1. CASE StartNext
  <2>1. CASE StartCall
    BY <2>1 DEF StartCall
  <2>2. CASE BackendStarted
    BY <2>2 DEF BackendStarted
  <2>3. CASE BackendStartedLate
    <3>1. \E work, f, srv, inode : BeginDrain(work, f, srv, inode)
      BY <2>3 DEF BackendStartedLate
    <3>2. task' = task
      BY <2>3 DEF BackendStartedLate
    <3> QED BY <3>1, <3>2, SnapshotTaken
  <2>4. CASE BackendStartFails
    BY <2>4 DEF BackendStartFails, FinishStart, ResetAttempt, Settle
  <2>5. CASE BindSocket
    BY <2>5 DEF BindSocket
  <2>6. CASE BindFails
    BY <2>6 DEF BindFails
  <2>7. CASE BindDone
    BY <2>7 DEF BindDone
  <2>8. CASE StartSucceeds
    BY <2>8 DEF StartSucceeds
  <2>9. CASE StartUnwinds
    <3>1. \E work, f, srv, inode : BeginDrain(work, f, srv, inode)
      BY <2>9 DEF StartUnwinds
    <3>2. task' = task
      BY <2>9 DEF StartUnwinds
    <3> QED BY <3>1, <3>2, SnapshotTaken
  <2>10. CASE CancelBind
    BY <2>10 DEF CancelBind
  <2>11. CASE AbandonBind
    <3>1. \E work, f, srv, inode : BeginDrain(work, f, srv, inode)
      BY <2>11 DEF AbandonBind
    <3>2. task' = task
      BY <2>11 DEF AbandonBind
    <3> QED BY <3>1, <3>2, SnapshotTaken
  <2> QED BY <1>1, <2>1, <2>2, <2>3, <2>4, <2>5, <2>6, <2>7, <2>8, <2>9, <2>10, <2>11 DEF StartNext
<1>2. CASE DrainNext
  <2>1. CASE DrainBegin
    <3>1. \E work, f, srv, inode : BeginDrain(work, f, srv, inode)
      BY <2>1 DEF DrainBegin
    <3>2. task' = task
      BY <2>1 DEF DrainBegin
    <3> QED BY <3>1, <3>2, SnapshotTaken
  <2>2. CASE DrainSessionsDone
    BY <2>2 DEF DrainSessionsDone, AfterSessions, StartBackendClose, Live
  <2>3. CASE DrainTimeout
    <3>1. \A t \in pending : task'[t] = IF Live(t) THEN AfterCancel(task[t]) ELSE task[t]
      BY <2>3 DEF DrainTimeout, CancelTasks
    <3>2. \A t \in pending : task'[t] \notin {"none", "queued", "run", "closing"}
      BY <3>1 DEF AfterCancel, Live, TaskStates
    <3> QED BY <2>3, <3>2 DEF DrainTimeout
  <2>4. CASE DrainGraceOver
    BY <2>4 DEF DrainGraceOver, AfterSessions, StartBackendClose
  <2>5. CASE DrainListenerOver
    BY <2>5 DEF DrainListenerOver, StartBackendClose
  <2>6. CASE DrainBackendOver
    BY <2>6 DEF DrainBackendOver, EndDrain, FinishStart, ResetAttempt, Settle
  <2>7. CASE DrainCancelled
    BY <2>7 DEF DrainCancelled, EndDrain, FinishStart, ResetAttempt, Settle
  <2> QED BY <1>2, <2>1, <2>2, <2>3, <2>4, <2>5, <2>6, <2>7 DEF DrainNext
<1>3. CASE FutureNext
  <2>1. CASE ListenerRefuse
    BY <2>1 DEF ListenerRefuse
  <2>2. CASE ListenerClosed
    BY <2>2 DEF ListenerClosed
  <2>3. CASE CloseEnds
    BY <2>3 DEF CloseEnds
  <2>4. CASE IdleDone
    BY <2>4 DEF IdleDone
  <2>5. CASE Adopt
    BY <2>5 DEF Adopt
  <2>6. CASE AdoptedEnds
    BY <2>6 DEF AdoptedEnds
  <2>7. CASE \E k \in Futures : Retire(k)
    BY <2>7 DEF Retire
  <2>8. CASE RetireOrphan
    BY <2>8 DEF RetireOrphan
  <2>9. CASE RetireFailedOrphan
    BY <2>9 DEF RetireFailedOrphan
  <2>10. CASE OrphanCleanupFails
    BY <2>10 DEF OrphanCleanupFails
  <2>11. CASE \E t \in SessionTasks : RetireTask(t)
    BY <2>11 DEF RetireTask
  <2> QED BY <1>3, <2>1, <2>2, <2>3, <2>4, <2>5, <2>6, <2>7, <2>8, <2>9, <2>10, <2>11 DEF FutureNext
<1>4. CASE SessionNext
  <2>1. CASE \E s \in Sessions : Accept(s)
    BY <2>1 DEF Accept
  <2>2. CASE \E s \in Sessions : Commit(s)
    BY <2>2 DEF Commit
  <2>3. CASE \E s \in Sessions : DecodeLaunch(s)
    BY <2>3 DEF DecodeLaunch
  <2>4. CASE \E s \in Sessions : ThreadEnds(s)
    BY <2>4 DEF ThreadEnds
  <2>5. CASE \E s \in Sessions : DecodeEnds(s)
    BY <2>5 DEF DecodeEnds
  <2>6. CASE \E s \in Sessions : ClientLeaves(s)
    <3> PICK s \in Sessions : ClientLeaves(s)
      BY <2>6
    <3>1. pending' = pending /\ drain' = drain /\ task[Handler(s)] \in {"run", "closing"}
      BY DEF ClientLeaves
    <3>2. \A t \in SessionTasks : \/ task'[t] = task[t]
                                  \/ t = Handler(s) /\ task'[t] = "closing"
                                  \/ task'[t] = "cancelled"
      BY DEF ClientLeaves
    <3> QED BY <3>1, <3>2
  <2>7. CASE \E s \in Sessions : HandlerStops(s)
    <3> PICK s \in Sessions : HandlerStops(s)
      BY <2>7
    <3>1. pending' = pending /\ drain' = drain
      BY DEF HandlerStops
    <3>2. \A t \in SessionTasks : \/ task'[t] = task[t]
                                  \/ task'[t] \in {"cancelled", "teardown", "unwinding", "ended"}
      BY DEF HandlerStops
    <3> QED BY <3>1, <3>2
  <2>8. CASE \E s \in Sessions : HandlerEnds(s)
    BY <2>8 DEF HandlerEnds
  <2> QED BY <1>4, <2>1, <2>2, <2>3, <2>4, <2>5, <2>6, <2>7, <2>8 DEF SessionNext
<1>5. CASE ShutdownNext
  <2>1. CASE ShutdownNew
    BY <2>1 DEF ShutdownNew
  <2>2. CASE ShutdownStarting
    BY <2>2 DEF ShutdownStarting
  <2>3. CASE ShutdownRunning
    BY <2>3 DEF ShutdownRunning
  <2>4. CASE ShutdownAgain
    BY <2>4 DEF ShutdownAgain
  <2>5. CASE CancelShutdown
    <3>1. pending' = pending /\ drain' = drain
      BY <2>5 DEF CancelShutdown
    <3>2. \A t \in SessionTasks : task'[t] \in {task[t], AfterCancel(task[t])}
      BY <2>5 DEF CancelShutdown, CancelSessions, CancelTasks
    <3>3. \A t \in SessionTasks : \/ task'[t] = task[t]
                                  \/ task'[t] \in {"cancelled", "ended"}
      BY <3>2 DEF AfterCancel
    <3> QED BY <3>1, <3>3
  <2> QED BY <1>5, <2>1, <2>2, <2>3, <2>4, <2>5 DEF ShutdownNext
<1>6. CASE OutsiderReplaces \/ UNCHANGED vars
  BY <1>6 DEF OutsiderReplaces, vars
<1> QED BY <1>1, <1>2, <1>3, <1>4, <1>5, <1>6 DEF Next

\* The drain closes the backend only once each session and decode task it waited
\* for is over or was asked to cancel.
THEOREM QuietAtClose == Spec => []SnapshotQuietAtClose
<1>1. Init => SnapshotExact
  BY DEF Init, SnapshotExact
<1>2. IInv /\ SnapshotExact /\ [Next]_vars => SnapshotExact'
  BY SnapshotStep
<1>3. SnapshotExact => SnapshotQuietAtClose
  BY DEF SnapshotExact, SnapshotQuietAtClose
<1> QED BY <1>1, <1>2, <1>3, Invariance, PTL DEF Spec

\* A started backend stays somebody's until its close is a future.
LEMMA BackendStep ==
  ASSUME IInv, BackendOwned, [Next]_vars PROVE BackendOwned'
<1> fut \in [Futures -> FutureStates] /\ "close" \in Futures
  BY DEF IInv, TypeOK, WorkTypeOK, Futures
<1> drain # "off" => state # "new" /\ start # "backend"
  BY DEF IInv, FreshStart
<1> state' = "new" => fut'["close"] = "none"
  BY StepInv DEF IInv, LedgerByState, LedgerExact, Unlocked, Futures
<1> start # "idle" => state # "new"
  BY DEF IInv, LedgerByState, LedgerExact, Unlocked
<1> /\ state = "starting" => start # "idle"
    /\ state = "running" => start = "idle" /\ drain = "off"
  BY DEF IInv, DrainRunner
<1> drain # "off" /\ start # "unwind" => start = "idle" /\ state = "stopping"
  BY Zenon DEF IInv, DrainRunner
<1> start = "unwind" => drain \notin {"off", "begin"}
  BY Zenon DEF IInv, DrainRunner
<1> start \in {"bind", "rebind"} => drain = "off"
  BY DEF IInv, FreshStart
<1> USE DEF BackendOwned, lifeVars, workVars, sockVars
<1>1. CASE StartNext
  <2>1. CASE StartCall
    BY <2>1 DEF StartCall
  <2>2. CASE BackendStarted
    BY <2>2 DEF BackendStarted
  <2>3. CASE BackendStartedLate
    <3>1. /\ backend' \in {"up", "closing"} /\ drain' \notin {"off", "begin"}
          /\ backend' = "up" <=> drain' # "backend"
          /\ backend' = "closing" <=> fut'["close"] = "run"
      BY <2>3 DEF BackendStartedLate, BeginDrain, Futures
    <3>2. state' \notin {"new", "running"} /\ start' \notin {"backend", "bind", "rebind"}
      BY <2>3 DEF BackendStartedLate
    <3> QED BY <3>1, <3>2
  <2>4. CASE BackendStartFails
    BY <2>4 DEF BackendStartFails, FinishStart, ResetAttempt, Settle
  <2>5. CASE BindSocket
    BY <2>5 DEF BindSocket
  <2>6. CASE BindFails
    BY <2>6 DEF BindFails
  <2>7. CASE BindDone
    BY <2>7 DEF BindDone
  <2>8. CASE StartSucceeds
    BY <2>8 DEF StartSucceeds
  <2>9. CASE StartUnwinds
    <3>1. /\ backend' \in {"up", "closing"} /\ drain' \notin {"off", "begin"}
          /\ backend' = "up" <=> drain' # "backend"
          /\ backend' = "closing" <=> fut'["close"] = "run"
      BY <2>9 DEF StartUnwinds, BeginDrain, Futures
    <3>2. state' \notin {"new", "running"} /\ start' \notin {"backend", "bind", "rebind"}
      BY <2>9 DEF StartUnwinds
    <3> QED BY <3>1, <3>2
  <2>10. CASE CancelBind
    BY <2>10 DEF CancelBind
  <2>11. CASE AbandonBind
    <3>1. /\ backend' \in {"up", "closing"} /\ drain' \notin {"off", "begin"}
          /\ backend' = "up" <=> drain' # "backend"
          /\ backend' = "closing" <=> fut'["close"] = "run"
      BY <2>11 DEF AbandonBind, BeginDrain, Futures
    <3>2. state' \notin {"new", "running"} /\ start' \notin {"backend", "bind", "rebind"}
      BY <2>11 DEF AbandonBind
    <3> QED BY <3>1, <3>2
  <2> QED BY <1>1, <2>1, <2>2, <2>3, <2>4, <2>5, <2>6, <2>7, <2>8, <2>9, <2>10, <2>11 DEF StartNext
<1>2. CASE DrainNext
  <2>1. CASE DrainBegin
    <3>1. /\ backend' \in {"up", "closing"} /\ drain' \notin {"off", "begin"}
          /\ backend' = "up" <=> drain' # "backend"
          /\ backend' = "closing" <=> fut'["close"] = "run"
      BY <2>1 DEF DrainBegin, BeginDrain, Futures
    <3>2. state' \notin {"new", "running"} /\ start' \notin {"backend", "bind", "rebind"}
      BY <2>1 DEF DrainBegin
    <3> QED BY <3>1, <3>2
  <2>2. CASE DrainSessionsDone
    BY <2>2 DEF DrainSessionsDone, AfterSessions, StartBackendClose
  <2>3. CASE DrainTimeout
    BY <2>3 DEF DrainTimeout
  <2>4. CASE DrainGraceOver
    BY <2>4 DEF DrainGraceOver, AfterSessions, StartBackendClose
  <2>5. CASE DrainListenerOver
    BY <2>5 DEF DrainListenerOver, StartBackendClose
  <2>6. CASE DrainBackendOver
    BY <2>6 DEF DrainBackendOver, EndDrain, FinishStart, ResetAttempt, Settle
  <2>7. CASE DrainCancelled
    BY <2>7 DEF DrainCancelled, EndDrain, FinishStart, ResetAttempt, Settle
  <2> QED BY <1>2, <2>1, <2>2, <2>3, <2>4, <2>5, <2>6, <2>7 DEF DrainNext
<1>3. CASE FutureNext
  <2>1. CASE ListenerRefuse
    BY <2>1 DEF ListenerRefuse
  <2>2. CASE ListenerClosed
    BY <2>2 DEF ListenerClosed
  <2>3. CASE CloseEnds
    BY <2>3 DEF CloseEnds
  <2>4. CASE IdleDone
    BY <2>4 DEF IdleDone
  <2>5. CASE Adopt
    BY <2>5 DEF Adopt
  <2>6. CASE AdoptedEnds
    BY <2>6 DEF AdoptedEnds
  <2>7. CASE \E k \in Futures : Retire(k)
    <3>1. (state' = "running" <=> state = "running") /\ (state' = "new" => state = "new")
      BY <2>7 DEF Retire, Settle
    <3>2. start' = start /\ drain' = drain /\ backend' = backend
      BY <2>7 DEF Retire
    <3>3. fut'["close"] = "run" <=> fut["close"] = "run"
      BY <2>7 DEF Retire
    <3> QED BY <3>1, <3>2, <3>3
  <2>8. CASE RetireOrphan
    BY <2>8 DEF RetireOrphan
  <2>9. CASE RetireFailedOrphan
    <3>1. (state' = "running" <=> state = "running") /\ (state' = "new" => state = "new")
      BY <2>9 DEF RetireFailedOrphan, Settle
    <3>2. start' = start /\ drain' = drain /\ backend' = backend
      BY <2>9 DEF RetireFailedOrphan
    <3>3. fut'["close"] = "run" <=> fut["close"] = "run"
      BY <2>9 DEF RetireFailedOrphan
    <3> QED BY <3>1, <3>2, <3>3
  <2>10. CASE OrphanCleanupFails
    BY <2>10 DEF OrphanCleanupFails
  <2>11. CASE \E t \in SessionTasks : RetireTask(t)
    <3>1. (state' = "running" <=> state = "running") /\ (state' = "new" => state = "new")
      BY <2>11 DEF RetireTask, Settle
    <3>2. start' = start /\ drain' = drain /\ backend' = backend
      BY <2>11 DEF RetireTask
    <3>3. fut'["close"] = "run" <=> fut["close"] = "run"
      BY <2>11 DEF RetireTask
    <3> QED BY <3>1, <3>2, <3>3
  <2> QED BY <1>3, <2>1, <2>2, <2>3, <2>4, <2>5, <2>6, <2>7, <2>8, <2>9, <2>10, <2>11 DEF FutureNext
<1>4. CASE SessionNext
  <2>1. CASE \E s \in Sessions : Accept(s)
    BY <2>1 DEF Accept
  <2>2. CASE \E s \in Sessions : Commit(s)
    BY <2>2 DEF Commit
  <2>3. CASE \E s \in Sessions : DecodeLaunch(s)
    BY <2>3 DEF DecodeLaunch
  <2>4. CASE \E s \in Sessions : ThreadEnds(s)
    BY <2>4 DEF ThreadEnds
  <2>5. CASE \E s \in Sessions : DecodeEnds(s)
    BY <2>5 DEF DecodeEnds
  <2>6. CASE \E s \in Sessions : ClientLeaves(s)
    BY <2>6 DEF ClientLeaves
  <2>7. CASE \E s \in Sessions : HandlerStops(s)
    BY <2>7 DEF HandlerStops
  <2>8. CASE \E s \in Sessions : HandlerEnds(s)
    BY <2>8 DEF HandlerEnds
  <2> QED BY <1>4, <2>1, <2>2, <2>3, <2>4, <2>5, <2>6, <2>7, <2>8 DEF SessionNext
<1>5. CASE ShutdownNext
  <2>1. CASE ShutdownNew
    BY <2>1 DEF ShutdownNew
  <2>2. CASE ShutdownStarting
    BY <2>2 DEF ShutdownStarting
  <2>3. CASE ShutdownRunning
    BY <2>3 DEF ShutdownRunning
  <2>4. CASE ShutdownAgain
    BY <2>4 DEF ShutdownAgain
  <2>5. CASE CancelShutdown
    BY <2>5 DEF CancelShutdown
  <2> QED BY <1>5, <2>1, <2>2, <2>3, <2>4, <2>5 DEF ShutdownNext
<1>6. CASE OutsiderReplaces \/ UNCHANGED vars
  BY <1>6 DEF OutsiderReplaces, vars
<1> QED BY <1>1, <1>2, <1>3, <1>4, <1>5, <1>6 DEF Next

\* Our socket file goes with the close of its listener.
LEMMA SocketStep ==
  ASSUME IInv, SocketOwned, [Next]_vars PROVE SocketOwned'
<1> USE DEF SocketOwned, lifeVars, workVars, sockVars
<1> TypeOK /\ ListenerOwned /\ FreshStart /\ DrainRunner /\ LedgerExact
  BY DEF IInv
<1> USE DEF TypeOK, SocketTypeOK, LifeTypeOK, ListenerOwned, AfterUnlink
<1>1. CASE StartNext
  <2>1. CASE StartCall
    BY <2>1 DEF StartCall
  <2>2. CASE BackendStarted
    BY <2>2 DEF BackendStarted
  <2>3. CASE BackendStartedLate
    BY <2>3 DEF BackendStartedLate, BeginDrain
  <2>4. CASE BackendStartFails
    BY <2>4 DEF BackendStartFails, FinishStart, ResetAttempt, Settle
  <2>5. CASE BindSocket
    <3>1. ~server
      BY <2>5 DEF BindSocket, FreshStart
    <3> QED BY <2>5, <3>1 DEF BindSocket
  <2>6. CASE BindFails
    BY <2>6 DEF BindFails
  <2>7. CASE BindDone
    BY <2>7 DEF BindDone
  <2>8. CASE StartSucceeds
    BY <2>8 DEF StartSucceeds
  <2>9. CASE StartUnwinds
    BY <2>9 DEF StartUnwinds, BeginDrain
  <2>10. CASE CancelBind
    BY <2>10 DEF CancelBind
  <2>11. CASE AbandonBind
    BY <2>11 DEF AbandonBind, BeginDrain
  <2> QED BY <1>1, <2>1, <2>2, <2>3, <2>4, <2>5, <2>6, <2>7, <2>8, <2>9, <2>10, <2>11 DEF StartNext
<1>2. CASE DrainNext
  <2>1. CASE DrainBegin
    BY <2>1 DEF DrainBegin, BeginDrain
  <2>2. CASE DrainSessionsDone
    BY <2>2 DEF DrainSessionsDone, AfterSessions, StartBackendClose
  <2>3. CASE DrainTimeout
    BY <2>3 DEF DrainTimeout
  <2>4. CASE DrainGraceOver
    BY <2>4 DEF DrainGraceOver, AfterSessions, StartBackendClose
  <2>5. CASE DrainListenerOver
    BY <2>5 DEF DrainListenerOver, StartBackendClose
  <2>6. CASE DrainBackendOver
    <3>1. sock' = sock /\ server' \in {server, FALSE}
      BY <2>6 DEF DrainBackendOver, EndDrain, ResetAttempt
    <3>2. CASE state' = "new"
      <4>1. fut'["bind"] = "none"
        BY <3>2, StepInv DEF IInv, LedgerByState, LedgerExact, Unlocked, Futures
      <4>2. fut["bind"] = fut'["bind"]
        BY <2>6 DEF DrainBackendOver, EndDrain, Futures
      <4>3. drain \notin {"off", "begin"} /\ start \notin {"bind", "rebind"}
        BY <2>6 DEF DrainBackendOver, FreshStart
      <4>4. listener \notin {"bound", "open"}
        BY <4>1, <4>2, <4>3
      <4> QED BY <3>1, <4>4
    <3>3. CASE state' # "new"
      BY <2>6, <3>3 DEF DrainBackendOver, EndDrain, FinishStart, ResetAttempt, Settle
    <3> QED BY <3>2, <3>3
  <2>7. CASE DrainCancelled
    <3>1. sock' = sock /\ server' \in {server, FALSE}
      BY <2>7 DEF DrainCancelled, EndDrain, ResetAttempt
    <3>2. CASE state' = "new"
      <4>1. fut'["bind"] = "none"
        BY <3>2, StepInv DEF IInv, LedgerByState, LedgerExact, Unlocked, Futures
      <4>2. fut["bind"] = fut'["bind"]
        BY <2>7 DEF DrainCancelled, EndDrain, Futures
      <4>3. drain \notin {"off", "begin"} /\ start \notin {"bind", "rebind"}
        BY <2>7 DEF DrainCancelled, FreshStart
      <4>4. listener \notin {"bound", "open"}
        BY <4>1, <4>2, <4>3
      <4> QED BY <3>1, <4>4
    <3>3. CASE state' # "new"
      BY <2>7, <3>3 DEF DrainCancelled, EndDrain, FinishStart, ResetAttempt, Settle
    <3> QED BY <3>2, <3>3
  <2> QED BY <1>2, <2>1, <2>2, <2>3, <2>4, <2>5, <2>6, <2>7 DEF DrainNext
<1>3. CASE FutureNext
  <2>1. CASE ListenerRefuse
    BY <2>1 DEF ListenerRefuse
  <2>2. CASE ListenerClosed
    BY <2>2 DEF ListenerClosed
  <2>3. CASE CloseEnds
    BY <2>3 DEF CloseEnds
  <2>4. CASE IdleDone
    BY <2>4 DEF IdleDone
  <2>5. CASE Adopt
    BY <2>5 DEF Adopt
  <2>6. CASE AdoptedEnds
    BY <2>6 DEF AdoptedEnds
  <2>7. CASE \E k \in Futures : Retire(k)
    BY <2>7 DEF Retire
  <2>8. CASE RetireOrphan
    BY <2>8 DEF RetireOrphan
  <2>9. CASE RetireFailedOrphan
    BY <2>9 DEF RetireFailedOrphan
  <2>10. CASE OrphanCleanupFails
    BY <2>10 DEF OrphanCleanupFails
  <2>11. CASE \E t \in SessionTasks : RetireTask(t)
    BY <2>11 DEF RetireTask
  <2> QED BY <1>3, <2>1, <2>2, <2>3, <2>4, <2>5, <2>6, <2>7, <2>8, <2>9, <2>10, <2>11 DEF FutureNext
<1>4. CASE SessionNext
  <2>1. CASE \E s \in Sessions : Accept(s)
    BY <2>1 DEF Accept
  <2>2. CASE \E s \in Sessions : Commit(s)
    BY <2>2 DEF Commit
  <2>3. CASE \E s \in Sessions : DecodeLaunch(s)
    BY <2>3 DEF DecodeLaunch
  <2>4. CASE \E s \in Sessions : ThreadEnds(s)
    BY <2>4 DEF ThreadEnds
  <2>5. CASE \E s \in Sessions : DecodeEnds(s)
    BY <2>5 DEF DecodeEnds
  <2>6. CASE \E s \in Sessions : ClientLeaves(s)
    BY <2>6 DEF ClientLeaves
  <2>7. CASE \E s \in Sessions : HandlerStops(s)
    BY <2>7 DEF HandlerStops
  <2>8. CASE \E s \in Sessions : HandlerEnds(s)
    BY <2>8 DEF HandlerEnds
  <2> QED BY <1>4, <2>1, <2>2, <2>3, <2>4, <2>5, <2>6, <2>7, <2>8 DEF SessionNext
<1>5. CASE ShutdownNext
  <2>1. CASE ShutdownNew
    BY <2>1 DEF ShutdownNew
  <2>2. CASE ShutdownStarting
    BY <2>2 DEF ShutdownStarting
  <2>3. CASE ShutdownRunning
    BY <2>3 DEF ShutdownRunning
  <2>4. CASE ShutdownAgain
    BY <2>4 DEF ShutdownAgain
  <2>5. CASE CancelShutdown
    BY <2>5 DEF CancelShutdown
  <2> QED BY <1>5, <2>1, <2>2, <2>3, <2>4, <2>5 DEF ShutdownNext
<1>6. CASE OutsiderReplaces \/ UNCHANGED vars
  BY <1>6 DEF OutsiderReplaces, vars
<1> QED BY <1>1, <1>2, <1>3, <1>4, <1>5, <1>6 DEF Next

\* What a free lock says of the listener, of the socket file and of the backend.
LEMMA FreeMeansClean == IInv /\ BackendOwned /\ SocketOwned => CleanWhenUnlocked
<1> SUFFICES ASSUME IInv, BackendOwned, SocketOwned, state \in Unlocked
             PROVE  listener \in {"none", "closed"} /\ sock # "ours"
                    /\ backend \notin {"up", "closing"}
  BY DEF CleanWhenUnlocked
<1>1. ~Busy
  BY FreeMeansIdle DEF IInv, LockByState, Adoptable, Unlocked, LockCoversWork
<1>2. listener \in {"none", "closed"}
  BY <1>1 DEF IInv, TypeOK, SocketTypeOK, Busy
<1>3. sock # "ours"
  BY <1>2 DEF SocketOwned
<1>4. backend # "up"
  BY <1>1 DEF BackendOwned, Busy, Unlocked
<1>5. backend # "closing"
  BY <1>1 DEF BackendOwned, Busy, Futures
<1> QED BY <1>2, <1>3, <1>4, <1>5

\* A server that gave the lock back left no listener, no socket file of its own
\* and no started backend behind.
THEOREM LeftClean == Spec => []CleanWhenUnlocked
<1>1. Init => BackendOwned /\ SocketOwned
  BY DEF Init, BackendOwned, SocketOwned, Futures
<1>2. IInv /\ BackendOwned /\ SocketOwned /\ [Next]_vars => BackendOwned' /\ SocketOwned'
  BY BackendStep, SocketStep
<1> QED BY <1>1, <1>2, FreeMeansClean, Invariance, PTL DEF Spec

\* With outsiders on a running server only, every recorded inode is ours.
LEMMA RecordStep ==
  ASSUME OutsiderStates \subseteq {"running"}, IInv, RecordOurs, [Next]_vars PROVE RecordOurs'
<1> USE DEF RecordOurs, lifeVars, workVars, sockVars
<1> TypeOK /\ ListenerOwned /\ FreshStart /\ DrainRunner /\ LedgerExact
  BY DEF IInv
<1> USE DEF TypeOK, SocketTypeOK, LifeTypeOK, ListenerOwned, AfterUnlink
<1>1. CASE StartNext
  <2>1. CASE StartCall
    BY <2>1 DEF StartCall
  <2>2. CASE BackendStarted
    BY <2>2 DEF BackendStarted
  <2>3. CASE BackendStartedLate
    BY <2>3 DEF BackendStartedLate, BeginDrain
  <2>4. CASE BackendStartFails
    BY <2>4 DEF BackendStartFails, FinishStart, ResetAttempt, Settle
  <2>5. CASE BindSocket
    BY <2>5 DEF BindSocket
  <2>6. CASE BindFails
    BY <2>6 DEF BindFails
  <2>7. CASE BindDone
    BY <2>7 DEF BindDone
  <2>8. CASE StartSucceeds
    BY <2>8 DEF StartSucceeds
  <2>9. CASE StartUnwinds
    BY <2>9 DEF StartUnwinds, BeginDrain
  <2>10. CASE CancelBind
    BY <2>10 DEF CancelBind
  <2>11. CASE AbandonBind
    BY <2>11 DEF AbandonBind, BeginDrain
  <2> QED BY <1>1, <2>1, <2>2, <2>3, <2>4, <2>5, <2>6, <2>7, <2>8, <2>9, <2>10, <2>11 DEF StartNext
<1>2. CASE DrainNext
  <2>1. CASE DrainBegin
    BY <2>1 DEF DrainBegin, BeginDrain
  <2>2. CASE DrainSessionsDone
    BY <2>2 DEF DrainSessionsDone, AfterSessions, StartBackendClose
  <2>3. CASE DrainTimeout
    BY <2>3 DEF DrainTimeout
  <2>4. CASE DrainGraceOver
    BY <2>4 DEF DrainGraceOver, AfterSessions, StartBackendClose
  <2>5. CASE DrainListenerOver
    BY <2>5 DEF DrainListenerOver, StartBackendClose
  <2>6. CASE DrainBackendOver
    BY <2>6 DEF DrainBackendOver, EndDrain, FinishStart, ResetAttempt, Settle
  <2>7. CASE DrainCancelled
    BY <2>7 DEF DrainCancelled, EndDrain, FinishStart, ResetAttempt, Settle
  <2> QED BY <1>2, <2>1, <2>2, <2>3, <2>4, <2>5, <2>6, <2>7 DEF DrainNext
<1>3. CASE FutureNext
  <2>1. CASE ListenerRefuse
    BY <2>1 DEF ListenerRefuse
  <2>2. CASE ListenerClosed
    BY <2>2 DEF ListenerClosed
  <2>3. CASE CloseEnds
    BY <2>3 DEF CloseEnds
  <2>4. CASE IdleDone
    BY <2>4 DEF IdleDone
  <2>5. CASE Adopt
    BY <2>5 DEF Adopt
  <2>6. CASE AdoptedEnds
    BY <2>6 DEF AdoptedEnds
  <2>7. CASE \E k \in Futures : Retire(k)
    BY <2>7 DEF Retire
  <2>8. CASE RetireOrphan
    BY <2>8 DEF RetireOrphan
  <2>9. CASE RetireFailedOrphan
    BY <2>9 DEF RetireFailedOrphan
  <2>10. CASE OrphanCleanupFails
    BY <2>10 DEF OrphanCleanupFails
  <2>11. CASE \E t \in SessionTasks : RetireTask(t)
    BY <2>11 DEF RetireTask
  <2> QED BY <1>3, <2>1, <2>2, <2>3, <2>4, <2>5, <2>6, <2>7, <2>8, <2>9, <2>10, <2>11 DEF FutureNext
<1>4. CASE SessionNext
  <2>1. CASE \E s \in Sessions : Accept(s)
    BY <2>1 DEF Accept
  <2>2. CASE \E s \in Sessions : Commit(s)
    BY <2>2 DEF Commit
  <2>3. CASE \E s \in Sessions : DecodeLaunch(s)
    BY <2>3 DEF DecodeLaunch
  <2>4. CASE \E s \in Sessions : ThreadEnds(s)
    BY <2>4 DEF ThreadEnds
  <2>5. CASE \E s \in Sessions : DecodeEnds(s)
    BY <2>5 DEF DecodeEnds
  <2>6. CASE \E s \in Sessions : ClientLeaves(s)
    BY <2>6 DEF ClientLeaves
  <2>7. CASE \E s \in Sessions : HandlerStops(s)
    BY <2>7 DEF HandlerStops
  <2>8. CASE \E s \in Sessions : HandlerEnds(s)
    BY <2>8 DEF HandlerEnds
  <2> QED BY <1>4, <2>1, <2>2, <2>3, <2>4, <2>5, <2>6, <2>7, <2>8 DEF SessionNext
<1>5. CASE ShutdownNext
  <2>1. CASE ShutdownNew
    BY <2>1 DEF ShutdownNew
  <2>2. CASE ShutdownStarting
    BY <2>2 DEF ShutdownStarting
  <2>3. CASE ShutdownRunning
    BY <2>3 DEF ShutdownRunning
  <2>4. CASE ShutdownAgain
    BY <2>4 DEF ShutdownAgain
  <2>5. CASE CancelShutdown
    BY <2>5 DEF CancelShutdown
  <2> QED BY <1>5, <2>1, <2>2, <2>3, <2>4, <2>5 DEF ShutdownNext
<1>6. CASE OutsiderReplaces \/ UNCHANGED vars
  <2>1. CASE OutsiderReplaces
    <3>1. state = "running"
      BY <2>1 DEF OutsiderReplaces
    <3>2. start = "idle" /\ ~orphan
      BY <3>1 DEF DrainRunner
    <3> QED BY <2>1, <3>2 DEF OutsiderReplaces
  <2>2. CASE UNCHANGED vars
    BY <2>2 DEF vars
  <2> QED BY <1>6, <2>1, <2>2
<1> QED BY <1>1, <1>2, <1>3, <1>4, <1>5, <1>6 DEF Next

\* So what is unlinked is ours.
LEMMA UnlinkStep ==
  ASSUME OutsiderStates \subseteq {"running"}, IInv, RecordOurs, [Next]_vars, sock = "other" PROVE sock' # "none"
<1> USE DEF RecordOurs, lifeVars, workVars, sockVars, AfterUnlink
<1> ListenerOwned
  BY DEF IInv
<1> USE DEF ListenerOwned
<1>1. CASE StartNext
  <2>1. CASE StartCall
    BY <2>1 DEF StartCall
  <2>2. CASE BackendStarted
    BY <2>2 DEF BackendStarted
  <2>3. CASE BackendStartedLate
    BY <2>3 DEF BackendStartedLate, BeginDrain
  <2>4. CASE BackendStartFails
    BY <2>4 DEF BackendStartFails, FinishStart, ResetAttempt, Settle
  <2>5. CASE BindSocket
    BY <2>5 DEF BindSocket
  <2>6. CASE BindFails
    BY <2>6 DEF BindFails
  <2>7. CASE BindDone
    BY <2>7 DEF BindDone
  <2>8. CASE StartSucceeds
    BY <2>8 DEF StartSucceeds
  <2>9. CASE StartUnwinds
    BY <2>9 DEF StartUnwinds, BeginDrain
  <2>10. CASE CancelBind
    BY <2>10 DEF CancelBind
  <2>11. CASE AbandonBind
    BY <2>11 DEF AbandonBind, BeginDrain
  <2> QED BY <1>1, <2>1, <2>2, <2>3, <2>4, <2>5, <2>6, <2>7, <2>8, <2>9, <2>10, <2>11 DEF StartNext
<1>2. CASE DrainNext
  <2>1. CASE DrainBegin
    BY <2>1 DEF DrainBegin, BeginDrain
  <2>2. CASE DrainSessionsDone
    BY <2>2 DEF DrainSessionsDone, AfterSessions, StartBackendClose
  <2>3. CASE DrainTimeout
    BY <2>3 DEF DrainTimeout
  <2>4. CASE DrainGraceOver
    BY <2>4 DEF DrainGraceOver, AfterSessions, StartBackendClose
  <2>5. CASE DrainListenerOver
    BY <2>5 DEF DrainListenerOver, StartBackendClose
  <2>6. CASE DrainBackendOver
    BY <2>6 DEF DrainBackendOver, EndDrain, FinishStart, ResetAttempt, Settle
  <2>7. CASE DrainCancelled
    BY <2>7 DEF DrainCancelled, EndDrain, FinishStart, ResetAttempt, Settle
  <2> QED BY <1>2, <2>1, <2>2, <2>3, <2>4, <2>5, <2>6, <2>7 DEF DrainNext
<1>3. CASE FutureNext
  <2>1. CASE ListenerRefuse
    BY <2>1 DEF ListenerRefuse
  <2>2. CASE ListenerClosed
    BY <2>2 DEF ListenerClosed
  <2>3. CASE CloseEnds
    BY <2>3 DEF CloseEnds
  <2>4. CASE IdleDone
    BY <2>4 DEF IdleDone
  <2>5. CASE Adopt
    BY <2>5 DEF Adopt
  <2>6. CASE AdoptedEnds
    BY <2>6 DEF AdoptedEnds
  <2>7. CASE \E k \in Futures : Retire(k)
    BY <2>7 DEF Retire
  <2>8. CASE RetireOrphan
    BY <2>8 DEF RetireOrphan
  <2>9. CASE RetireFailedOrphan
    BY <2>9 DEF RetireFailedOrphan
  <2>10. CASE OrphanCleanupFails
    BY <2>10 DEF OrphanCleanupFails
  <2>11. CASE \E t \in SessionTasks : RetireTask(t)
    BY <2>11 DEF RetireTask
  <2> QED BY <1>3, <2>1, <2>2, <2>3, <2>4, <2>5, <2>6, <2>7, <2>8, <2>9, <2>10, <2>11 DEF FutureNext
<1>4. CASE SessionNext
  <2>1. CASE \E s \in Sessions : Accept(s)
    BY <2>1 DEF Accept
  <2>2. CASE \E s \in Sessions : Commit(s)
    BY <2>2 DEF Commit
  <2>3. CASE \E s \in Sessions : DecodeLaunch(s)
    BY <2>3 DEF DecodeLaunch
  <2>4. CASE \E s \in Sessions : ThreadEnds(s)
    BY <2>4 DEF ThreadEnds
  <2>5. CASE \E s \in Sessions : DecodeEnds(s)
    BY <2>5 DEF DecodeEnds
  <2>6. CASE \E s \in Sessions : ClientLeaves(s)
    BY <2>6 DEF ClientLeaves
  <2>7. CASE \E s \in Sessions : HandlerStops(s)
    BY <2>7 DEF HandlerStops
  <2>8. CASE \E s \in Sessions : HandlerEnds(s)
    BY <2>8 DEF HandlerEnds
  <2> QED BY <1>4, <2>1, <2>2, <2>3, <2>4, <2>5, <2>6, <2>7, <2>8 DEF SessionNext
<1>5. CASE ShutdownNext
  <2>1. CASE ShutdownNew
    BY <2>1 DEF ShutdownNew
  <2>2. CASE ShutdownStarting
    BY <2>2 DEF ShutdownStarting
  <2>3. CASE ShutdownRunning
    BY <2>3 DEF ShutdownRunning
  <2>4. CASE ShutdownAgain
    BY <2>4 DEF ShutdownAgain
  <2>5. CASE CancelShutdown
    BY <2>5 DEF CancelShutdown
  <2> QED BY <1>5, <2>1, <2>2, <2>3, <2>4, <2>5 DEF ShutdownNext
<1>6. CASE OutsiderReplaces \/ UNCHANGED vars
  BY <1>6 DEF OutsiderReplaces, vars
<1> QED BY <1>1, <1>2, <1>3, <1>4, <1>5, <1>6 DEF Next

\* No socket file of another process is removed, unless that process replaced ours
\* before the server was running.
THEOREM ForeignSocketKept ==
  ASSUME OutsiderStates \subseteq {"running"} PROVE Spec => NeverUnlinkOthers
<1>1. Init => RecordOurs
  BY DEF Init, RecordOurs
<1>2. IInv /\ RecordOurs /\ [Next]_vars => RecordOurs'
  BY RecordStep
<1>3. IInv /\ RecordOurs /\ [Next]_vars => [sock = "other" => sock' # "none"]_vars
  BY UnlinkStep
<1> QED BY <1>1, <1>2, <1>3, Invariance, PTL DEF Spec, NeverUnlinkOthers

=============================================================================
