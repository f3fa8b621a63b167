----------------------------- MODULE ServeProofs -----------------------------
(***************************************************************************)
(* Theorems about Serve, for every set of modes and any number of          *)
(* cancellations.  The inductive invariant says which stage serve() may    *)
(* still wait for, what the two steps and the ledger are in each phase of  *)
(* the server, and what has been told at each place of serve().            *)
(***************************************************************************)
EXTENDS Serve, TLAPS

\* A stage is pending from its creation until it is waited for, once.
StepsExact ==
    /\ pc \in Stages => pending = pc
    /\ pc = "boot" => /\ phase = "new" /\ adopted = {} /\ pending = "none"
                      /\ \A s \in Stages : step[s] = "none"
    /\ pc = "startup" => step["readiness"] = "none"
    /\ \A s \in Stages :
          /\ waits[s] <= 1
          /\ pending = s => waits[s] = 0 /\ step[s] # "none"
          /\ step[s] = "none" => waits[s] = 0

\* Where the startup step can stand in each phase of the server.
StartupExact ==
    /\ step["startup"] \in {"run", "asked"} => phase \in {"starting", "stopping"}
    /\ step["startup"] = "queued" /\ Alive =>
          pending = "startup" /\ phase = "new" /\ pc \in {"startup", "finally"}
    /\ step["startup"] = "dropped" => phase \in {"new", "stopped"}
    /\ step["startup"] = "ok" => phase \in {"running", "stopping", "stopped"}
    /\ phase = "starting" => step["startup"] \in {"run", "asked"}
    /\ phase = "running" => others /\ step["startup"] = "ok"
    /\ pc = "shutdown" => phase = "stopping" /\ others /\ step["startup"] = "ok"
    /\ pc \in {"startup", "readiness", "serving"} /\ step["startup"] = "ok" =>
          phase = "running"

\* Without the lock there is no live work; the readiness step is always adopted.
LedgerExact ==
    /\ phase \in {"new", "stopped"} => ~LiveWork(others, step, adopted)
    /\ step["readiness"] # "none" => step["startup"] = "ok"
    /\ "readiness" \in adopted <=> step["readiness"] # "none"
    /\ "startup" \in adopted => step["startup"] \notin {"none", "queued", "dropped"}

\* Until a stop, a failure or "ready", nothing has been told.
ToldExact ==
    /\ pc \in {"boot", "startup", "readiness", "serving"} =>
          failure = "none" /\ ended = "no"
    /\ ended # "no" => pc = "over"
    /\ pc \in {"boot", "startup", "readiness"} => told = <<>>

ServeInv == TypeOK /\ StepsExact /\ StartupExact /\ LedgerExact /\ ToldExact

-----------------------------------------------------------------------------
\* Only "stopping" settles, and only when nothing is left.
LEMMA SettleFacts ==
    ASSUME NEW ph, NEW oth, NEW st, NEW ad
    PROVE  /\ Settle(ph, oth, st, ad) \in {ph, "stopped"}
           /\ Settle(ph, oth, st, ad) # ph => ph = "stopping" /\ ~LiveWork(oth, st, ad)
           /\ oth => Settle(ph, oth, st, ad) = ph
BY DEF Settle, LiveWork

\* What the bounded wait hands over was not in the ledger, and has begun to run.
LEMMA Adopting ==
    ASSUME ServeInv, pc = "abandon"
    PROVE  /\ Adoption(Current) \subseteq Stages
           /\ phase \in {"new", "stopped"} => Adoption(Current) = adopted
           /\ "readiness" \in Adoption(Current) <=> step["readiness"] # "none"
           /\ "startup" \in Adoption(Current) =>
                 step["startup"] \notin {"none", "queued", "dropped"}
<1> USE DEF ServeInv, TypeOK, LedgerExact, Stages
<1>1. CASE Adoption(Current) = adopted
  BY <1>1
<1>2. CASE Adoption(Current) # adopted
  <2>1. /\ Undone(step[Current]) /\ CanAdopt
        /\ Adoption(Current) = adopted \cup {Current} /\ Current \notin adopted
    BY <1>2 DEF Adoption
  <2>2. Current = "startup" /\ step["readiness"] = "none"
    BY <2>1 DEF Current
  <2>3. step["startup"] \notin {"none", "dropped"}
    BY <2>1, <2>2 DEF Undone, CanAdopt, StartupExact
  <2>4. step["startup"] # "queued"
    BY DEF StartupExact, ToldExact, Alive
  <2>5. QED
    BY <2>1, <2>2, <2>3, <2>4 DEF CanAdopt
<1>3. QED
  BY <1>1, <1>2

LEMMA InitServeInv == Init => ServeInv
<1> SUFFICES ASSUME Init PROVE ServeInv
  OBVIOUS
<1> USE DEF Init, Before, Stages
<1>1. TypeOK
  <2>1. step \in [Stages -> StepStates] /\ waits \in [Stages -> Nat]
    BY DEF StepStates
  <2>2. told \in Seq(Causes \cup {"ready"})
    OBVIOUS
  <2>3. QED
    BY <2>1, <2>2 DEF TypeOK
<1>2. StepsExact
  BY DEF StepsExact
<1>3. StartupExact
  BY DEF StartupExact
<1>4. LedgerExact
  BY DEF LedgerExact, LiveWork
<1>5. ToldExact
  BY DEF ToldExact
<1>6. QED
  BY <1>1, <1>2, <1>3, <1>4, <1>5 DEF ServeInv

\* TypeOK is preserved.
LEMMA TypeStep ==
    ASSUME ServeInv, [Next]_vars PROVE TypeOK'
<1> USE DEF ServeInv, TypeOK, Stages, StepStates, Causes, serverVars, parentVars
<1>1. CASE Refused
  BY <1>1 DEF Refused
<1>2. CASE Boot
  BY <1>2 DEF Boot
<1>3. CASE Finish
  <2>1. told' \in {told, Append(told, failure)} /\ (failure = "none" => told' = told)
    BY <1>3 DEF Finish, Exit, Report
  <2>2. told' \in Seq(Causes \cup {"ready"})
    BY <2>1
  <2>3. ended' \in {"ok", "fail"}
    BY <1>3 DEF Finish, Exit
  <2>4. QED
    BY <1>3, <2>2, <2>3 DEF Finish
<1>4. CASE \E s \in Stages : StepBegins(s)
  BY <1>4 DEF StepBegins, Turn
<1>5. CASE StartupSucceeds
  BY <1>5 DEF StartupSucceeds, Turn
<1>6. CASE StartupEnds
  BY <1>6 DEF StartupEnds, Turn, Settle
<1>7. CASE ReadinessEnds
  BY <1>7 DEF ReadinessEnds, Turn, Settle
<1>8. CASE \E s \in Stages : StepDropped(s)
  BY <1>8 DEF StepDropped, Turn, Settle
<1>9. CASE WorkEnds
  <2>1. phase' \in {phase, "stopped"} /\ others' \in BOOLEAN
    BY <1>9 DEF WorkEnds, Settle
  <2>2. UNCHANGED <<mode, pc, stop, failure, pending, step, adopted, waits,
                    cancels, parentVars, told, ended>>
    BY <1>9 DEF WorkEnds
  <2>3. QED
    BY <2>1, <2>2
<1>10. CASE \E s \in Stages : StopExits(s)
  BY <1>10 DEF StopExits, Undone, Ended
<1>11. CASE \E s \in Stages : StopAbandons(s)
  BY <1>11 DEF StopAbandons, Abandon, Undone, Ended
<1>12. CASE Started
  <2>1. /\ pc' \in Stages \cup {"serving"} /\ pending' \in Stages \cup {"none"}
        /\ adopted' \subseteq Stages
    BY <1>12 DEF Started
  <2>2. step' \in [Stages -> StepStates]
    BY <1>12 DEF Started
  <2>3. UNCHANGED <<mode, stop, failure, waits, cancels, serverVars, parentVars,
                    told, ended>>
    BY <1>12 DEF Started
  <2>4. QED
    BY <2>1, <2>2, <2>3
<1>13. CASE Publish
  BY <1>13 DEF Publish
<1>14. CASE PublishFails
  BY <1>14 DEF PublishFails, FirstOf
<1>15. CASE Return
  BY <1>15 DEF Return
<1>16. CASE StepFailed
  BY <1>16 DEF StepFailed, FirstOf
<1>17. CASE AbandonOver
  BY <1>17 DEF AbandonOver, Adoption, Current, Undone, Ended, CanAdopt
<1>18. CASE Settling
  BY <1>18 DEF Settling, InFlight, Abandon, Undone, Ended
<1>19. CASE ShutdownRunning
  BY <1>19 DEF ShutdownRunning, InFinally, InFlight, Undone, Ended
<1>20. CASE ShutdownAtOnce
  <2>1. told' \in {told, Append(told, failure)} /\ (failure = "none" => told' = told)
    BY <1>20 DEF ShutdownAtOnce, Conclude, Exit, Report
  <2>2. told' \in Seq(Causes \cup {"ready"})
    BY <2>1
  <2>3. ended' \in {"no", "ok", "fail"} /\ pc' = "over"
    BY <1>20 DEF ShutdownAtOnce, Conclude, Exit
  <2>4. phase' \in {"new", "starting", "running", "stopping", "stopped"}
    BY <1>20 DEF ShutdownAtOnce
  <2>5. QED
    BY <1>20, <2>2, <2>3, <2>4 DEF ShutdownAtOnce
<1>21. CASE ShutdownEnds
  BY <1>21 DEF ShutdownEnds, Settle, FirstOf, Conclude, Exit, Report
<1>22. CASE Cancel
  BY <1>22 DEF Cancel, FirstOf, Adoption, Current, Undone, Ended, CanAdopt
<1>23. CASE CancelShutdown
  BY <1>23 DEF CancelShutdown, FirstOf, Conclude, Exit, Report, Hard
<1>24. CASE Signal
  BY <1>24 DEF Signal, Turn
<1>25. CASE ParentCloses
  <2>1. heard' \in BOOLEAN
    BY <1>25 DEF ParentCloses
  <2>2. QED
    BY <1>25, <2>1 DEF ParentCloses
<1>26. CASE WatchEof
  BY <1>26 DEF WatchEof
<1>27. CASE StdinStop
  BY <1>27 DEF StdinStop, Turn
<1>28. CASE UNCHANGED vars
  BY <1>28 DEF vars
<1>29. QED
  BY <1>1, <1>2, <1>3, <1>4, <1>5, <1>6, <1>7, <1>8, <1>9, <1>10, <1>11, <1>12, <1>13, <1>14, <1>15, <1>16, <1>17, <1>18, <1>19, <1>20, <1>21, <1>22, <1>23, <1>24, <1>25, <1>26, <1>27, <1>28 DEF Next, OwnNext, EnvNext

\* StepsExact is preserved.
LEMMA StepsStep ==
    ASSUME ServeInv, [Next]_vars PROVE StepsExact'
<1> USE DEF ServeInv, TypeOK, StepsExact, Stages, StepStates, serverVars, parentVars
<1>1. CASE Refused
  BY <1>1 DEF Refused
<1>2. CASE Boot
  BY <1>2 DEF Boot
<1>3. CASE Finish
  BY <1>3 DEF Finish, Exit, Report
<1>4. CASE \E s \in Stages : StepBegins(s)
  BY <1>4 DEF StepBegins, Turn
<1>5. CASE StartupSucceeds
  BY <1>5 DEF StartupSucceeds, Turn
<1>6. CASE StartupEnds
  BY <1>6 DEF StartupEnds, Turn, Settle
<1>7. CASE ReadinessEnds
  BY <1>7 DEF ReadinessEnds, Turn, Settle
<1>8. CASE \E s \in Stages : StepDropped(s)
  BY <1>8 DEF StepDropped, Turn, Settle
<1>9. CASE WorkEnds
  BY <1>9 DEF WorkEnds, Turn, Settle
<1>10. CASE \E s \in Stages : StopExits(s)
  BY <1>10 DEF StopExits, Undone, Ended
<1>11. CASE \E s \in Stages : StopAbandons(s)
  BY <1>11 DEF StopAbandons, Abandon, Undone, Ended
<1>12. CASE Started
  BY <1>12 DEF Started, Passed
<1>13. CASE Publish
  BY <1>13 DEF Publish
<1>14. CASE PublishFails
  BY <1>14 DEF PublishFails, FirstOf
<1>15. CASE Return
  BY <1>15 DEF Return
<1>16. CASE StepFailed
  BY <1>16 DEF StepFailed, FirstOf
<1>17. CASE AbandonOver
  BY <1>17 DEF AbandonOver, Adoption, Current, Undone, Ended, CanAdopt
<1>18. CASE Settling
  BY <1>18 DEF Settling, InFlight, Abandon, Undone, Ended
<1>19. CASE ShutdownRunning
  BY <1>19 DEF ShutdownRunning, InFinally, InFlight, Undone, Ended
<1>20. CASE ShutdownAtOnce
  BY <1>20 DEF ShutdownAtOnce, InFinally, InFlight, Undone, Ended, Conclude, Exit, Report
<1>21. CASE ShutdownEnds
  BY <1>21 DEF ShutdownEnds, Settle, FirstOf, Conclude, Exit, Report
<1>22. CASE Cancel
  BY <1>22 DEF Cancel, FirstOf, Adoption, Current, Undone, Ended, CanAdopt
<1>23. CASE CancelShutdown
  BY <1>23 DEF CancelShutdown, FirstOf, Conclude, Exit, Report, Hard
<1>24. CASE Signal
  BY <1>24 DEF Signal, Turn
<1>25. CASE ParentCloses
  BY <1>25 DEF ParentCloses
<1>26. CASE WatchEof
  BY <1>26 DEF WatchEof
<1>27. CASE StdinStop
  BY <1>27 DEF StdinStop, Turn
<1>28. CASE UNCHANGED vars
  BY <1>28 DEF vars
<1>29. QED
  BY <1>1, <1>2, <1>3, <1>4, <1>5, <1>6, <1>7, <1>8, <1>9, <1>10, <1>11, <1>12, <1>13, <1>14, <1>15, <1>16, <1>17, <1>18, <1>19, <1>20, <1>21, <1>22, <1>23, <1>24, <1>25, <1>26, <1>27, <1>28 DEF Next, OwnNext, EnvNext

\* StartupExact is preserved.
LEMMA StartupStep ==
    ASSUME ServeInv, [Next]_vars PROVE StartupExact'
<1> USE DEF ServeInv, TypeOK, StepsExact, StartupExact, LedgerExact, ToldExact, Alive, Hard, Stages, StepStates, serverVars, parentVars
<1>1. CASE Refused
  BY <1>1 DEF Refused
<1>2. CASE Boot
  BY <1>2 DEF Boot
<1>3. CASE Finish
  BY <1>3 DEF Finish, Exit, Report
<1>4. CASE \E s \in Stages : StepBegins(s)
  BY <1>4 DEF StepBegins, Turn
<1>5. CASE StartupSucceeds
  BY <1>5 DEF StartupSucceeds, Turn
<1>6. CASE StartupEnds
  BY <1>6 DEF StartupEnds, Turn, Settle
<1>7. CASE ReadinessEnds
  BY <1>7, SettleFacts DEF ReadinessEnds, Turn
<1>8. CASE \E s \in Stages : StepDropped(s)
  BY <1>8, SettleFacts DEF StepDropped, Turn
<1>9. CASE WorkEnds
  <2>1. /\ phase' \in {phase, "stopped"}
        /\ step["startup"] \in {"run", "asked"} => phase' = phase
    BY <1>9 DEF WorkEnds, Settle, LiveWork
  <2>2. QED
    BY <1>9, <2>1 DEF WorkEnds
<1>10. CASE \E s \in Stages : StopExits(s)
  BY <1>10 DEF StopExits, Undone, Ended
<1>11. CASE \E s \in Stages : StopAbandons(s)
  BY <1>11 DEF StopAbandons, Abandon, Undone, Ended
<1>12. CASE Started
  BY <1>12 DEF Started, Passed
<1>13. CASE Publish
  BY <1>13 DEF Publish
<1>14. CASE PublishFails
  BY <1>14 DEF PublishFails, FirstOf
<1>15. CASE Return
  BY <1>15 DEF Return
<1>16. CASE StepFailed
  BY <1>16 DEF StepFailed, FirstOf
<1>17. CASE AbandonOver
  BY <1>17 DEF AbandonOver, Adoption, Current, Undone, Ended, CanAdopt
<1>18. CASE Settling
  BY <1>18 DEF Settling, InFlight, Abandon, Undone, Ended
<1>19. CASE ShutdownRunning
  BY <1>19 DEF ShutdownRunning, InFinally, InFlight, Undone, Ended
<1>20. CASE ShutdownAtOnce
  BY <1>20 DEF ShutdownAtOnce, InFinally, InFlight, Undone, Ended, Conclude, Exit, Report
<1>21. CASE ShutdownEnds
  BY <1>21 DEF ShutdownEnds, Settle, FirstOf, Conclude, Exit, Report
<1>22. CASE Cancel
  BY <1>22 DEF Cancel, FirstOf, Adoption, Current, Undone, Ended, CanAdopt
<1>23. CASE CancelShutdown
  BY <1>23 DEF CancelShutdown, FirstOf, Conclude, Exit, Report, Hard
<1>24. CASE Signal
  BY <1>24 DEF Signal, Turn
<1>25. CASE ParentCloses
  BY <1>25 DEF ParentCloses
<1>26. CASE WatchEof
  BY <1>26 DEF WatchEof
<1>27. CASE StdinStop
  BY <1>27 DEF StdinStop, Turn
<1>28. CASE UNCHANGED vars
  BY <1>28 DEF vars
<1>29. QED
  BY <1>1, <1>2, <1>3, <1>4, <1>5, <1>6, <1>7, <1>8, <1>9, <1>10, <1>11, <1>12, <1>13, <1>14, <1>15, <1>16, <1>17, <1>18, <1>19, <1>20, <1>21, <1>22, <1>23, <1>24, <1>25, <1>26, <1>27, <1>28 DEF Next, OwnNext, EnvNext

\* LedgerExact is preserved.
LEMMA LedgerStep ==
    ASSUME ServeInv, [Next]_vars PROVE LedgerExact'
<1> USE DEF ServeInv, TypeOK, StepsExact, StartupExact, LedgerExact, LiveWork, Ended, Stages, StepStates, serverVars, parentVars
<1>1. CASE Refused
  BY <1>1 DEF Refused
<1>2. CASE Boot
  BY <1>2 DEF Boot
<1>3. CASE Finish
  BY <1>3 DEF Finish, Exit, Report
<1>4. CASE \E s \in Stages : StepBegins(s)
  BY <1>4 DEF StepBegins, Turn
<1>5. CASE StartupSucceeds
  BY <1>5 DEF StartupSucceeds, Turn
<1>6. CASE StartupEnds
  <2>1. PICK how \in {"failed", "cancelled"}, left \in BOOLEAN :
          /\ step' = [step EXCEPT !["startup"] = how] /\ others' = left
          /\ phase' = IF phase = "starting"
                      THEN IF left THEN "stopping" ELSE "new"
                      ELSE Settle(phase, left, step', adopted)
    BY <1>6 DEF StartupEnds
  <2>2. /\ step'["startup"] = how /\ step'["readiness"] = "none"
        /\ adopted' = adopted /\ adopted \subseteq {"startup"}
    BY <1>6, <2>1 DEF StartupEnds
  <2>3. phase' \in {"new", "stopped"} => ~LiveWork(others', step', adopted')
    <3>1. CASE phase = "starting"
      BY <2>1, <2>2, <3>1
    <3>2. CASE phase = "stopping"
      BY <2>1, <2>2, <3>2 DEF Settle
    <3>3. QED
      BY <1>6, <3>1, <3>2 DEF StartupEnds
  <2>4. QED
    BY <2>1, <2>2, <2>3
<1>7. CASE ReadinessEnds
  BY <1>7 DEF ReadinessEnds, Turn, Settle
<1>8. CASE \E s \in Stages : StepDropped(s)
  BY <1>8 DEF StepDropped, Turn, Settle
<1>9. CASE WorkEnds
  BY <1>9 DEF WorkEnds, Turn, Settle
<1>10. CASE \E s \in Stages : StopExits(s)
  BY <1>10 DEF StopExits, Undone, Ended
<1>11. CASE \E s \in Stages : StopAbandons(s)
  BY <1>11 DEF StopAbandons, Abandon, Undone, Ended
<1>12. CASE Started
  BY <1>12 DEF Started, Passed
<1>13. CASE Publish
  BY <1>13 DEF Publish
<1>14. CASE PublishFails
  BY <1>14 DEF PublishFails, FirstOf
<1>15. CASE Return
  BY <1>15 DEF Return
<1>16. CASE StepFailed
  BY <1>16 DEF StepFailed, FirstOf
<1>17. CASE AbandonOver
  BY <1>17, Adopting DEF AbandonOver
<1>18. CASE Settling
  BY <1>18 DEF Settling, InFlight, Abandon, Undone, Ended
<1>19. CASE ShutdownRunning
  BY <1>19 DEF ShutdownRunning, InFinally, InFlight, Undone, Ended
<1>20. CASE ShutdownAtOnce
  BY <1>20 DEF ShutdownAtOnce, InFinally, InFlight, Undone, Ended, Conclude, Exit, Report
<1>21. CASE ShutdownEnds
  BY <1>21 DEF ShutdownEnds, Settle, FirstOf, Conclude, Exit, Report
<1>22. CASE Cancel
  <2>1. phase' = phase /\ others' = others /\ step' = step
        /\ adopted' \in {adopted, Adoption(Current)}
    BY <1>22 DEF Cancel
  <2>2. QED
    BY <1>22, <2>1, Adopting DEF Cancel
<1>23. CASE CancelShutdown
  BY <1>23 DEF CancelShutdown, FirstOf, Conclude, Exit, Report, Hard
<1>24. CASE Signal
  BY <1>24 DEF Signal, Turn
<1>25. CASE ParentCloses
  BY <1>25 DEF ParentCloses
<1>26. CASE WatchEof
  BY <1>26 DEF WatchEof
<1>27. CASE StdinStop
  BY <1>27 DEF StdinStop, Turn
<1>28. CASE UNCHANGED vars
  BY <1>28 DEF vars
<1>29. QED
  BY <1>1, <1>2, <1>3, <1>4, <1>5, <1>6, <1>7, <1>8, <1>9, <1>10, <1>11, <1>12, <1>13, <1>14, <1>15, <1>16, <1>17, <1>18, <1>19, <1>20, <1>21, <1>22, <1>23, <1>24, <1>25, <1>26, <1>27, <1>28 DEF Next, OwnNext, EnvNext

\* ToldExact is preserved.
LEMMA ToldStep ==
    ASSUME ServeInv, [Next]_vars PROVE ToldExact'
<1> USE DEF ServeInv, TypeOK, StepsExact, ToldExact, Stages, StepStates, serverVars, parentVars
<1>1. CASE Refused
  BY <1>1 DEF Refused
<1>2. CASE Boot
  BY <1>2 DEF Boot
<1>3. CASE Finish
  BY <1>3 DEF Finish, Exit, Report
<1>4. CASE \E s \in Stages : StepBegins(s)
  BY <1>4 DEF StepBegins, Turn
<1>5. CASE StartupSucceeds
  BY <1>5 DEF StartupSucceeds, Turn
<1>6. CASE StartupEnds
  BY <1>6 DEF StartupEnds, Turn, Settle
<1>7. CASE ReadinessEnds
  BY <1>7 DEF ReadinessEnds, Turn, Settle
<1>8. CASE \E s \in Stages : StepDropped(s)
  BY <1>8 DEF StepDropped, Turn, Settle
<1>9. CASE WorkEnds
  BY <1>9 DEF WorkEnds, Turn, Settle
<1>10. CASE \E s \in Stages : StopExits(s)
  BY <1>10 DEF StopExits, Undone, Ended
<1>11. CASE \E s \in Stages : StopAbandons(s)
  BY <1>11 DEF StopAbandons, Abandon, Undone, Ended
<1>12. CASE Started
  BY <1>12 DEF Started, Passed
<1>13. CASE Publish
  BY <1>13 DEF Publish
<1>14. CASE PublishFails
  BY <1>14 DEF PublishFails, FirstOf
<1>15. CASE Return
  BY <1>15 DEF Return
<1>16. CASE StepFailed
  BY <1>16 DEF StepFailed, FirstOf
<1>17. CASE AbandonOver
  BY <1>17 DEF AbandonOver, Adoption, Current, Undone, Ended, CanAdopt
<1>18. CASE Settling
  BY <1>18 DEF Settling, InFlight, Abandon, Undone, Ended
<1>19. CASE ShutdownRunning
  BY <1>19 DEF ShutdownRunning, InFinally, InFlight, Undone, Ended
<1>20. CASE ShutdownAtOnce
  BY <1>20 DEF ShutdownAtOnce, InFinally, InFlight, Undone, Ended, Conclude, Exit, Report
<1>21. CASE ShutdownEnds
  BY <1>21 DEF ShutdownEnds, Settle, FirstOf, Conclude, Exit, Report
<1>22. CASE Cancel
  BY <1>22 DEF Cancel, FirstOf, Adoption, Current, Undone, Ended, CanAdopt
<1>23. CASE CancelShutdown
  BY <1>23 DEF CancelShutdown, FirstOf, Conclude, Exit, Report, Hard
<1>24. CASE Signal
  BY <1>24 DEF Signal, Turn
<1>25. CASE ParentCloses
  BY <1>25 DEF ParentCloses
<1>26. CASE WatchEof
  BY <1>26 DEF WatchEof
<1>27. CASE StdinStop
  BY <1>27 DEF StdinStop, Turn
<1>28. CASE UNCHANGED vars
  BY <1>28 DEF vars
<1>29. QED
  BY <1>1, <1>2, <1>3, <1>4, <1>5, <1>6, <1>7, <1>8, <1>9, <1>10, <1>11, <1>12, <1>13, <1>14, <1>15, <1>16, <1>17, <1>18, <1>19, <1>20, <1>21, <1>22, <1>23, <1>24, <1>25, <1>26, <1>27, <1>28 DEF Next, OwnNext, EnvNext

LEMMA NextServeInv == ServeInv /\ [Next]_vars => ServeInv'
BY TypeStep, StepsStep, StartupStep, LedgerStep, ToldStep DEF ServeInv

LEMMA SpecServeInv == Spec => []ServeInv
BY InitServeInv, NextServeInv, PTL DEF Spec

-----------------------------------------------------------------------------
\* Every variable keeps its type.
THEOREM ServeTypeCorrect == Spec => []TypeOK
<1>1. ServeInv => TypeOK
  BY DEF ServeInv
<1>2. QED
  BY SpecServeInv, <1>1, PTL

\* A step that can touch the backend or the socket runs only while the server
\* holds its lock, one that serve() has given up included.
THEOREM LockCovers == Spec => []LockCoversStep
<1>1. ServeInv => LockCoversStep
  <2> SUFFICES ASSUME ServeInv, NEW s \in Stages, step[s] \in {"run", "asked"}
               PROVE  CanAdopt
    BY DEF LockCoversStep
  <2>1. CASE s = "startup"
    BY <2>1 DEF ServeInv, StartupExact, CanAdopt
  <2>2. CASE s = "readiness"
    <3>1. LiveWork(others, step, adopted)
      BY <2>2 DEF ServeInv, LedgerExact, LiveWork, Ended
    <3>2. phase \in {"running", "stopping", "stopped"}
      BY <2>2 DEF ServeInv, LedgerExact, StartupExact
    <3>3. QED
      BY <3>1, <3>2 DEF ServeInv, LedgerExact, CanAdopt
  <2>3. QED
    BY <2>1, <2>2 DEF Stages
<1>2. QED
  BY SpecServeInv, <1>1, PTL

\* However serve() is left and however often it is cancelled, each step is waited
\* for at most once.
THEOREM WaitsOnce == Spec => []OneBoundedWait
<1>1. ServeInv => OneBoundedWait
  BY DEF ServeInv, StepsExact, OneBoundedWait
<1>2. QED
  BY SpecServeInv, <1>1, PTL

-----------------------------------------------------------------------------
(* The contract with whoever started serve().                              *)

\* Every step maps to a step of the contract, or to a stutter.
LEMMA ContractStep ==
    ASSUME ServeInv, [Next]_vars PROVE [Contract!ContractNext]_(Contract!contractVars)
<1> USE DEF ServeInv, TypeOK, StepsExact, ToldExact, Stopped, Contract!contractVars, Stages, serverVars, parentVars
<1>1. CASE Refused
  BY <1>1 DEF Refused, Contract!ContractNext, Contract!Break, Causes
<1>2. CASE Boot
  BY <1>2 DEF Boot
<1>3. CASE Finish
  BY <1>3 DEF Finish, Exit, Report, Contract!ContractNext, Contract!Succeed, Contract!Fail
<1>4. CASE \E s \in Stages : StepBegins(s)
  BY <1>4 DEF StepBegins
<1>5. CASE StartupSucceeds
  BY <1>5 DEF StartupSucceeds
<1>6. CASE StartupEnds
  BY <1>6 DEF StartupEnds
<1>7. CASE ReadinessEnds
  BY <1>7 DEF ReadinessEnds
<1>8. CASE \E s \in Stages : StepDropped(s)
  BY <1>8 DEF StepDropped
<1>9. CASE WorkEnds
  BY <1>9 DEF WorkEnds
<1>10. CASE \E s \in Stages : StopExits(s)
  BY <1>10 DEF StopExits, Contract!ContractNext, Contract!Succeed
<1>11. CASE \E s \in Stages : StopAbandons(s)
  BY <1>11 DEF StopAbandons
<1>12. CASE Started
  BY <1>12 DEF Started
<1>13. CASE Publish
  BY <1>13 DEF Publish, Passed, Contract!ContractNext, Contract!Ready
<1>14. CASE PublishFails
  BY <1>14 DEF PublishFails, FirstOf, Contract!ContractNext, Contract!Break, Causes
<1>15. CASE Return
  BY <1>15 DEF Return
<1>16. CASE StepFailed
  BY <1>16 DEF StepFailed, FirstOf, Contract!ContractNext, Contract!Break, Causes
<1>17. CASE AbandonOver
  BY <1>17 DEF AbandonOver
<1>18. CASE Settling
  BY <1>18 DEF Settling
<1>19. CASE ShutdownRunning
  BY <1>19 DEF ShutdownRunning
<1>20. CASE ShutdownAtOnce
  BY <1>20 DEF ShutdownAtOnce, InFinally, Conclude, Exit, Report, Contract!ContractNext, Contract!Succeed, Contract!Fail
<1>21. CASE ShutdownEnds
  BY <1>21 DEF ShutdownEnds, FirstOf, Conclude, Exit, Report, Contract!ContractNext, Contract!Succeed, Contract!Fail, Contract!Break, Causes
<1>22. CASE Cancel
  BY <1>22 DEF Cancel, FirstOf, Contract!ContractNext, Contract!Break, Causes
<1>23. CASE CancelShutdown
  BY <1>23 DEF CancelShutdown, FirstOf, Conclude, Hard, Contract!ContractNext, Contract!Break, Causes
<1>24. CASE Signal
  BY <1>24 DEF Signal, Contract!ContractNext, Contract!Ask
<1>25. CASE ParentCloses
  BY <1>25 DEF ParentCloses, Contract!ContractNext, Contract!HangUp
<1>26. CASE WatchEof
  BY <1>26 DEF WatchEof
<1>27. CASE StdinStop
  BY <1>27 DEF StdinStop, Contract!ContractNext, Contract!Ask
<1>28. CASE UNCHANGED vars
  BY <1>28 DEF vars
<1>29. QED
  BY <1>1, <1>2, <1>3, <1>4, <1>5, <1>6, <1>7, <1>8, <1>9, <1>10, <1>11, <1>12, <1>13, <1>14, <1>15, <1>16, <1>17, <1>18, <1>19, <1>20, <1>21, <1>22, <1>23, <1>24, <1>25, <1>26, <1>27, <1>28 DEF Next, OwnNext, EnvNext

\* serve() and its command line implement ServeContract: "ready" once and never
\* after a stop, one failure at most, the first one, and told last.
THEOREM ToldRight == Spec => ImplementsContract
<1>1. Init => Contract!ContractInit
  BY DEF Init, Before, Contract!ContractInit, Stopped
<1>2. ServeInv /\ [Next]_vars => [Contract!ContractNext]_(Contract!contractVars)
  BY ContractStep
<1>3. QED
  BY <1>1, <1>2, SpecServeInv, PTL DEF Spec, ImplementsContract, Contract!ContractSpec

-----------------------------------------------------------------------------
(* The contract of the server inside.                                      *)

\* The phases a step can lead from and to.
Moves == {<<"new", "starting">>, <<"starting", "running">>, <<"starting", "new">>,
          <<"starting", "stopping">>, <<"running", "stopping">>,
          <<"stopping", "stopped">>, <<"new", "stopped">>}

\* A step leaves the phase alone or takes it along one of these moves.
LEMMA PhaseStep ==
    ASSUME ServeInv, [Next]_vars PROVE phase' = phase \/ <<phase, phase'>> \in Moves
<1> USE DEF ServeInv, TypeOK, StartupExact, Moves, Stages, serverVars, parentVars
<1>1. CASE Refused
  BY <1>1 DEF Refused
<1>2. CASE Boot
  BY <1>2 DEF Boot
<1>3. CASE Finish
  BY <1>3 DEF Finish
<1>4. CASE \E s \in Stages : StepBegins(s)
  BY <1>4 DEF StepBegins, Turn
<1>5. CASE StartupSucceeds
  BY <1>5 DEF StartupSucceeds, Turn
<1>6. CASE StartupEnds
  BY <1>6 DEF StartupEnds, Turn, Settle
<1>7. CASE ReadinessEnds
  BY <1>7 DEF ReadinessEnds, Turn, Settle
<1>8. CASE \E s \in Stages : StepDropped(s)
  BY <1>8 DEF StepDropped, Turn, Settle
<1>9. CASE WorkEnds
  BY <1>9 DEF WorkEnds, Settle
<1>10. CASE \E s \in Stages : StopExits(s)
  BY <1>10 DEF StopExits, Undone, Ended
<1>11. CASE \E s \in Stages : StopAbandons(s)
  BY <1>11 DEF StopAbandons
<1>12. CASE Started
  BY <1>12 DEF Started, Passed
<1>13. CASE Publish
  BY <1>13 DEF Publish
<1>14. CASE PublishFails
  BY <1>14 DEF PublishFails, FirstOf
<1>15. CASE Return
  BY <1>15 DEF Return
<1>16. CASE StepFailed
  BY <1>16 DEF StepFailed, FirstOf
<1>17. CASE AbandonOver
  BY <1>17 DEF AbandonOver, Adoption, Current, Undone, Ended, CanAdopt
<1>18. CASE Settling
  BY <1>18 DEF Settling, InFlight, Abandon, Undone, Ended
<1>19. CASE ShutdownRunning
  BY <1>19 DEF ShutdownRunning, InFinally, InFlight, Undone, Ended
<1>20. CASE ShutdownAtOnce
  BY <1>20 DEF ShutdownAtOnce, InFinally
<1>21. CASE ShutdownEnds
  BY <1>21 DEF ShutdownEnds, Settle
<1>22. CASE Cancel
  BY <1>22 DEF Cancel
<1>23. CASE CancelShutdown
  BY <1>23 DEF CancelShutdown
<1>24. CASE Signal
  BY <1>24 DEF Signal, Turn
<1>25. CASE ParentCloses
  BY <1>25 DEF ParentCloses
<1>26. CASE WatchEof
  BY <1>26 DEF WatchEof
<1>27. CASE StdinStop
  BY <1>27 DEF StdinStop, Turn
<1>28. CASE UNCHANGED vars
  BY <1>28 DEF vars
<1>29. QED
  BY <1>1, <1>2, <1>3, <1>4, <1>5, <1>6, <1>7, <1>8, <1>9, <1>10, <1>11, <1>12, <1>13, <1>14, <1>15, <1>16, <1>17, <1>18, <1>19, <1>20, <1>21, <1>22, <1>23, <1>24, <1>25, <1>26, <1>27, <1>28 DEF Next, OwnNext, EnvNext

\* Every step maps to a step of the server's contract, or to a stutter.
LEMMA ServerStep ==
    ASSUME ServeInv, ServeInv', [Next]_vars
    PROVE  [Server!ContractNext]_(Server!contractVars)
<1> DEFINE held == CanAdopt
           busy == LiveWork(others, step, adopted)
<1>1. held \in BOOLEAN /\ held' \in BOOLEAN /\ busy \in BOOLEAN /\ busy' \in BOOLEAN
  BY DEF CanAdopt, LiveWork
<1>2. (~held => ~busy) /\ (~held' => ~busy')
  BY DEF ServeInv, TypeOK, LedgerExact, CanAdopt
<1>3. phase' \in {"starting", "running"} => busy'
  BY DEF ServeInv, StartupExact, LiveWork
<1>4. CASE phase' = phase
  <2>1. held' = held
    BY <1>4 DEF CanAdopt
  <2>2. CASE held
    BY <1>1, <1>4, <2>1, <2>2 DEF Server!ContractNext, Server!Work
  <2>3. CASE ~held
    <3>1. busy = FALSE /\ busy' = FALSE
      BY <1>1, <1>2, <2>1, <2>3
    <3>2. QED
      BY <1>4, <2>1, <3>1 DEF Server!contractVars
  <2>4. QED
    BY <2>2, <2>3
<1>5. CASE phase' # phase
  <2>1. <<phase, phase'>> \in Moves
    BY <1>5, PhaseStep
  <2>2. CASE phase = "new" /\ phase' = "starting"
    BY <1>1, <1>3, <2>2 DEF CanAdopt, Server!ContractNext, Server!Begin
  <2>3. CASE phase = "starting" /\ phase' = "running"
    BY <1>1, <1>3, <2>3 DEF CanAdopt, Server!ContractNext, Server!Serve
  <2>4. CASE phase \in {"starting", "running"} /\ phase' = "stopping"
    BY <1>1, <2>4 DEF CanAdopt, Server!ContractNext, Server!Stop
  <2>5. CASE phase = "starting" /\ phase' = "new"
    BY <1>1, <1>2, <2>5 DEF CanAdopt, Server!ContractNext, Server!Release
  <2>6. CASE phase = "stopping" /\ phase' = "stopped"
    BY <1>1, <1>2, <2>6 DEF CanAdopt, Server!ContractNext, Server!Release
  <2>7. CASE phase = "new" /\ phase' = "stopped"
    BY <1>1, <1>2, <2>7 DEF CanAdopt, Server!ContractNext, Server!Retire
  <2>8. QED
    BY <2>1, <2>2, <2>3, <2>4, <2>5, <2>6, <2>7 DEF Moves
<1>6. QED
  BY <1>4, <1>5

\* The server inside serve() only does what ServerContract says: its lock covers
\* all work, and is given back with none left.
THEOREM InnerServer == Spec => ServerKeepsContract
<1>1. Init => Server!ContractInit
  BY DEF Init, Before, Server!ContractInit, CanAdopt, LiveWork, Stages
<1>2. ServeInv /\ ServeInv' /\ [Next]_vars =>
          [Server!ContractNext]_(Server!contractVars)
  BY ServerStep
<1>3. QED
  BY <1>1, <1>2, SpecServeInv, PTL DEF Spec, ServerKeepsContract, Server!ContractSpec

=============================================================================
