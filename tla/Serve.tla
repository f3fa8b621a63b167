-------------------------------- MODULE Serve --------------------------------
(***************************************************************************)
(* serve() (src/stt_server/server.py) and the command line that runs it    *)
(* (src/stt_server/__main__.py, supervise.py): a stop, a failure, or a     *)
(* cancellation of serve() racing the startup step, the readiness step,    *)
(* the published "ready", and the shutdown of a TranscriptionServer.       *)
(*                                                                         *)
(* The server is what ServerContract promises (Lifecycle implements it):   *)
(* its phase, and the live work in its ledger.  serve() runs on the same   *)
(* loop: pc = "finally" is serve() between two suspension points, when     *)
(* nothing else of the loop can run.                                       *)
(***************************************************************************)
EXTENDS Naturals, Sequences

CONSTANTS
    Modes,        \* how serve() is run: a subset of AllModes
    MaxCancels    \* bound: how often the embedder cancels serve()

AllModes == {"cli", "supervised", "embedded"}

ASSUME ServeAssumption == Modes \subseteq AllModes /\ MaxCancels \in Nat

VARIABLES
    mode,      \* how this serve() is run
    pc,        \* where serve() stands; "rest": it is never called
    stop,      \* the stop future: "no", "set", "cancelled"
    failure,   \* the exception serve() is failing with
    pending,   \* the stage in pending, or "none"
    step,      \* the task of each stage
    adopted,   \* the stages in the server's ledger ("adopted" entries)
    waits,     \* history: bounded waits for each stage
    cancels,   \* history: cancellations of serve()
    phase,     \* the server's state
    others,    \* other live work: listener, sessions, drain, backend close
    stdin,     \* the supervisor's pipe, as the watcher thread knows it
    heard,     \* the supervisor still reads the event channel
    told,      \* history: what was told (events, stderr line, exception)
    ended      \* "no"; "ok"; "fail": the process (embedded: the call) is over

serverVars == <<phase, others>>
parentVars == <<stdin, heard>>
vars == <<mode, pc, stop, failure, pending, step, adopted, waits, cancels,
          serverVars, parentVars, told, ended>>

-----------------------------------------------------------------------------
Stages == {"startup", "readiness"}

\* A step: queued (first turn still to run), dropped (cancelled before it), run,
\* asked (cancel requested; it may swallow that), and three ways to be done.
StepStates == {"none", "queued", "dropped", "run", "asked", "ok", "failed", "cancelled"}
Ended(st) == st \in {"ok", "failed", "cancelled"}
Undone(st) == st # "none" /\ ~Ended(st)

Causes == {"config", "startup", "readiness", "publish", "cancel", "shutdown"}

Hard       == mode # "embedded"      \* hard_exit_on_stop
HasReady   == mode # "cli"           \* ready / publish_ready given
CanAdopt   == phase \in {"starting", "running", "stopping"}
Stopped    == stop # "no"

\* Work goes on: the process lives, and serve() is not in the middle of a turn.
Alive == ended = "no" \/ mode = "embedded"
Turn  == Alive /\ pc # "finally"

\* Mutant: adopted steps do not count.
LiveWork_IgnoreAdopted(oth, st, ad) == oth \/ st["startup"] \in {"run", "asked"}

\* live_work_count # 0: other work, a start in flight, an adopted step not done.
LiveWork(oth, st, ad) ==
    \/ oth
    \/ st["startup"] \in {"run", "asked"}
    \/ \E s \in ad : ~Ended(st[s])

\* Mutant: the lock is released with the shutdown, whatever is left.
Settle_Always(ph, oth, st, ad) == IF ph = "stopping" THEN "stopped" ELSE ph

\* STOPPING -> STOPPED once nothing is left.
Settle(ph, oth, st, ad) ==
    IF ph = "stopping" /\ ~LiveWork(oth, st, ad) THEN "stopped" ELSE ph

\* The first failure is the one that is raised.
FirstOf(c) == IF failure = "none" THEN c ELSE failure

TypeOK ==
    /\ mode \in Modes
    /\ pc \in {"rest", "boot", "startup", "readiness", "serving", "abandon", "finally",
               "shutdown", "over"}
    /\ stop \in {"no", "set", "cancelled"}
    /\ failure \in Causes \cup {"none"}
    /\ pending \in Stages \cup {"none"}
    /\ step \in [Stages -> StepStates]
    /\ adopted \subseteq Stages
    /\ waits \in [Stages -> Nat] /\ cancels \in Nat
    /\ phase \in {"new", "starting", "running", "stopping", "stopped"}
    /\ others \in BOOLEAN /\ heard \in BOOLEAN
    /\ stdin \in {"open", "eof", "posted", "done"}
    /\ told \in Seq(Causes \cup {"ready"})
    /\ ended \in {"no", "ok", "fail"}

Before(where) ==
    /\ pc = where /\ stop = "no" /\ failure = "none"
    /\ pending = "none" /\ step = [s \in Stages |-> "none"] /\ adopted = {}
    /\ waits = [s \in Stages |-> 0] /\ cancels = 0
    /\ phase = "new" /\ others = FALSE
    /\ stdin = "open" /\ heard = TRUE /\ told = <<>> /\ ended = "no"

Init == mode \in Modes /\ Before("boot")
ServeRest == mode = "embedded" /\ Before("rest")

-----------------------------------------------------------------------------
(* Telling and ending.                                                     *)

\* The error event (supervised: lost when nobody reads the pipe), the stderr
\* line, or the exception in the embedder's hands.
Report(f) ==
    told' = IF mode = "supervised" /\ ~heard THEN told ELSE Append(told, f)

\* The process ends with a failure or without one, and says so.
Exit(f) ==
    /\ ended' = IF f = "none" THEN "ok" ELSE "fail"
    /\ IF f = "none" THEN UNCHANGED told ELSE Report(f)

\* Mutant: live work left after shutdown() is not looked at.
Conclude_NoExit(f, live) == pc' = "over" /\ UNCHANGED <<told, ended>>

\* The innermost finally: work that outlived shutdown() is only exited on;
\* otherwise serve() returns or raises.
Conclude(f, live) ==
    IF Hard /\ live
    THEN pc' = "over" /\ Exit(f)
    ELSE pc' = "over" /\ UNCHANGED <<told, ended>>

\* A bad listener or configuration, before there is a server: preflight,
\* ServerConfig, the token file.
Refused ==
    /\ pc = "boot" /\ ended = "no"
    /\ failure' = "config" /\ pc' = "over"
    /\ UNCHANGED <<mode, stop, pending, step, adopted, waits, cancels, serverVars,
                   parentVars, told, ended>>

\* Handlers installed, the stdin watcher started, start() scheduled.
Boot ==
    /\ pc = "boot"
    /\ pc' = "startup" /\ pending' = "startup"
    /\ step' = [step EXCEPT !["startup"] = "queued"]
    /\ UNCHANGED <<mode, stop, failure, adopted, waits, cancels, serverVars,
                   parentVars, told, ended>>

\* serve() is over: asyncio.run waits for the tasks left, then the handlers of
\* _cmd_serve and _run_serve report.  An embedder just gets the result.
Finish ==
    /\ pc = "over" /\ ended = "no"
    /\ Hard => ~LiveWork(others, step, adopted)
    /\ Exit(failure)
    /\ UNCHANGED <<mode, pc, stop, failure, pending, step, adopted, waits,
                   cancels, serverVars, parentVars>>

-----------------------------------------------------------------------------
(* The two steps, as the server and the backend run them.                  *)

\* start() leaves "new" in its first turn; the readiness step touches nothing yet.
StepBegins(s) ==
    /\ Turn /\ step[s] = "queued"
    /\ step' = [step EXCEPT ![s] = "run"]
    /\ phase' = IF s = "startup" THEN "starting" ELSE phase
    /\ UNCHANGED <<mode, pc, stop, failure, pending, adopted, waits, cancels,
                   others, parentVars, told, ended>>

\* start() reaches "running", with its listener.
StartupSucceeds ==
    /\ Turn /\ step["startup"] \in {"run", "asked"} /\ phase = "starting"
    /\ step' = [step EXCEPT !["startup"] = "ok"]
    /\ phase' = "running" /\ others' = TRUE
    /\ UNCHANGED <<mode, pc, stop, failure, pending, adopted, waits, cancels,
                   parentVars, told, ended>>

\* start() fails, is cancelled, or finds a shutdown() that ran meanwhile; what it
\* leaves behind keeps the server in "stopping".
StartupEnds ==
    /\ Turn /\ step["startup"] \in {"run", "asked"}
    /\ \E how \in {"failed", "cancelled"}, left \in BOOLEAN :
        /\ how = "cancelled" => step["startup"] = "asked"
        /\ step' = [step EXCEPT !["startup"] = how]
        /\ others' = left
        /\ phase' = IF phase = "starting"
                    THEN IF left THEN "stopping" ELSE "new"
                    ELSE Settle(phase, left, step', adopted)
    /\ UNCHANGED <<mode, pc, stop, failure, pending, adopted, waits, cancels,
                   parentVars, told, ended>>

\* The readiness step ends, and with it its ledger entry.
ReadinessEnds ==
    /\ Turn /\ step["readiness"] \in {"run", "asked"}
    /\ \E how \in {"ok", "failed", "cancelled"} :
        /\ how = "cancelled" => step["readiness"] = "asked"
        /\ step' = [step EXCEPT !["readiness"] = how]
        /\ phase' = Settle(phase, others, step', adopted)
    /\ UNCHANGED <<mode, pc, stop, failure, pending, adopted, waits, cancels,
                   others, parentVars, told, ended>>

\* A step cancelled before its first turn ends without having run.
StepDropped(s) ==
    /\ Turn /\ step[s] = "dropped"
    /\ step' = [step EXCEPT ![s] = "cancelled"]
    /\ phase' = Settle(phase, others, step', adopted)
    /\ UNCHANGED <<mode, pc, stop, failure, pending, adopted, waits, cancels,
                   others, parentVars, told, ended>>

\* Leftovers of a shutdown or of a failed start end, in their own time.
WorkEnds ==
    /\ Turn /\ phase = "stopping" /\ pc # "shutdown" /\ others
    /\ others' = FALSE
    /\ phase' = Settle(phase, FALSE, step, adopted)
    /\ UNCHANGED <<mode, pc, stop, failure, pending, step, adopted, waits,
                   cancels, parentVars, told, ended>>

-----------------------------------------------------------------------------
(* serve()                                                                 *)

\* _abandon_step up to its wait: nothing is pending from here on.
Abandon(s) ==
    /\ pc' = "abandon" /\ pending' = "none"
    /\ step' = [step EXCEPT ![s] = IF @ = "queued" THEN "dropped"
                                   ELSE IF @ = "run" THEN "asked" ELSE @]
    /\ waits' = [waits EXCEPT ![s] = @ + 1]

\* The stage serve() waits for, or abandons.
Current == IF step["readiness"] # "none" THEN "readiness" ELSE "startup"

\* A stop during a step.  The command line exits at once (abort_sync first).
StopExits(s) ==
    /\ pc = s /\ ended = "no" /\ Hard /\ Stopped /\ Undone(step[s])
    /\ pc' = "over" /\ ended' = "ok"
    /\ UNCHANGED <<mode, stop, failure, pending, step, adopted, waits, cancels,
                   serverVars, parentVars, told>>

StopAbandons(s) ==
    /\ pc = s /\ ~Hard /\ Stopped /\ Undone(step[s])
    /\ Abandon(s)
    /\ UNCHANGED <<mode, stop, failure, adopted, cancels, serverVars, parentVars,
                   told, ended>>

\* Mutant: a stop that came while the step ended is not looked at.
Passed_NoRecheck(s) == step[s] = "ok"

\* _run_until_stop returned True.
Passed(s) == step[s] = "ok" /\ ~Stopped

\* start() is done: the readiness step is the server's live work from creation.
Started ==
    /\ pc = "startup" /\ Passed("startup")
    /\ IF HasReady
       THEN /\ pc' = "readiness" /\ pending' = "readiness"
            /\ step' = [step EXCEPT !["readiness"] = "queued"]
            /\ adopted' = adopted \cup {"readiness"}
       ELSE pc' = "serving" /\ UNCHANGED <<pending, step, adopted>>
    /\ UNCHANGED <<mode, stop, failure, waits, cancels, serverVars, parentVars,
                   told, ended>>

\* publish_ready, in the same turn as the last look at the stop.
Publish ==
    /\ pc = "readiness" /\ Passed("readiness")
    /\ mode = "supervised" => heard
    /\ told' = Append(told, "ready") /\ pc' = "serving"
    /\ UNCHANGED <<mode, stop, failure, pending, step, adopted, waits, cancels,
                   serverVars, parentVars, ended>>

\* Nobody reads the event channel any more: emit() raises.
PublishFails ==
    /\ pc = "readiness" /\ Passed("readiness") /\ mode = "supervised" /\ ~heard
    /\ failure' = FirstOf("publish") /\ pc' = "finally"
    /\ UNCHANGED <<mode, stop, pending, step, adopted, waits, cancels, serverVars,
                   parentVars, told, ended>>

\* A step done although a stop came first, or the stop of a serving server.
Return ==
    /\ \/ pc \in Stages /\ step[pc] = "ok" /\ ~Passed(pc)
       \/ pc = "serving" /\ Stopped
    /\ pc' = "finally"
    /\ UNCHANGED <<mode, stop, failure, pending, step, adopted, waits, cancels,
                   serverVars, parentVars, told, ended>>

StepFailed ==
    /\ pc \in Stages /\ step[pc] = "failed"
    /\ failure' = FirstOf(pc) /\ pc' = "finally"
    /\ UNCHANGED <<mode, stop, pending, step, adopted, waits, cancels, serverVars,
                   parentVars, told, ended>>

\* The bounded wait is over: by the step's end, or by its timeout.  A step still
\* running stays the server's, if the server is in a state to take it.
Adoption(s) ==
    IF Undone(step[s]) /\ CanAdopt THEN adopted \cup {s} ELSE adopted

AbandonOver ==
    /\ pc = "abandon" /\ pc' = "finally"
    /\ adopted' = Adoption(Current)
    /\ UNCHANGED <<mode, stop, failure, pending, step, waits, cancels, serverVars,
                   parentVars, told, ended>>

InFlight == pending \in Stages /\ Undone(step[pending])

\* The outer finally settles a step still in flight ...
Settling ==
    /\ pc = "finally" /\ InFlight
    /\ Abandon(pending)
    /\ UNCHANGED <<mode, stop, failure, adopted, cancels, serverVars, parentVars,
                   told, ended>>

InFinally == pc = "finally" /\ ~InFlight

\* ... and then drains the server: a running one is waited for.
ShutdownRunning ==
    /\ InFinally /\ phase = "running"
    /\ pc' = "shutdown" /\ phase' = "stopping"
    /\ UNCHANGED <<mode, stop, failure, pending, step, adopted, waits, cancels,
                   others, parentVars, told, ended>>

\* shutdown() in any other phase returns at once.
ShutdownAtOnce ==
    /\ InFinally /\ phase # "running"
    /\ phase' = CASE phase = "new"      -> "stopped"
                  [] phase = "starting" -> "stopping"
                  [] OTHER              -> phase
    /\ Conclude(failure, LiveWork(others, step, adopted))
    /\ UNCHANGED <<mode, stop, failure, pending, step, adopted, waits, cancels,
                   others, parentVars>>

\* The drain ends within its bounds, with leftovers or without; it may raise.
ShutdownEnds ==
    /\ pc = "shutdown"
    /\ \E left \in BOOLEAN, raises \in BOOLEAN :
        /\ others' = left
        /\ phase' = Settle(phase, left, step, adopted)
        /\ failure' = IF raises THEN FirstOf("shutdown") ELSE failure
        /\ Conclude(failure', LiveWork(left, step, adopted))
    /\ UNCHANGED <<mode, stop, pending, step, adopted, waits, cancels, parentVars>>

\* The embedder cancels serve(); a cancelled "await stop" cancels the future.
Cancel ==
    /\ mode = "embedded" /\ cancels < MaxCancels
    /\ pc \in {"startup", "readiness", "serving", "abandon"}
    /\ cancels' = cancels + 1
    /\ failure' = FirstOf("cancel") /\ pc' = "finally"
    /\ stop' = IF pc = "serving" /\ stop = "no" THEN "cancelled" ELSE stop
    /\ adopted' = IF pc = "abandon" THEN Adoption(Current) ELSE adopted
    /\ UNCHANGED <<mode, pending, step, waits, serverVars, parentVars, told, ended>>

\* Cancelled inside shutdown(): the drain goes on as the server's own work.
CancelShutdown ==
    /\ mode = "embedded" /\ cancels < MaxCancels /\ pc = "shutdown"
    /\ cancels' = cancels + 1
    /\ failure' = FirstOf("cancel")
    /\ Conclude(failure', TRUE)
    /\ UNCHANGED <<mode, stop, pending, step, adopted, waits, serverVars, parentVars>>

-----------------------------------------------------------------------------
(* Stops: a signal, and the supervisor's pipe.                             *)

\* _request_stop from a signal handler; serve() removes the handlers at its end.
Signal ==
    /\ Turn /\ pc \notin {"rest", "boot", "over"} /\ stop = "no"
    /\ stop' = "set"
    /\ UNCHANGED <<mode, pc, failure, pending, step, adopted, waits, cancels,
                   serverVars, parentVars, told, ended>>

\* The supervisor closes our stdin, or dies, which also breaks the event pipe.
ParentCloses ==
    /\ mode = "supervised" /\ ended = "no" /\ stdin = "open"
    /\ stdin' = "eof" /\ heard' \in {heard, FALSE}
    /\ UNCHANGED <<mode, pc, stop, failure, pending, step, adopted, waits, cancels,
                   serverVars, told, ended>>

\* The watcher thread reads EOF and posts to the loop, unless that is closed.
WatchEof ==
    /\ stdin = "eof" /\ ended = "no" /\ pc \notin {"boot", "over"}
    /\ stdin' = "posted"
    /\ UNCHANGED <<mode, pc, stop, failure, pending, step, adopted, waits, cancels,
                   serverVars, heard, told, ended>>

StdinStop ==
    /\ Turn /\ ended = "no" /\ stdin = "posted"
    /\ stdin' = "done" /\ stop' = IF stop = "no" THEN "set" ELSE stop
    /\ UNCHANGED <<mode, pc, failure, pending, step, adopted, waits, cancels,
                   serverVars, heard, told, ended>>

-----------------------------------------------------------------------------
OwnNext ==
    \/ Boot \/ Finish \/ Started \/ Publish \/ PublishFails \/ Return \/ StepFailed
    \/ AbandonOver \/ Settling \/ ShutdownRunning \/ ShutdownAtOnce \/ ShutdownEnds
    \/ WatchEof \/ StdinStop
    \/ \E s \in Stages : StepBegins(s) \/ StepDropped(s) \/ StopExits(s) \/ StopAbandons(s)

EnvNext ==
    \/ Refused \/ StartupSucceeds \/ StartupEnds \/ ReadinessEnds \/ WorkEnds
    \/ Cancel \/ CancelShutdown \/ Signal \/ ParentCloses

Next == OwnNext \/ EnvNext

Spec == Init /\ [][Next]_vars

\* serve()'s own turns, its timers, the shutdown (bounded: Lifecycle shows it)
\* and the watcher thread go on.  Nothing is assumed of the model load, the
\* warm-up decode or work that outlived its bound: they may hang for ever.
Fairness ==
    /\ WF_vars(Boot) /\ WF_vars(Finish)
    /\ WF_vars(Started) /\ WF_vars(Publish \/ PublishFails) /\ WF_vars(Return)
    /\ WF_vars(StepFailed) /\ WF_vars(AbandonOver)
    /\ WF_vars(Settling) /\ WF_vars(ShutdownRunning \/ ShutdownAtOnce)
    /\ WF_vars(ShutdownEnds) /\ WF_vars(WatchEof) /\ WF_vars(StdinStop)
    /\ \A s \in Stages : WF_vars(StepBegins(s)) /\ WF_vars(StepDropped(s))
                         /\ WF_vars(StopExits(s) \/ StopAbandons(s))

FairSpec == Spec /\ Fairness

-----------------------------------------------------------------------------
(* Properties.                                                             *)

\* A task that can touch the backend or the socket runs only while the server
\* holds its lock: a step abandoned after its bounded wait included.
LockCoversStep ==
    Alive => \A s \in Stages : step[s] \in {"run", "asked"} => CanAdopt

\* However serve() is left, and however often it is cancelled meanwhile, a step
\* is waited for at most once: the exit takes one drain timeout for it, not two.
OneBoundedWait == \A s \in Stages : waits[s] <= 1

\* "ready", failures and the end, as the starter of serve() sees them.
Contract == INSTANCE ServeContract WITH asked <- Stopped, cause <- failure
ImplementsContract == Contract!ContractSpec

\* A requested stop, a supervisor that closed its pipe, and a failure all end
\* serve(), whatever the model load, the warm-up or leftover work do.
StopHonoured ==
    (Stopped \/ stdin # "open" \/ failure # "none") ~> ended # "no"

\* The server inside only does what ServerContract says.
Server == INSTANCE ServerContract WITH
    held <- CanAdopt, busy <- LiveWork(others, step, adopted)
ServerKeepsContract == Server!ContractSpec

=============================================================================
