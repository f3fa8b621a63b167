-------------------------------- MODULE Smoke --------------------------------
(***************************************************************************)
(* The launchd harness (scripts/smoke_launchd.py, on the helpers of        *)
(* scripts/_smoke_lib.py): three checks that install a spare agent five    *)
(* times and send it a token, and the teardown that removes it.  The       *)
(* signals that reach the harness meanwhile, the installer it runs in a    *)
(* process group of its own and cannot always show stopped (its steps here *)
(* abridged from Agent), launchd (external) and another process that takes *)
(* the spare port, perhaps with the pid of a dead server.                  *)
(*                                                                         *)
(* One run that passed its guards: a refused run is no step, and SIGKILL   *)
(* ends a run.                                                             *)
(***************************************************************************)
EXTENDS Naturals

CONSTANTS
    Pids,         \* process ids of the spare's servers and of the squatter
    MaxSpawns,    \* bound: processes launchd starts for one load of the job
    LateSignals   \* a signal may arrive before a verdict "not stopped" is raised

ASSUME SmokeAssumption ==
    /\ Pids \subseteq Nat \ {0}
    /\ MaxSpawns \in Nat
    /\ LateSignals \in BOOLEAN

VARIABLES
    spare,      \* the definition in the spare's plist
    service,    \* launchd's job of the spare label
    main, ran,  \* the pid of the job's server, and launchd's spawn counter
    spareSock, spareLock,   \* the spare socket and its .lock are there
    made,       \* directories made for the socket and the token
    squatter,   \* the pid of another process listening on the spare port
    calls,      \* "own": the installer being run; "stray": one not shown stopped
    stand,      \* where the harness stands; "still": no harness is ever run
    leg,        \* the install of Legs it is at; 6: the teardown
    tearing,    \* state["tearing_down"]
    held,       \* run_owned holds a signal
    ending,     \* how the last installer call ended
    recorded,   \* harness.installer_not_stopped
    holder,     \* the harness listens on the spare port
    flocked,    \* the harness holds the spare's .lock
    ident,      \* token check: the identity (pid, runs) it goes by
    conn,       \* ... whose process has the server end of its connection
    tries,      \* ... requests sent
    sent,       \* history: the processes a request with a token went to
    problems, reported      \* the teardown row

diskOfSpare == <<spare, spareSock, spareLock, made>>
jobVars == <<service, main, ran>>
worldVars == <<diskOfSpare, jobVars, squatter>>
gateVars == <<ident, conn, tries, sent>>
signalVars == <<tearing, held>>
callVars == <<calls, ending, recorded>>
verdictVars == <<problems, reported>>
smokeVars == <<worldVars, callVars, stand, leg, signalVars, holder, flocked, gateVars,
               verdictVars>>

-----------------------------------------------------------------------------
\* The installs of the three checks: port collision; socket rollback, there and
\* back; token file.
Legs == <<"tcp", "tcp", "unix", "tcp", "token">>
Transports == {"tcp", "unix", "token"}

NoService == [state |-> "gone", def |-> "none"]
Services == [state : {"loaded", "leaving"}, def : Transports] \cup {NoService}

NoCall == [doing |-> "none", want |-> "none", old |-> FALSE, clean |-> TRUE]
AtWork == {"render", "write", "bootout", "unload", "bootstrap", "clean", "kickstart",
           "un_bootout", "un_remove", "un_unload"}
Calls == [doing : AtWork \cup {"none", "exited"}, want : Transports \cup {"none"},
          old : BOOLEAN, clean : BOOLEAN]
Installers == {"own", "stray"}

\* conn and sent: the spare's n-th process is n.
Foreign == MaxSpawns + 1

GateStands == {"identify", "connect", "verify", "reread", "send", "confirm"}
CheckStands == {"boundary", "prepare", "install", "calling", "verdict", "observe", "answer"}
               \cup GateStands
Stands == CheckStands \cup {"still", "arm", "switch", "teardown", "lock", "unlink", "files",
                            "look", "residue", "done"}

SmokeTypeOK ==
    /\ spare \in Transports \cup {"none", "bad"}
    /\ service \in Services /\ main \in Pids \cup {0} /\ ran \in 0 .. MaxSpawns
    /\ spareSock \in BOOLEAN /\ spareLock \in BOOLEAN /\ made \subseteq {"socket", "token"}
    /\ squatter \in Pids \cup {0}
    /\ calls \in [Installers -> Calls]
    /\ stand \in Stands /\ leg \in 1 .. 6
    /\ tearing \in BOOLEAN /\ held \in BOOLEAN
    /\ ending \in {"none", "ok", "failed", "unstopped"}
    /\ recorded \in BOOLEAN /\ holder \in BOOLEAN /\ flocked \in BOOLEAN
    /\ ident \in [pid : Pids \cup {0}, runs : 0 .. MaxSpawns]
    /\ conn \in 0 .. Foreign /\ sent \subseteq 0 .. Foreign /\ tries \in 0 .. 3
    /\ problems \in BOOLEAN /\ reported \in {"nothing", "clean", "left", "frozen"}

SmokeStart(where) ==
    /\ spare = "none" /\ service = NoService /\ main = 0 /\ ran = 0
    /\ spareSock = FALSE /\ spareLock = FALSE /\ made = {} /\ squatter = 0
    /\ calls = [w \in Installers |-> NoCall]
    /\ stand = where /\ leg = 1 /\ tearing = FALSE /\ held = FALSE
    /\ ending = "none" /\ recorded = FALSE /\ holder = FALSE /\ flocked = FALSE
    /\ ident = [pid |-> 0, runs |-> 0] /\ conn = 0 /\ tries = 0 /\ sent = {}
    /\ problems = FALSE /\ reported = "nothing"

\* _locked_main: the port is free, and nothing of the spare is there.
SmokeInit == SmokeStart("arm")
SmokeRest == SmokeStart("still")

-----------------------------------------------------------------------------
(* launchd, the spare's server and the squatter (external).                *)

OnTcp == service.def \in {"tcp", "token"}
PortFree == ~holder /\ squatter = 0 /\ ~(main # 0 /\ OnTcp)

\* The server's flock on <socket>.lock.
SpareLocked == main # 0 /\ service.def = "unix"

\* KeepAlive; one that cannot have its port, its lock or its token exits at once.
SpareSpawns(p) ==
    /\ service.state = "loaded" /\ main = 0 /\ ran < MaxSpawns /\ p # squatter
    /\ ran' = ran + 1
    /\ IF \/ service.def = "unix" /\ ~flocked
          \/ service.def = "tcp" /\ PortFree
          \/ service.def = "token" /\ PortFree /\ "token" \in made
       THEN /\ main' = p
            /\ spareSock' = (spareSock \/ service.def = "unix")
            /\ spareLock' = (spareLock \/ service.def = "unix")
       ELSE UNCHANGED <<main, spareSock, spareLock>>
    /\ UNCHANGED <<spare, service, made, squatter, callVars, stand, leg, signalVars, holder,
                   flocked, gateVars, verdictVars>>

\* A clean stop unlinks the socket, a crash does not.
SpareEnds ==
    /\ main # 0 /\ main' = 0
    /\ spareSock' \in {spareSock, spareSock /\ service.def # "unix"}
    /\ UNCHANGED <<spare, service, ran, spareLock, made, squatter, callVars, stand, leg,
                   signalVars, holder, flocked, gateVars, verdictVars>>

SpareLeaves ==
    /\ service.state = "leaving" /\ main = 0
    /\ service' = NoService
    /\ UNCHANGED <<diskOfSpare, main, ran, squatter, callVars, stand, leg, signalVars, holder,
                   flocked, gateVars, verdictVars>>

SquatterComes(p) ==
    /\ PortFree /\ p # main /\ stand # "still"
    /\ squatter' = p
    /\ UNCHANGED <<diskOfSpare, jobVars, callVars, stand, leg, signalVars, holder, flocked,
                   gateVars, verdictVars>>

SquatterGoes ==
    /\ squatter # 0
    /\ squatter' = 0
    /\ conn' = IF conn = Foreign THEN 0 ELSE conn
    /\ UNCHANGED <<diskOfSpare, jobVars, callVars, stand, leg, signalVars, holder, flocked,
                   ident, tries, sent, verdictVars>>

-----------------------------------------------------------------------------
(* The installer, w = "own" or "stray".                                    *)

Advance(w, to) == calls' = [calls EXCEPT ![w].doing = to]
AdvanceIf(w, to, fine) ==      \* with a warning, unless fine
    calls' = [calls EXCEPT ![w] = [@ EXCEPT !.doing = to, !.clean = @ /\ fine]]
ExitUnclean(w) == calls' = [calls EXCEPT ![w].doing = "exited", ![w].clean = FALSE]

InstallerOnly == UNCHANGED <<main, made, squatter, ending, recorded, stand, leg, signalVars,
                             holder, flocked, gateVars, verdictVars>>

\* Refused over an unreadable plist, or from a token to none; else the renderer
\* truncates the plist.
InstallRenders(w) ==
    /\ calls[w].doing = "render"
    /\ IF spare = "bad" \/ (spare = "token" /\ calls[w].want = "tcp")
       THEN ExitUnclean(w) /\ UNCHANGED spare
       ELSE /\ spare' = "bad"
            /\ calls' = [calls EXCEPT ![w].doing = "write", ![w].old = (spare = "unix")]
    /\ UNCHANGED <<service, ran, spareSock, spareLock>> /\ InstallerOnly

InstallWrites(w) ==
    /\ calls[w].doing = "write"
    /\ spare' = calls[w].want /\ Advance(w, "bootout")
    /\ UNCHANGED <<service, ran, spareSock, spareLock>> /\ InstallerOnly

BootsOut(w) ==
    /\ calls[w].doing \in {"bootout", "un_bootout"}
    /\ service' = IF service.state = "loaded" THEN [service EXCEPT !.state = "leaving"]
                  ELSE service
    /\ Advance(w, IF calls[w].doing = "bootout" THEN "unload" ELSE "un_remove")
    /\ UNCHANGED <<spare, ran, spareSock, spareLock>> /\ InstallerOnly

\* wait_unloaded: gone, or a warning at the cap.
AwaitsUnload(w) ==
    /\ calls[w].doing = "unload"
    /\ AdvanceIf(w, "bootstrap", service = NoService)
    /\ UNCHANGED <<spare, service, ran, spareSock, spareLock>> /\ InstallerOnly

Bootstraps(w) ==
    /\ calls[w].doing = "bootstrap" /\ service = NoService /\ spare \in Transports
    /\ service' = [state |-> "loaded", def |-> spare] /\ ran' = 0
    /\ Advance(w, "clean")
    /\ UNCHANGED <<spare, spareSock, spareLock>> /\ InstallerOnly

\* The old socket goes, unless its lock is held, or might be (a warning).
CleansUp(w) ==
    /\ calls[w].doing = "clean"
    /\ LET retire == calls[w].old /\ calls[w].want # "unix" IN
        \E free \in {~SpareLocked, FALSE} :
            /\ spareSock' = (spareSock /\ ~(retire /\ free))
            /\ AdvanceIf(w, "kickstart", retire => free)
    /\ UNCHANGED <<spare, service, ran, spareLock>> /\ InstallerOnly

\* kickstart -k kills its server; launchd starts another.
Kickstarts(w) ==
    /\ calls[w].doing = "kickstart"
    /\ main' = 0 /\ spareSock' \in {spareSock, spareSock /\ ~SpareLocked}
    /\ Advance(w, "exited")
    /\ UNCHANGED <<spare, service, ran, spareLock, made, squatter, ending, recorded, stand,
                   leg, signalVars, holder, flocked, gateVars, verdictVars>>

UninstallRemoves(w) ==
    /\ calls[w].doing = "un_remove"
    /\ spare' = "none" /\ Advance(w, "un_unload")
    /\ UNCHANGED <<service, ran, spareSock, spareLock>> /\ InstallerOnly

UninstallEnds(w) ==
    /\ calls[w].doing = "un_unload"
    /\ IF service = NoService
       THEN /\ spareSock' = (spareSock /\ ~calls[w].old)
            /\ Advance(w, "exited")
       ELSE ExitUnclean(w) /\ UNCHANGED spareSock
    /\ UNCHANGED <<spare, service, ran, spareLock>> /\ InstallerOnly

\* One of its commands fails (set -e).
InstallerFails(w) ==
    /\ calls[w].doing \in AtWork
    /\ ExitUnclean(w)
    /\ UNCHANGED <<spare, service, ran, spareSock, spareLock>> /\ InstallerOnly

InstallerSteps(w) ==
    \/ InstallRenders(w) \/ InstallWrites(w) \/ BootsOut(w) \/ AwaitsUnload(w)
    \/ Bootstraps(w) \/ CleansUp(w) \/ Kickstarts(w)
    \/ UninstallRemoves(w) \/ UninstallEnds(w) \/ InstallerFails(w)

-----------------------------------------------------------------------------
(* The harness: its signals and its installer calls.                       *)

\* A check ends: run_checks goes on with the next one, ...
NextCheck ==
    /\ holder' = FALSE /\ conn' = 0
    /\ stand' = IF leg = 5 THEN "switch" ELSE "boundary"
    /\ leg' = CASE leg = 1 -> 2 [] leg \in {2, 3, 4} -> 5 [] OTHER -> leg

\* ... or, after a STOP_CHECKS exception or a KeyboardInterrupt, with no other.
StopChecks == holder' = FALSE /\ conn' = 0 /\ stand' = "switch" /\ leg' = leg

\* Mutant: the handler raises for every signal.
Interrupted_Again ==
    /\ stand \in (CheckStands \ {"calling"}) \cup {"switch"} /\ leg # 6
    /\ (stand = "verdict" /\ ending = "unstopped") => LateSignals
    /\ tearing' = TRUE
    /\ IF tearing
       THEN stand' = "done" /\ UNCHANGED <<holder, conn, leg>>
       ELSE StopChecks
    /\ held' = FALSE
    /\ UNCHANGED <<worldVars, callVars, flocked, ident, tries, sent, verdictVars>>

\* on_signal raises for the first signal, anywhere in the checks or before the
\* switch; later ones are nothing.  While run_owned's verdict is on its way to
\* the one who records it, its handlers are back.
Interrupted ==
    /\ stand \in (CheckStands \ {"calling"}) \cup {"switch"} /\ leg # 6 /\ ~tearing
    /\ (stand = "verdict" /\ ending = "unstopped") => LateSignals
    /\ tearing' = TRUE /\ held' = FALSE /\ StopChecks
    /\ UNCHANGED <<worldVars, callVars, flocked, ident, tries, sent, verdictVars>>

\* held_signals: during an installer call the first one is kept for later.
SignalHeld ==
    /\ stand = "calling" /\ ~held
    /\ held' = TRUE
    /\ UNCHANGED <<worldVars, callVars, stand, leg, tearing, holder, flocked, gateVars,
                   verdictVars>>

\* Before both handlers are on, a signal ends the run or starts the teardown.
InterruptedEarly ==
    /\ stand = "arm" /\ stand' \in {"done", "switch"}
    /\ UNCHANGED <<worldVars, callVars, leg, signalVars, holder, flocked, gateVars,
                   verdictVars>>

Arm ==
    /\ stand = "arm" /\ stand' = "boundary"
    /\ UNCHANGED <<worldVars, callVars, leg, signalVars, holder, flocked, gateVars,
                   verdictVars>>

Installing(want) ==
    calls' = [calls EXCEPT !["own"] = [NoCall EXCEPT !.doing = "render", !.want = want]]

\* run_installer refuses after a verdict "not stopped".
CallInstaller ==
    /\ stand = "install" /\ ~recorded
    /\ Installing(Legs[leg]) /\ stand' = "calling"
    /\ UNCHANGED <<worldVars, ending, recorded, leg, signalVars, holder, flocked, gateVars,
                   verdictVars>>

\* run_owned: the installer exited, ran out of time, could not be watched or (an
\* install) a signal is held.  Its group is killed, then its leader reaped.
GroupStopped ==
    /\ stand = "calling" /\ stand' = "verdict"
    /\ ending' = IF calls["own"].doing = "exited" /\ calls["own"].clean THEN "ok"
                 ELSE "failed"
    /\ calls' = [calls EXCEPT !["own"] = NoCall]
    /\ UNCHANGED <<worldVars, recorded, leg, signalVars, holder, flocked, gateVars,
                   verdictVars>>

\* Or one of the two did not work (once in a run): GroupNotStopped.
GroupNotStopped ==
    /\ stand = "calling" /\ calls["stray"] = NoCall
    /\ stand' = "verdict" /\ ending' = "unstopped"
    /\ calls' = [calls EXCEPT !["own"] = NoCall, !["stray"] = calls["own"]]
    /\ UNCHANGED <<worldVars, recorded, leg, signalVars, holder, flocked, gateVars,
                   verdictVars>>

\* redeliver: on_signal raises, for an install; in the teardown it does nothing.
Redelivered ==
    /\ stand = "verdict" /\ ending # "unstopped" /\ held /\ ~tearing
    /\ held' = FALSE /\ tearing' = TRUE /\ StopChecks
    /\ UNCHANGED <<worldVars, callVars, flocked, ident, tries, sent, verdictVars>>

CallReturns ==
    /\ stand = "verdict" /\ leg # 6 /\ ending # "unstopped" /\ ~held
    /\ IF ending = "ok"
       THEN /\ stand' = IF leg = 1 THEN "observe" ELSE "answer"
            /\ UNCHANGED <<leg, holder, conn>>
       ELSE NextCheck
    /\ UNCHANGED <<worldVars, callVars, signalVars, flocked, ident, tries, sent, verdictVars>>

\* Mutant: an interrupt that arrived during the call hides the verdict.
InstallerNotStopped_Hidden ==
    /\ stand = "verdict" /\ leg # 6 /\ ending = "unstopped"
    /\ recorded' = ~held
    /\ held' = FALSE /\ tearing' = (tearing \/ held) /\ StopChecks
    /\ UNCHANGED <<worldVars, calls, ending, flocked, ident, tries, sent, verdictVars>>

\* The verdict is recorded, whatever signal was held.
InstallerNotStopped ==
    /\ stand = "verdict" /\ leg # 6 /\ ending = "unstopped"
    /\ recorded' = TRUE
    /\ held' = FALSE /\ tearing' = (tearing \/ held) /\ StopChecks
    /\ UNCHANGED <<worldVars, calls, ending, flocked, ident, tries, sent, verdictVars>>

-----------------------------------------------------------------------------
(* The checks.                                                             *)

\* The real agents are as they were (not modelled), nobody else has the port.
Boundary ==
    /\ stand = "boundary"
    /\ \/ /\ leg = 1 \/ squatter = 0
          /\ stand' = "prepare" /\ UNCHANGED <<leg, holder, conn>>
       \/ StopChecks
    /\ UNCHANGED <<worldVars, callVars, signalVars, flocked, ident, tries, sent, verdictVars>>

\* The harness takes the port itself; makes the socket's directory; the token's.
Prepare ==
    /\ stand = "prepare"
    /\ \/ /\ leg = 1 /\ PortFree
          /\ holder' = TRUE /\ stand' = "install" /\ UNCHANGED <<made, leg, conn>>
       \/ /\ leg = 1 /\ ~PortFree /\ StopChecks /\ UNCHANGED made
       \/ /\ leg # 1 /\ stand' = "install" /\ UNCHANGED <<leg, holder, conn>>
          /\ made' = made \cup {IF leg = 2 THEN "socket" ELSE "token"}
       \/ leg # 1 /\ NextCheck /\ UNCHANGED made
    /\ UNCHANGED <<spare, spareSock, spareLock, jobVars, squatter, callVars, signalVars,
                   flocked, ident, tries, sent, verdictVars>>

\* Collision: the job was started twice in vain; then the port is let go.
Observe ==
    /\ stand = "observe"
    /\ \/ ran >= 2 /\ holder' = FALSE /\ stand' = "answer" /\ UNCHANGED <<leg, conn>>
       \/ NextCheck
       \/ StopChecks
    /\ UNCHANGED <<worldVars, callVars, signalVars, flocked, ident, tries, sent, verdictVars>>

\* The spare's own server answers (the token leg waits for anyone's 401); or a
\* check is over, passed or failed.
Answer ==
    /\ stand = "answer"
    /\ \/ /\ leg \in {2, 3} /\ main # 0 /\ service.def = Legs[leg]
          /\ leg' = leg + 1 /\ stand' = "install" /\ UNCHANGED <<holder, conn>>
       \/ /\ leg = 5 /\ (main # 0 \/ squatter # 0)
          /\ stand' = "identify" /\ UNCHANGED <<leg, holder, conn>>
       \/ NextCheck
       \/ StopChecks
    /\ UNCHANGED <<worldVars, callVars, signalVars, flocked, ident, tries, sent, verdictVars>>

\* running_identity: the pid and the spawn counter, from one read.
Identify ==
    /\ stand = "identify"
    /\ IF main # 0
       THEN /\ ident' = [pid |-> main, runs |-> ran] /\ tries' = 0
            /\ stand' = "connect" /\ UNCHANGED <<leg, holder, conn>>
       ELSE NextCheck /\ UNCHANGED <<ident, tries>>
    /\ UNCHANGED <<worldVars, callVars, signalVars, flocked, sent, verdictVars>>

\* connect_verified: a connection, nothing sent; ...
Dial ==
    /\ stand = "connect"
    /\ \/ main # 0 /\ conn' = ran /\ stand' = "verify" /\ UNCHANGED <<leg, holder>>
       \/ squatter # 0 /\ conn' = Foreign /\ stand' = "verify" /\ UNCHANGED <<leg, holder>>
       \/ NextCheck
    /\ UNCHANGED <<worldVars, callVars, signalVars, flocked, ident, tries, sent, verdictVars>>

\* The pid lsof finds at its server end.
ServerEnd ==
    IF conn = Foreign THEN squatter ELSE IF conn = ran THEN main ELSE 0

\* Mutant: lsof is asked, and the job's print is not read again.
Verify_Once ==
    /\ stand = "verify"
    /\ IF ServerEnd = ident.pid
       THEN stand' = "send" /\ UNCHANGED <<leg, holder, conn>>
       ELSE NextCheck
    /\ UNCHANGED <<worldVars, callVars, signalVars, flocked, ident, tries, sent, verdictVars>>

\* ... its server end is held by the pid that was read; ...
Verify ==
    /\ stand = "verify"
    /\ IF ServerEnd = ident.pid
       THEN stand' = "reread" /\ UNCHANGED <<leg, holder, conn>>
       ELSE NextCheck
    /\ UNCHANGED <<worldVars, callVars, signalVars, flocked, ident, tries, sent, verdictVars>>

\* ... and the job, read afresh, still has that pid and counter.
Reread ==
    /\ stand = "reread"
    /\ IF main # 0 /\ ident = [pid |-> main, runs |-> ran]
       THEN stand' = "send" /\ UNCHANGED <<leg, holder, conn>>
       ELSE NextCheck
    /\ UNCHANGED <<worldVars, callVars, signalVars, flocked, ident, tries, sent, verdictVars>>

\* No token, nearly the token, the token: each on a connection of its own.
Send ==
    /\ stand = "send"
    /\ sent' = IF tries = 0 THEN sent ELSE sent \cup {conn}
    /\ tries' = tries + 1
    /\ \/ stand' = (IF tries = 2 THEN "confirm" ELSE "connect")
          /\ conn' = 0 /\ UNCHANGED <<leg, holder>>
       \/ NextCheck
    /\ UNCHANGED <<worldVars, callVars, signalVars, flocked, ident, verdictVars>>

\* confirm_identity_unchanged: the row passes, or not.
Confirm ==
    /\ stand = "confirm" /\ NextCheck
    /\ UNCHANGED <<worldVars, callVars, signalVars, flocked, ident, tries, sent, verdictVars>>

-----------------------------------------------------------------------------
(* The teardown.                                                           *)

Onward(from, to) == stand = from /\ stand' = to

\* begin_teardown: from here on no signal does anything.
BeginTeardown ==
    /\ Onward("switch", "teardown") /\ tearing' = TRUE
    /\ UNCHANGED <<worldVars, callVars, leg, held, holder, flocked, gateVars, verdictVars>>

\* Mutant: a recorded verdict does not stop the uninstall.
Teardown_Anyway ==
    /\ stand = "teardown"
    /\ holder' = FALSE /\ leg' = 6 /\ stand' = "calling"
    /\ calls' = [calls EXCEPT !["own"] =
                    [doing |-> "un_bootout", want |-> "none", old |-> (spare = "unix"),
                     clean |-> (spare # "bad")]]
    /\ UNCHANGED <<worldVars, ending, recorded, signalVars, flocked, gateVars, verdictVars>>

\* The uninstall, which warns of a plist it cannot read.
Teardown ==
    /\ stand = "teardown" /\ ~recorded
    /\ holder' = FALSE /\ leg' = 6 /\ stand' = "calling"
    /\ calls' = [calls EXCEPT !["own"] =
                    [doing |-> "un_bootout", want |-> "none", old |-> (spare = "unix"),
                     clean |-> (spare # "bad")]]
    /\ UNCHANGED <<worldVars, ending, recorded, signalVars, flocked, gateVars, verdictVars>>

\* frozen_teardown: an installer may still be running, so it only reads.
FrozenTeardown ==
    /\ \/ stand = "teardown" /\ recorded
       \/ stand = "verdict" /\ leg = 6 /\ ending = "unstopped"
    /\ holder' = FALSE /\ held' = FALSE
    /\ recorded' = TRUE /\ reported' = "frozen" /\ stand' = "done"
    /\ UNCHANGED <<worldVars, calls, ending, leg, tearing, flocked, gateVars, problems>>

UninstallReturns ==
    /\ Onward("verdict", "lock") /\ leg = 6 /\ ending # "unstopped"
    /\ held' = FALSE /\ problems' = (ending = "failed")
    /\ UNCHANGED <<worldVars, callVars, leg, tearing, holder, flocked, gateVars, reported>>

\* remove_spare_socket.
NoSocket ==
    /\ Onward("lock", "files") /\ ~spareSock /\ ~spareLock
    /\ UNCHANGED <<worldVars, callVars, leg, signalVars, holder, flocked, gateVars,
                   verdictVars>>

\* Mutant: the lock is looked at, not taken.
TakeLock_Look ==
    /\ Onward("lock", "unlink") /\ spareLock /\ ~SpareLocked
    /\ UNCHANGED <<worldVars, callVars, leg, signalVars, holder, flocked, gateVars,
                   verdictVars>>

\* Only under the lock every server of that socket takes first.
TakeLock ==
    /\ Onward("lock", "unlink") /\ spareLock /\ ~SpareLocked
    /\ flocked' = TRUE
    /\ UNCHANGED <<worldVars, callVars, leg, signalVars, holder, gateVars, verdictVars>>

\* A lock that is held, or cannot be opened, or is not there, is a problem.
LeaveSocket ==
    /\ Onward("lock", "files") /\ (spareSock \/ spareLock)
    /\ problems' = TRUE
    /\ UNCHANGED <<worldVars, callVars, leg, signalVars, holder, flocked, gateVars, reported>>

UnlinkSocket ==
    /\ Onward("unlink", "files")
    /\ spareSock' = FALSE /\ spareLock' = FALSE /\ flocked' = FALSE
    /\ UNCHANGED <<spare, made, jobVars, squatter, callVars, leg, signalVars, holder, gateVars,
                   verdictVars>>

\* The directories, the plist, the logs; what cannot be removed is a problem.
RemoveFiles ==
    /\ Onward("files", "look")
    /\ \/ spare' = "none" /\ made' = {} /\ UNCHANGED problems
       \/ spare' \in {spare, "none"} /\ made' \in SUBSET made /\ problems' = TRUE
    /\ UNCHANGED <<spareSock, spareLock, jobVars, squatter, callVars, leg, signalVars, holder,
                   flocked, gateVars, reported>>

\* Still loaded, or launchd's state cannot be read: a problem.
Look ==
    /\ Onward("look", "residue")
    /\ problems' \in {problems \/ service # NoService, TRUE}
    /\ UNCHANGED <<worldVars, callVars, leg, signalVars, holder, flocked, gateVars, reported>>

\* What is left behind is one, too.
Residue ==
    /\ Onward("residue", "done")
    /\ reported' = IF problems \/ spare # "none" \/ spareSock \/ spareLock \/ made # {}
                   THEN "left" ELSE "clean"
    /\ UNCHANGED <<worldVars, callVars, leg, signalVars, holder, flocked, gateVars, problems>>

-----------------------------------------------------------------------------
HarnessSteps ==
    \/ Arm \/ CallInstaller \/ GroupStopped \/ Redelivered \/ CallReturns
    \/ InstallerNotStopped \/ Boundary \/ Prepare \/ Observe \/ Answer
    \/ Identify \/ Dial \/ Verify \/ Reread \/ Send \/ Confirm
    \/ BeginTeardown \/ Teardown \/ FrozenTeardown \/ UninstallReturns
    \/ NoSocket \/ TakeLock \/ LeaveSocket \/ UnlinkSocket \/ RemoveFiles \/ Look \/ Residue

Signals == Interrupted \/ SignalHeld \/ InterruptedEarly

World ==
    \/ \E p \in Pids : SpareSpawns(p) \/ SquatterComes(p)
    \/ SpareEnds \/ SpareLeaves \/ SquatterGoes

SmokeNext ==
    \/ HarnessSteps \/ GroupNotStopped \/ Signals \/ World
    \/ \E w \in Installers : InstallerSteps(w)

\* The harness's own waits are all bounded.
SmokeFairness == WF_smokeVars(HarnessSteps)

SmokeSpec == SmokeInit /\ [][SmokeNext]_smokeVars /\ SmokeFairness

-----------------------------------------------------------------------------
(* Properties.                                                             *)

\* A teardown row that passes is true: nothing of the spare is left, on disk, in
\* launchd or on the port, and no installer that could bring it back; whatever
\* signal, timeout, failed check or half-done install came before.
SpareAsReported ==
    reported = "clean" =>
        /\ spare = "none" /\ service = NoService /\ main = 0
        /\ ~spareSock /\ ~spareLock /\ made = {}
        /\ ~holder /\ ~flocked /\ \A w \in Installers : calls[w] = NoCall

\* From the moment an installer call could not be shown stopped, the harness runs
\* no other, and changes nothing of the spare ("no installer ever runs beside one
\* that may still be running").
HandsOff ==
    [][calls["stray"] # NoCall =>
        /\ calls'["own"] = NoCall
        /\ stand' # stand =>
            UNCHANGED <<spare, spareSock, spareLock, made, service, main>>]_smokeVars

\* The token, and the one nearly the token, reach no process but the one that was
\* read as the spare job's: not its successor, nor another with its pid.
TokenToSpareOnly == sent \subseteq {ident.runs}

\* No live server of the spare loses its socket or lock file, to the installer or
\* to the teardown.
SpareSocketKept == SpareLocked => spareSock /\ spareLock

\* Once it has called the installer, every run reports its teardown, however many
\* signals arrive and wherever.
EveryRunReports == (stand = "calling") ~> (reported # "nothing")

=============================================================================
