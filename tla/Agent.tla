-------------------------------- MODULE Agent --------------------------------
(***************************************************************************)
(* The launch agent: scripts/install_stt_agent.sh (with render_stt_plist.py*)
(* and read_stt_plist.py) run by hand, killed anywhere and run again;      *)
(* launchd (external), which keeps the job's server running and reloads    *)
(* the plist at login; the server's own checks of its token file and       *)
(* socket directory at every start; servers started by hand on the same    *)
(* socket; and whom a running server lets in.                              *)
(*                                                                         *)
(* The label is the default one.  An install or uninstall that is refused  *)
(* before its first change is no step.                                     *)
(***************************************************************************)
EXTENDS Naturals

CONSTANTS
    Sockets,      \* socket paths
    MaxScripts,   \* bound: installs and uninstalls
    MaxEdits      \* bound: edits of the token file and the socket directories

ASSUME AgentAssumption == {"tcp", "none", "bad"} \cap Sockets = {}

VARIABLES
    plist,      \* the definition in the installed plist
    job,        \* launchd's job: loaded or not, and the definition it was loaded with
    proc,       \* the job's server: where it listens, its token, whether it locks
    socks,      \* the socket files
    dirs,       \* the directory chain of each socket
    file,       \* the token file: the token in it, "empty", or in others' reach
    manual,     \* the sockets servers started by hand hold
    legacy,     \* an agent of the old default label is there
    script,     \* where the script stands; "rest": no agent is ever touched
    wanted,     \* install: what is asked for
    oldSocket,  \* the socket of the plist it found
    oldGone,    \* old_gone: the old job was seen gone
    said,       \* history: how the last script ended, if it ended well
    secured,    \* history: the agent has a token since then
    scripts, edits

diskVars == <<plist, socks, dirs, file>>
launchdVars == <<job, proc>>
scriptVars == <<script, wanted, oldSocket, oldGone, said>>
boundVars == <<scripts, edits>>
agentVars == <<diskVars, launchdVars, manual, legacy, scriptVars, secured, boundVars>>

-----------------------------------------------------------------------------
NoDef   == [to |-> "none", auth |-> "none"]
\* A plist that is there but cannot be read: cut off, or not a definition.
BadDef  == [to |-> "bad", auth |-> "none"]
OpenTcp == [to |-> "tcp", auth |-> "none"]
Defs    == [to : Sockets \cup {"tcp"}, auth : {"none", "file", "env"}]

\* What the environment of an install can ask for; plists with a token in their
\* environment are older than 0.5.0.
Wants  == [to : Sockets, auth : {"none"}] \cup [to : {"tcp"}, auth : {"none", "file"}]
Tokens == {"t1", "t2"}
FileStates == Tokens \cup {"empty", "shared"}

NoProc  == [to |-> "none", token |-> "none", locks |-> FALSE]
JobServers == [to : Sockets \cup {"tcp"}, token : Tokens \cup {"none", "env"},
               locks : BOOLEAN]
Up      == proc # NoProc
Gone    == [state |-> "gone", def |-> NoDef]
Loaded(d) == [state |-> "loaded", def |-> d]
Jobs    == [state : {"loaded", "leaving"}, def : Defs] \cup {Gone}

\* The single-server lock of a socket, and whether anybody serves it: a 0.3.x
\* server takes no lock.
Held(s) == s \in manual \/ (proc.to = s /\ proc.locks)
Live(s) == s \in manual \/ proc.to = s

AgentTypeOK ==
    /\ plist \in Defs \cup {NoDef, BadDef}
    /\ job \in Jobs
    /\ proc \in JobServers \cup {NoProc}
    /\ socks \subseteq Sockets /\ manual \subseteq Sockets
    /\ dirs \in [Sockets -> {"safe", "open", "link"}]
    /\ file \in FileStates
    /\ legacy \in BOOLEAN /\ secured \in BOOLEAN /\ oldGone \in BOOLEAN
    /\ script \in {"rest", "idle", "check", "render", "write", "migrate", "bootout",
                   "wait", "bootstrap", "wait_again", "retry", "cleanup", "kickstart",
                   "un_bootout", "un_remove", "un_wait"}
    /\ wanted \in Wants \cup {NoDef}
    /\ oldSocket \in Sockets \cup {"none"}
    /\ said \in {"nothing", "installed", "uninstalled"}
    /\ scripts \in Nat /\ edits \in Nat

\* What an earlier version of the installer, or nothing, left behind: its job may
\* be loaded, with a 0.3.x server.
Found(p, up) ==
    /\ plist = p
    /\ job = IF up THEN Loaded(p) ELSE Gone
    /\ proc = IF up THEN [to |-> p.to, locks |-> FALSE,
                          token |-> CASE p.auth = "file" -> file
                                      [] p.auth = "env" -> "env" [] OTHER -> "none"]
              ELSE NoProc
    /\ socks = IF up /\ p.to \in Sockets THEN {p.to} ELSE {}
    /\ secured = (p.auth # "none")

NoScript(where) ==
    /\ script = where /\ wanted = NoDef /\ oldSocket = "none" /\ oldGone = FALSE
    /\ manual = {} /\ said = "nothing" /\ scripts = 0 /\ edits = 0

AgentInit ==
    /\ file \in Tokens /\ dirs = [s \in Sockets |-> "safe"]
    /\ \/ Found(NoDef, FALSE)
       \/ \E p \in Wants \cup {[to |-> "tcp", auth |-> "env"]}, up \in BOOLEAN : Found(p, up)
    /\ legacy \in BOOLEAN /\ NoScript("idle")

-----------------------------------------------------------------------------
(* The server's own checks, at every start.                                *)

\* read_token_file: an empty file is no token (the lenient reading).
FileToken == IF file \in Tokens THEN file ELSE "none"

\* check_token_file_policy: yours alone, by owner, mode, ACL and directories.
FilePrivate == file # "shared"

\* load_token_file, at every start: anything else fails the start.
TokenUsable(auth) == auth = "file" => FilePrivate /\ FileToken # "none"

\* _resolve_auth_token: the token file first, then the environment.
TokenOf(auth) ==
    CASE auth = "file" -> FileToken
      [] auth = "env"  -> "env"
      [] OTHER         -> "none"

\* _enforce_socket_dir_secure: no symlink in the chain, nobody else may write it.
DirSecure(s) == dirs[s] = "safe"

\* Whom _process_request lets in.  On a socket the peer's uid must be known and
\* ours; then the Origin header and the bearer.
Peers == [uid : {"ours", "other", "unknown"}, origin : BOOLEAN,
          token : Tokens \cup {"none", "env"}]

Admits(peer) ==
    /\ Up
    /\ proc.to \in Sockets => peer.uid = "ours"
    /\ ~peer.origin
    /\ proc.token \in {"none", peer.token}

-----------------------------------------------------------------------------
(* launchd (external) and the job's server.                                *)

\* KeepAlive: a loaded job without a server gets one.  One that fails its own
\* checks exits at once, and is tried again later.
ServerStarts ==
    /\ job.state = "loaded" /\ ~Up
    /\ LET d == job.def IN
        /\ TokenUsable(d.auth)
        /\ d.to \in Sockets => DirSecure(d.to) /\ ~Held(d.to)
        /\ proc' = [to |-> d.to, token |-> TokenOf(d.auth), locks |-> TRUE]
        /\ socks' = socks \cup ({d.to} \cap Sockets)
    /\ UNCHANGED <<plist, dirs, file, job, manual, legacy, scriptVars, secured, boundVars>>

\* It ends: a clean stop unlinks its socket, a crash does not.
Ends == proc' = NoProc /\ (socks' = socks \/ socks' = socks \ {proc.to})

\* A crash; "stop" (SIGTERM); "restart" (kickstart -k); a job on its way out.
ServerEnds ==
    /\ Up /\ script # "rest" /\ Ends
    /\ UNCHANGED <<plist, dirs, file, job, manual, legacy, scriptVars, secured, boundVars>>

JobLeaves ==
    /\ job.state = "leaving" /\ ~Up
    /\ job' = Gone
    /\ UNCHANGED <<diskVars, proc, manual, legacy, scriptVars, secured, boundVars>>

\* A reboot, or a new login: every plist that can be read is loaded.
Login ==
    /\ script # "rest" /\ edits < MaxEdits /\ edits' = edits + 1
    /\ job' = IF plist \in Defs THEN Loaded(plist) ELSE Gone
    /\ proc' = NoProc /\ manual' = {} /\ script' = "idle"
    /\ UNCHANGED <<diskVars, legacy, wanted, oldSocket, oldGone, said, secured, scripts>>

-----------------------------------------------------------------------------
(* The operator's hand.                                                    *)

Edit ==
    /\ script # "rest" /\ edits < MaxEdits /\ edits' = edits + 1
    /\ \/ file' \in FileStates \ {file} /\ UNCHANGED dirs
       \/ UNCHANGED file
          /\ \E s \in Sockets, d \in {"safe", "open", "link"} :
                 dirs[s] # d /\ dirs' = [dirs EXCEPT ![s] = d]
    /\ UNCHANGED <<plist, socks, launchdVars, manual, legacy, scriptVars, secured, scripts>>

\* A server is started by hand on a path nobody serves.
ManualStarts(s) ==
    /\ script # "rest" /\ edits < MaxEdits /\ edits' = edits + 1
    /\ ~Live(s) /\ DirSecure(s)
    /\ manual' = manual \cup {s} /\ socks' = socks \cup {s}
    /\ UNCHANGED <<plist, dirs, file, launchdVars, legacy, scriptVars, secured, scripts>>

ManualEnds(s) ==
    /\ s \in manual
    /\ manual' = manual \ {s} /\ (socks' = socks \/ socks' = socks \ {s})
    /\ UNCHANGED <<plist, dirs, file, launchdVars, legacy, scriptVars, secured, boundVars>>

-----------------------------------------------------------------------------
(* install                                                                 *)

\* Mutant: only the arguments are looked at, not the environment of the plist.
HasAuth_FlagOnly(p) == p.auth = "file"

\* has_auth: a token in the environment, or the --auth-token-file argument.
HasAuth(p) == p.auth # "none"

\* installed_auth_state: a plist that cannot be read is never "no token".
AuthState ==
    IF plist = BadDef THEN "unreadable" ELSE IF HasAuth(plist) THEN "token" ELSE "none"

\* installed_field socket-path (uninstall takes an unreadable plist for none).
InstalledSocket == IF plist.to \in Sockets THEN plist.to ELSE "none"

Begin == script = "idle" /\ scripts < MaxScripts /\ scripts' = scripts + 1

\* Never over a plist that cannot be read, and never from a token to none on TCP.
Install(want) ==
    /\ Begin /\ AuthState # "unreadable"
    /\ ~(AuthState = "token" /\ want = OpenTcp)
    /\ script' = "check" /\ wanted' = want
    /\ oldSocket' = InstalledSocket /\ oldGone' = FALSE /\ said' = "nothing"
    /\ UNCHANGED <<diskVars, launchdVars, manual, legacy, secured, edits>>

Goto(step) == script' = step /\ UNCHANGED <<wanted, oldSocket, oldGone, said>>

\* validate_socket_path refuses what socket_path_unsafe does ...
PathSafe(s) == dirs[s] # "link"
ValidSocketPath(s) == PathSafe(s)

\* ... and validate_token_file what the server itself would.
ValidTokenFile == TokenUsable(wanted.auth)

\* All of it before anything is changed.
Validate ==
    /\ script = "check"
    /\ IF wanted.to \in Sockets THEN ValidSocketPath(wanted.to) ELSE ValidTokenFile
    /\ Goto("render")
    /\ UNCHANGED <<diskVars, launchdVars, manual, legacy, secured, boundVars>>

\* mkdir -m 700 and chmod 700 of the socket's directory; the renderer truncates
\* the plist.
Render ==
    /\ script = "render"
    /\ dirs' = [s \in Sockets |->
                   IF s = wanted.to /\ dirs[s] = "open" THEN "safe" ELSE dirs[s]]
    /\ plist' = BadDef /\ Goto("write")
    /\ UNCHANGED <<socks, file, launchdVars, manual, legacy, secured, boundVars>>

\* A socket agent carries no token: from here the operator asked for none.
Write ==
    /\ script = "write"
    /\ plist' = wanted /\ Goto("migrate")
    /\ secured' = (secured /\ wanted.to \notin Sockets)
    /\ UNCHANGED <<socks, dirs, file, launchdVars, manual, legacy, boundVars>>

\* The agents of v0.1.x are retired.
Migrate ==
    /\ script = "migrate"
    /\ legacy' = FALSE /\ Goto("bootout")
    /\ UNCHANGED <<diskVars, launchdVars, manual, secured, boundVars>>

\* bootout returns before the job is gone; with no job it fails, which is fine.
Unload == job' = IF job.state = "loaded" THEN [job EXCEPT !.state = "leaving"] ELSE job

Bootout ==
    /\ script = "bootout"
    /\ Unload /\ Goto("wait")
    /\ UNCHANGED <<diskVars, proc, manual, legacy, secured, boundVars>>

\* wait_unloaded: gone, or still there at the cap.
Wait(from, to) ==
    /\ script = from /\ script' = to
    /\ oldGone' = (oldGone \/ job = Gone)
    /\ UNCHANGED <<diskVars, launchdVars, manual, legacy, wanted, oldSocket, said, secured,
                   boundVars>>

\* launchctl bootstrap fails while the old job is there (or on its own).
Bootstrap ==
    /\ script \in {"bootstrap", "retry"} /\ job = Gone /\ plist \in Defs
    /\ job' = Loaded(plist) /\ Goto("cleanup")
    /\ UNCHANGED <<diskVars, proc, manual, legacy, secured, boundVars>>

\* Mutant: the second failure is not looked at either.
BootstrapFails_GoOn ==
    /\ script \in {"bootstrap", "retry"}
    /\ Goto(IF script = "bootstrap" THEN "wait_again" ELSE "cleanup")
    /\ UNCHANGED <<diskVars, launchdVars, manual, legacy, secured, boundVars>>

BootstrapFails ==
    /\ script \in {"bootstrap", "retry"}
    /\ Goto(IF script = "bootstrap" THEN "wait_again" ELSE "idle")
    /\ UNCHANGED <<diskVars, launchdVars, manual, legacy, secured, boundVars>>

\* remove_socket_owned: not through a symlink, and not while the lock is held.
Unlinked(s) == IF PathSafe(s) /\ ~Held(s) THEN socks \ {s} ELSE socks

\* Only with the new job in place, and the old one seen gone.
Cleanup ==
    /\ script = "cleanup"
    /\ socks' = IF oldSocket \in Sockets /\ oldSocket # wanted.to /\ oldGone
                THEN Unlinked(oldSocket) ELSE socks
    /\ Goto("kickstart")
    /\ UNCHANGED <<plist, dirs, file, launchdVars, manual, legacy, secured, boundVars>>

\* enable, kickstart -k, "installed and started".
Kickstart ==
    /\ script = "kickstart"
    /\ script' = "idle" /\ said' = "installed" /\ Ends
    /\ secured' = (secured \/ wanted.auth = "file")
    /\ UNCHANGED <<plist, dirs, file, job, manual, legacy, wanted, oldSocket, oldGone,
                   boundVars>>

-----------------------------------------------------------------------------
(* uninstall                                                               *)

Uninstall ==
    /\ Begin
    /\ script' = "un_bootout" /\ wanted' = NoDef
    /\ oldSocket' = InstalledSocket /\ oldGone' = FALSE /\ said' = "nothing"
    /\ UNCHANGED <<diskVars, launchdVars, manual, legacy, secured, edits>>

UnBootout ==
    /\ script = "un_bootout"
    /\ Unload /\ Goto("un_remove")
    /\ UNCHANGED <<diskVars, proc, manual, legacy, secured, boundVars>>

UnRemove ==
    /\ script = "un_remove"
    /\ plist' = NoDef /\ secured' = FALSE /\ Goto("un_wait")
    /\ UNCHANGED <<socks, dirs, file, launchdVars, manual, legacy, boundVars>>

\* Mutant: the socket is removed whether or not the job was seen gone.
UnWait_Anyway ==
    /\ script = "un_wait"
    /\ script' = "idle" /\ said' = IF job = Gone THEN "uninstalled" ELSE "nothing"
    /\ socks' = IF oldSocket \in Sockets THEN Unlinked(oldSocket) ELSE socks
    /\ UNCHANGED <<plist, dirs, file, launchdVars, manual, legacy, wanted, oldSocket,
                   oldGone, secured, boundVars>>

\* Gone: the socket goes, "uninstalled".  Still there at the cap: "incomplete".
UnWait ==
    /\ script = "un_wait" /\ script' = "idle"
    /\ IF job = Gone
       THEN /\ said' = "uninstalled"
            /\ socks' = IF oldSocket \in Sockets THEN Unlinked(oldSocket) ELSE socks
       ELSE UNCHANGED <<said, socks>>
    /\ UNCHANGED <<plist, dirs, file, launchdVars, manual, legacy, wanted, oldSocket,
                   oldGone, secured, boundVars>>

\* The script is killed, or one of its commands fails (set -e).
ScriptDies ==
    /\ script \notin {"rest", "idle"}
    /\ Goto("idle")
    /\ UNCHANGED <<diskVars, launchdVars, manual, legacy, secured, boundVars>>

AgentNext ==
    \/ ServerStarts \/ ServerEnds \/ JobLeaves \/ Login \/ Edit
    \/ \E s \in Sockets : ManualStarts(s) \/ ManualEnds(s)
    \/ \E want \in Wants : Install(want)
    \/ Validate \/ Render \/ Write \/ Migrate \/ Bootout
    \/ Wait("wait", "bootstrap") \/ Wait("wait_again", "retry")
    \/ Bootstrap \/ BootstrapFails \/ Cleanup \/ Kickstart
    \/ Uninstall \/ UnBootout \/ UnRemove \/ UnWait \/ ScriptDies

\* Nothing is installed, and nothing happens.
AgentRest ==
    /\ file = "empty" /\ dirs = [s \in Sockets |-> "safe"] /\ Found(NoDef, FALSE)
    /\ legacy = FALSE /\ NoScript("rest")

AgentSpec == AgentInit /\ [][AgentNext]_agentVars

-----------------------------------------------------------------------------
(* Properties.                                                             *)

\* "installed" and "uninstalled" are true when printed, and stay true over server
\* crashes, failed starts and logins until the script is run again: the plist and
\* launchd's job are what was asked for (not the old job, nor a cut-off plist), a
\* server of the old definition is gone, and so are the legacy agents.
AgentAsTold ==
    /\ said = "installed" =>
        /\ plist = wanted /\ job = Loaded(wanted) /\ ~legacy
        /\ Up => proc.to = wanted.to /\ (proc.token = "none" <=> wanted.auth = "none")
    /\ said = "uninstalled" => plist = NoDef /\ job = Gone /\ ~Up

\* An agent that was installed with a token (in its plist's environment, by an old
\* version, too) lets nobody in without one, until an uninstall removed its plist
\* or a socket install replaced it: over killed installs, cut-off plists, token
\* files that become unusable, crashes and logins.
NeverOpen == secured => \A peer \in Peers : Admits(peer) => peer.token # "none"

\* No server, whether launchd's or one started by hand, with or without the lock,
\* loses its socket to the script.
LiveSocketKept == \A s \in Sockets : Live(s) => s \in socks

=============================================================================
