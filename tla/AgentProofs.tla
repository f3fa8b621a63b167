---------------------------- MODULE AgentProofs ------------------------------
(***************************************************************************)
(* Theorems about Agent, for any set of sockets and any number of installs,*)
(* uninstalls and edits.  The inductive invariant says, for every place the*)
(* script can be killed at, how the plist, launchd's job, its server and   *)
(* the token belong together.                                              *)
(*                                                                         *)
(* Then about Smoke, the harness that installs a spare agent: for any pids *)
(* and any number of starts.  Its invariant says what the harness holds at *)
(* each place, where an installer not shown stopped can find it, and what  *)
(* a connection that passed the token check's gate is tied to.             *)
(***************************************************************************)
EXTENDS Agent, Smoke, TLAPS

\* Between the new plist and the end of an install.
Changing == {"migrate", "bootout", "wait", "bootstrap", "wait_again", "retry",
             "cleanup", "kickstart"}

\* The job's server runs the definition the job was loaded with.
JobExact ==
    Up => /\ job # Gone /\ proc.to = job.def.to
          /\ proc.token = "none" <=> job.def.auth = "none"

\* What each place of the script has already done.
ScriptExact ==
    /\ script \in {"check", "render", "write"} \cup Changing => wanted \in Wants
    /\ script = "write" => plist = BadDef
    /\ script \in Changing => plist = wanted
    /\ script \in Changing \ {"migrate"} => ~legacy
    /\ script \in {"cleanup", "kickstart"} => job = Loaded(wanted)
    /\ script = "un_wait" => plist = NoDef
    /\ script \notin {"rest", "idle"} => said = "nothing"

\* A token, once there, is in the plist (or the plist is cut off), in the job, and
\* in what an install that got past its checks will write.
SecuredExact ==
    secured => /\ plist # NoDef /\ (plist.auth = "none" => plist = BadDef)
               /\ job # Gone => job.def.auth # "none"
               /\ script \in {"check", "render", "write"} /\ wanted.to = "tcp" =>
                      wanted.auth = "file"

\* A socket has its file while it is served, and one server at a time.
SocketsExact ==
    LiveSocketKept /\ (\A s \in Sockets : proc.to = s => s \notin manual)

AgentInv ==
    AgentTypeOK /\ JobExact /\ ScriptExact /\ SecuredExact /\ SocketsExact /\ AgentAsTold

-----------------------------------------------------------------------------
\* The definitions and the values of their parts.
LEMMA Parts ==
    /\ NoDef \notin Defs /\ BadDef \notin Defs /\ NoDef # BadDef
    /\ "tcp" \notin Sockets /\ "none" \notin Sockets /\ "bad" \notin Sockets
    /\ Wants \subseteq Defs /\ OpenTcp \in Wants
BY AgentAssumption DEF NoDef, BadDef, Defs, Wants, OpenTcp

\* A job has one of the definitions, unless it is gone.
LEMMA JobFacts ==
    /\ Gone \in Jobs /\ Gone.state = "gone"
    /\ \A d : Loaded(d) # Gone /\ Loaded(d).def = d /\ Loaded(d).state = "loaded"
    /\ \A d \in Defs : Loaded(d) \in Jobs
    /\ \A j \in Jobs : j # Gone => j.def \in Defs
    /\ \A j \in Jobs : j.state = "loaded" => j # Gone /\ j = Loaded(j.def)
BY DEF Gone, Jobs, Loaded

\* A definition listens on a socket or on TCP; no server listens nowhere.
LEMMA ProcFacts ==
    /\ NoProc.to \notin Sockets /\ NoProc.to = "none"
    /\ \A d \in Defs : d.to \in Sockets \cup {"tcp"} /\ d.auth \in {"none", "file", "env"}
    /\ \A d \in Wants : /\ d.to = "tcp" => d.auth \in {"none", "file"}
                        /\ d.to \in Sockets => d.auth = "none"
                        /\ d.auth = "none" /\ d.to = "tcp" => d = OpenTcp
    /\ \A to \in Sockets \cup {"tcp"}, token \in Tokens \cup {"none", "env"} :
          LET p == [to |-> to, token |-> token, locks |-> TRUE] IN
          p \in JobServers /\ p # NoProc /\ p.to = to /\ p.token = token /\ p.locks
    /\ NoDef.auth = "none" /\ BadDef.auth = "none" /\ OpenTcp.to = "tcp"
    /\ NoDef.to \notin Sockets /\ BadDef.to \notin Sockets
    /\ "none" \notin Tokens /\ Tokens \subseteq FileStates
BY AgentAssumption DEF NoProc, Defs, Wants, OpenTcp, JobServers, NoDef, BadDef, Tokens, FileStates

\* bootout leaves the definition of a job alone.
LEMMA Unloading ==
    ASSUME job \in Jobs, Unload
    PROVE  /\ job' \in Jobs /\ (job' = Gone <=> job = Gone)
           /\ job' # Gone => job'.def = job.def
BY DEF Unload, Jobs, Gone

LEMMA InstalledSocketType == InstalledSocket \in Sockets \cup {"none"}
BY DEF InstalledSocket

\* A server that starts passed its checks: it has a token if its definition says so.
LEMMA Starting ==
    ASSUME job \in Jobs, ServerStarts
    PROVE  /\ job # Gone /\ job.def \in Defs /\ proc = NoProc
           /\ proc' \in JobServers /\ proc' # NoProc /\ proc'.to = job.def.to
           /\ proc'.token = "none" <=> job.def.auth = "none"
           /\ job.def.to \in Sockets => job.def.to \notin manual
           /\ socks' = socks \cup ({job.def.to} \cap Sockets)
<1>1. job # Gone /\ job.def \in Defs /\ proc = NoProc
  BY JobFacts DEF ServerStarts, Up
<1>2. /\ TokenOf(job.def.auth) \in Tokens \cup {"none", "env"}
      /\ TokenOf(job.def.auth) = "none" <=> job.def.auth = "none"
  BY <1>1, ProcFacts DEF ServerStarts, TokenUsable, TokenOf, FileToken, Tokens
<1>3. proc' = [to |-> job.def.to, token |-> TokenOf(job.def.auth), locks |-> TRUE]
  BY DEF ServerStarts
<1>4. job.def.to \in Sockets \cup {"tcp"}
  BY <1>1, ProcFacts
<1>5. /\ proc' \in JobServers /\ proc' # NoProc /\ proc'.to = job.def.to
      /\ proc'.token = TokenOf(job.def.auth)
  BY <1>2, <1>3, <1>4, ProcFacts
<1>6. QED
  BY <1>1, <1>2, <1>5 DEF ServerStarts, Held

LEMMA InitAgentInv == AgentInit => AgentInv
<1> SUFFICES ASSUME AgentInit PROVE AgentInv
  OBVIOUS
<1> USE AgentAssumption DEF AgentInit, NoScript
<1>1. PICK p \in Defs \cup {NoDef}, up \in BOOLEAN : Found(p, up) /\ (up => p \in Defs)
  <2>1. CASE Found(NoDef, FALSE)
    BY <2>1
  <2>2. CASE \E p \in Wants \cup {[to |-> "tcp", auth |-> "env"]}, up \in BOOLEAN : Found(p, up)
    BY <2>2, Parts DEF Defs
  <2>3. QED
    BY <2>1, <2>2
<1>2. AgentTypeOK
  <2>1. job \in Jobs
    BY <1>1, JobFacts DEF Found
  <2>2. proc \in JobServers \cup {NoProc}
    BY <1>1 DEF Found, Defs, FileStates, Tokens, JobServers
  <2>3. QED
    BY <1>1, <2>1, <2>2 DEF Found, AgentTypeOK, FileStates
<1>3. JobExact
  BY <1>1, Parts DEF Found, JobExact, Up, NoProc, Loaded, Gone, Defs, Tokens
<1>4. ScriptExact
  BY DEF ScriptExact, Changing
<1>5. SecuredExact
  <2>1. /\ plist = p /\ (job # Gone => job.def = p) /\ script = "idle"
        /\ secured <=> p.auth # "none"
    BY <1>1, JobFacts DEF Found
  <2>2. NoDef.auth = "none"
    BY DEF NoDef
  <2>3. QED
    BY <2>1, <2>2 DEF SecuredExact
<1>6. SocketsExact
  BY <1>1 DEF Found, SocketsExact, LiveSocketKept, Live, NoProc
<1>7. AgentAsTold
  BY DEF AgentAsTold
<1>8. QED
  BY <1>2, <1>3, <1>4, <1>5, <1>6, <1>7 DEF AgentInv

\* AgentTypeOK is preserved.
LEMMA TypeStep ==
    ASSUME AgentInv, [AgentNext]_agentVars PROVE AgentTypeOK'
<1> USE DEF AgentInv, AgentTypeOK, diskVars, launchdVars, scriptVars, boundVars
<1>1. CASE ServerStarts
  BY <1>1, Starting DEF ServerStarts
<1>2. CASE ServerEnds
  BY <1>2 DEF ServerEnds, Ends
<1>3. CASE JobLeaves
  BY <1>3, JobFacts DEF JobLeaves
<1>4. CASE Login
  BY <1>4, Parts, JobFacts DEF Login
<1>5. CASE Edit
  BY <1>5 DEF Edit
<1>6. CASE \E s \in Sockets : ManualStarts(s)
  BY <1>6 DEF ManualStarts, Live
<1>7. CASE \E s \in Sockets : ManualEnds(s)
  BY <1>7 DEF ManualEnds, Live
<1>8. CASE \E want \in Wants : Install(want)
  <2>1. PICK want \in Wants : Install(want)
    BY <1>8
  <2>2. oldSocket' \in Sockets \cup {"none"}
    BY <2>1, InstalledSocketType DEF Install
  <2>3. wanted' \in Wants \cup {NoDef} /\ scripts' \in Nat
    BY <2>1 DEF Install, Begin
  <2>4. QED
    BY <2>1, <2>2, <2>3 DEF Install
<1>9. CASE Validate
  BY <1>9 DEF Validate, Goto
<1>10. CASE Render
  BY <1>10 DEF Render, Goto
<1>11. CASE Write
  BY <1>11, Parts DEF Write, Goto
<1>12. CASE Migrate
  BY <1>12 DEF Migrate, Goto
<1>13. CASE Bootout
  BY <1>13, Unloading DEF Bootout, Goto
<1>14. CASE Wait("wait", "bootstrap") \/ Wait("wait_again", "retry")
  BY <1>14 DEF Wait
<1>15. CASE Bootstrap
  BY <1>15, JobFacts DEF Bootstrap, Goto
<1>16. CASE BootstrapFails
  BY <1>16 DEF BootstrapFails, Goto
<1>17. CASE Cleanup
  BY <1>17 DEF Cleanup, Goto, Unlinked, Held
<1>18. CASE Kickstart
  BY <1>18 DEF Kickstart, Ends
<1>19. CASE Uninstall
  <2>1. oldSocket' \in Sockets \cup {"none"}
    BY <1>19, InstalledSocketType DEF Uninstall
  <2>2. wanted' \in Wants \cup {NoDef} /\ scripts' \in Nat
    BY <1>19 DEF Uninstall, Begin
  <2>3. QED
    BY <1>19, <2>1, <2>2 DEF Uninstall
<1>20. CASE UnBootout
  BY <1>20, Unloading DEF UnBootout, Goto
<1>21. CASE UnRemove
  BY <1>21 DEF UnRemove, Goto
<1>22. CASE UnWait
  BY <1>22 DEF UnWait, Unlinked, Held
<1>23. CASE ScriptDies
  BY <1>23 DEF ScriptDies, Goto
<1>24. CASE UNCHANGED agentVars
  BY <1>24 DEF agentVars, diskVars, launchdVars, scriptVars, boundVars
<1>25. QED
  BY <1>1, <1>2, <1>3, <1>4, <1>5, <1>6, <1>7, <1>8, <1>9, <1>10, <1>11, <1>12, <1>13, <1>14, <1>15, <1>16, <1>17, <1>18, <1>19, <1>20, <1>21, <1>22, <1>23, <1>24 DEF AgentNext

\* JobExact is preserved.
LEMMA JobStep ==
    ASSUME AgentInv, [AgentNext]_agentVars PROVE JobExact'
<1> USE DEF AgentInv, AgentTypeOK, JobExact, ScriptExact, Up, diskVars, launchdVars, scriptVars, boundVars
<1>1. CASE ServerStarts
  BY <1>1, Starting DEF ServerStarts
<1>2. CASE ServerEnds
  BY <1>2 DEF ServerEnds, Ends
<1>3. CASE JobLeaves
  BY <1>3, JobFacts DEF JobLeaves
<1>4. CASE Login
  BY <1>4 DEF Login
<1>5. CASE Edit
  BY <1>5 DEF Edit
<1>6. CASE \E s \in Sockets : ManualStarts(s)
  BY <1>6 DEF ManualStarts, Live
<1>7. CASE \E s \in Sockets : ManualEnds(s)
  BY <1>7 DEF ManualEnds, Live
<1>8. CASE \E want \in Wants : Install(want)
  BY <1>8 DEF Install, Begin, AuthState, HasAuth, InstalledSocket
<1>9. CASE Validate
  BY <1>9 DEF Validate, Goto
<1>10. CASE Render
  BY <1>10 DEF Render, Goto
<1>11. CASE Write
  BY <1>11 DEF Write, Goto
<1>12. CASE Migrate
  BY <1>12 DEF Migrate, Goto
<1>13. CASE Bootout
  BY <1>13, Unloading DEF Bootout, Goto
<1>14. CASE Wait("wait", "bootstrap") \/ Wait("wait_again", "retry")
  BY <1>14 DEF Wait
<1>15. CASE Bootstrap
  BY <1>15, JobFacts DEF Bootstrap, Goto
<1>16. CASE BootstrapFails
  BY <1>16 DEF BootstrapFails, Goto
<1>17. CASE Cleanup
  BY <1>17 DEF Cleanup, Goto, Unlinked, Held
<1>18. CASE Kickstart
  BY <1>18 DEF Kickstart, Ends
<1>19. CASE Uninstall
  BY <1>19 DEF Uninstall, Begin, InstalledSocket
<1>20. CASE UnBootout
  BY <1>20, Unloading DEF UnBootout, Goto
<1>21. CASE UnRemove
  BY <1>21 DEF UnRemove, Goto
<1>22. CASE UnWait
  BY <1>22 DEF UnWait, Unlinked, Held
<1>23. CASE ScriptDies
  BY <1>23 DEF ScriptDies, Goto
<1>24. CASE UNCHANGED agentVars
  BY <1>24 DEF agentVars, diskVars, launchdVars, scriptVars, boundVars
<1>25. QED
  BY <1>1, <1>2, <1>3, <1>4, <1>5, <1>6, <1>7, <1>8, <1>9, <1>10, <1>11, <1>12, <1>13, <1>14, <1>15, <1>16, <1>17, <1>18, <1>19, <1>20, <1>21, <1>22, <1>23, <1>24 DEF AgentNext

\* ScriptExact is preserved.
LEMMA ScriptStep ==
    ASSUME AgentInv, [AgentNext]_agentVars PROVE ScriptExact'
<1> USE DEF AgentInv, AgentTypeOK, ScriptExact, Changing, diskVars, launchdVars, scriptVars, boundVars
<1>1. CASE ServerStarts
  BY <1>1 DEF ServerStarts
<1>2. CASE ServerEnds
  BY <1>2 DEF ServerEnds, Ends
<1>3. CASE JobLeaves
  BY <1>3, JobFacts DEF JobLeaves
<1>4. CASE Login
  BY <1>4 DEF Login
<1>5. CASE Edit
  BY <1>5 DEF Edit
<1>6. CASE \E s \in Sockets : ManualStarts(s)
  BY <1>6 DEF ManualStarts, Live
<1>7. CASE \E s \in Sockets : ManualEnds(s)
  BY <1>7 DEF ManualEnds, Live
<1>8. CASE \E want \in Wants : Install(want)
  BY <1>8 DEF Install, Begin, AuthState, HasAuth, InstalledSocket
<1>9. CASE Validate
  BY <1>9 DEF Validate, Goto
<1>10. CASE Render
  BY <1>10 DEF Render, Goto
<1>11. CASE Write
  BY <1>11 DEF Write, Goto
<1>12. CASE Migrate
  BY <1>12 DEF Migrate, Goto
<1>13. CASE Bootout
  BY <1>13, Unloading DEF Bootout, Goto
<1>14. CASE Wait("wait", "bootstrap") \/ Wait("wait_again", "retry")
  BY <1>14 DEF Wait
<1>15. CASE Bootstrap
  BY <1>15, JobFacts DEF Bootstrap, Goto
<1>16. CASE BootstrapFails
  BY <1>16 DEF BootstrapFails, Goto
<1>17. CASE Cleanup
  BY <1>17 DEF Cleanup, Goto, Unlinked, Held
<1>18. CASE Kickstart
  BY <1>18 DEF Kickstart, Ends
<1>19. CASE Uninstall
  BY <1>19 DEF Uninstall, Begin, InstalledSocket
<1>20. CASE UnBootout
  BY <1>20, Unloading DEF UnBootout, Goto
<1>21. CASE UnRemove
  BY <1>21 DEF UnRemove, Goto
<1>22. CASE UnWait
  BY <1>22 DEF UnWait, Unlinked, Held
<1>23. CASE ScriptDies
  BY <1>23 DEF ScriptDies, Goto
<1>24. CASE UNCHANGED agentVars
  BY <1>24 DEF agentVars, diskVars, launchdVars, scriptVars, boundVars
<1>25. QED
  BY <1>1, <1>2, <1>3, <1>4, <1>5, <1>6, <1>7, <1>8, <1>9, <1>10, <1>11, <1>12, <1>13, <1>14, <1>15, <1>16, <1>17, <1>18, <1>19, <1>20, <1>21, <1>22, <1>23, <1>24 DEF AgentNext

\* SecuredExact is preserved.
LEMMA SecuredStep ==
    ASSUME AgentInv, [AgentNext]_agentVars PROVE SecuredExact'
<1> USE DEF AgentInv, AgentTypeOK, SecuredExact, ScriptExact, Changing, diskVars, launchdVars, scriptVars, boundVars
<1>1. CASE ServerStarts
  BY <1>1 DEF ServerStarts
<1>2. CASE ServerEnds
  BY <1>2 DEF ServerEnds, Ends
<1>3. CASE JobLeaves
  BY <1>3, JobFacts DEF JobLeaves
<1>4. CASE Login
  BY <1>4, Parts, JobFacts DEF Login
<1>5. CASE Edit
  BY <1>5 DEF Edit
<1>6. CASE \E s \in Sockets : ManualStarts(s)
  BY <1>6 DEF ManualStarts, Live
<1>7. CASE \E s \in Sockets : ManualEnds(s)
  BY <1>7 DEF ManualEnds, Live
<1>8. CASE \E want \in Wants : Install(want)
  BY <1>8, Parts, ProcFacts DEF Install, Begin, AuthState, HasAuth, InstalledSocket
<1>9. CASE Validate
  BY <1>9 DEF Validate, Goto
<1>10. CASE Render
  BY <1>10, Parts DEF Render, Goto
<1>11. CASE Write
  BY <1>11, Parts, ProcFacts DEF Write, Goto
<1>12. CASE Migrate
  BY <1>12 DEF Migrate, Goto
<1>13. CASE Bootout
  BY <1>13, Unloading DEF Bootout, Goto
<1>14. CASE Wait("wait", "bootstrap") \/ Wait("wait_again", "retry")
  BY <1>14 DEF Wait
<1>15. CASE Bootstrap
  BY <1>15, Parts, JobFacts DEF Bootstrap, Goto
<1>16. CASE BootstrapFails
  BY <1>16 DEF BootstrapFails, Goto
<1>17. CASE Cleanup
  BY <1>17 DEF Cleanup, Goto, Unlinked, Held
<1>18. CASE Kickstart
  BY <1>18, Parts, JobFacts, ProcFacts DEF Kickstart, Ends
<1>19. CASE Uninstall
  BY <1>19 DEF Uninstall, Begin, InstalledSocket
<1>20. CASE UnBootout
  BY <1>20, Unloading DEF UnBootout, Goto
<1>21. CASE UnRemove
  BY <1>21 DEF UnRemove, Goto
<1>22. CASE UnWait
  BY <1>22 DEF UnWait, Unlinked, Held
<1>23. CASE ScriptDies
  BY <1>23 DEF ScriptDies, Goto
<1>24. CASE UNCHANGED agentVars
  BY <1>24 DEF agentVars, diskVars, launchdVars, scriptVars, boundVars
<1>25. QED
  BY <1>1, <1>2, <1>3, <1>4, <1>5, <1>6, <1>7, <1>8, <1>9, <1>10, <1>11, <1>12, <1>13, <1>14, <1>15, <1>16, <1>17, <1>18, <1>19, <1>20, <1>21, <1>22, <1>23, <1>24 DEF AgentNext

\* SocketsExact is preserved.
LEMMA SocketsStep ==
    ASSUME AgentInv, [AgentNext]_agentVars PROVE SocketsExact'
<1> USE DEF AgentInv, AgentTypeOK, SocketsExact, LiveSocketKept, Live, ScriptExact, JobExact, AgentAsTold, diskVars, launchdVars, scriptVars, boundVars
<1>1. CASE ServerStarts
  BY <1>1, Starting DEF ServerStarts
<1>2. CASE ServerEnds
  BY <1>2, ProcFacts DEF ServerEnds, Ends
<1>3. CASE JobLeaves
  BY <1>3 DEF JobLeaves
<1>4. CASE Login
  BY <1>4, ProcFacts DEF Login
<1>5. CASE Edit
  BY <1>5 DEF Edit
<1>6. CASE \E s \in Sockets : ManualStarts(s)
  BY <1>6 DEF ManualStarts, Live
<1>7. CASE \E s \in Sockets : ManualEnds(s)
  BY <1>7 DEF ManualEnds, Live
<1>8. CASE \E want \in Wants : Install(want)
  BY <1>8 DEF Install, Begin, AuthState, HasAuth, InstalledSocket
<1>9. CASE Validate
  BY <1>9 DEF Validate, Goto
<1>10. CASE Render
  BY <1>10 DEF Render, Goto
<1>11. CASE Write
  BY <1>11 DEF Write, Goto
<1>12. CASE Migrate
  BY <1>12 DEF Migrate, Goto
<1>13. CASE Bootout
  BY <1>13 DEF Bootout, Goto
<1>14. CASE Wait("wait", "bootstrap") \/ Wait("wait_again", "retry")
  BY <1>14 DEF Wait
<1>15. CASE Bootstrap
  BY <1>15 DEF Bootstrap, Goto
<1>16. CASE BootstrapFails
  BY <1>16 DEF BootstrapFails, Goto
<1>17. CASE Cleanup
  <2>1. Up => proc.to = wanted.to
    BY <1>17, JobFacts DEF Cleanup
  <2>2. \A s \in Sockets : proc.to = s => s = wanted.to
    BY <2>1, ProcFacts DEF Up
  <2>3. \A s \in Sockets : Live(s) => s \in socks'
    BY <1>17, <2>2 DEF Cleanup, Unlinked, Held
  <2>4. QED
    BY <1>17, <2>3 DEF Cleanup
<1>18. CASE Kickstart
  BY <1>18, ProcFacts DEF Kickstart, Ends
<1>19. CASE Uninstall
  BY <1>19 DEF Uninstall, Begin, InstalledSocket
<1>20. CASE UnBootout
  BY <1>20 DEF UnBootout, Goto
<1>21. CASE UnRemove
  BY <1>21 DEF UnRemove, Goto
<1>22. CASE UnWait
  <2>1. CASE job = Gone
    <3>1. proc = NoProc
      BY <2>1 DEF Up
    <3>2. \A s \in Sockets : Live(s) => s \in manual
      BY <3>1, ProcFacts
    <3>3. \A s \in Sockets : Live(s) => s \in socks'
      BY <1>22, <3>2 DEF UnWait, Unlinked, Held
    <3>4. QED
      BY <1>22, <3>3 DEF UnWait
  <2>2. CASE job # Gone
    BY <1>22, <2>2 DEF UnWait
  <2>3. QED
    BY <2>1, <2>2
<1>23. CASE ScriptDies
  BY <1>23 DEF ScriptDies, Goto
<1>24. CASE UNCHANGED agentVars
  BY <1>24 DEF agentVars, diskVars, launchdVars, scriptVars, boundVars
<1>25. QED
  BY <1>1, <1>2, <1>3, <1>4, <1>5, <1>6, <1>7, <1>8, <1>9, <1>10, <1>11, <1>12, <1>13, <1>14, <1>15, <1>16, <1>17, <1>18, <1>19, <1>20, <1>21, <1>22, <1>23, <1>24 DEF AgentNext

\* AgentAsTold is preserved.
LEMMA ToldStep ==
    ASSUME AgentInv, [AgentNext]_agentVars PROVE AgentAsTold'
<1> USE DEF AgentInv, AgentTypeOK, AgentAsTold, JobExact, ScriptExact, Changing, Up, diskVars, launchdVars, scriptVars, boundVars
<1>1. CASE ServerStarts
  BY <1>1, Starting, JobFacts DEF ServerStarts
<1>2. CASE ServerEnds
  BY <1>2 DEF ServerEnds, Ends
<1>3. CASE JobLeaves
  BY <1>3, JobFacts DEF JobLeaves
<1>4. CASE Login
  BY <1>4, Parts, JobFacts DEF Login
<1>5. CASE Edit
  BY <1>5 DEF Edit
<1>6. CASE \E s \in Sockets : ManualStarts(s)
  BY <1>6 DEF ManualStarts, Live
<1>7. CASE \E s \in Sockets : ManualEnds(s)
  BY <1>7 DEF ManualEnds, Live
<1>8. CASE \E want \in Wants : Install(want)
  BY <1>8 DEF Install, Begin, AuthState, HasAuth, InstalledSocket
<1>9. CASE Validate
  BY <1>9 DEF Validate, Goto
<1>10. CASE Render
  BY <1>10 DEF Render, Goto
<1>11. CASE Write
  BY <1>11 DEF Write, Goto
<1>12. CASE Migrate
  BY <1>12 DEF Migrate, Goto
<1>13. CASE Bootout
  BY <1>13, Unloading DEF Bootout, Goto
<1>14. CASE Wait("wait", "bootstrap") \/ Wait("wait_again", "retry")
  BY <1>14 DEF Wait
<1>15. CASE Bootstrap
  BY <1>15, JobFacts DEF Bootstrap, Goto
<1>16. CASE BootstrapFails
  BY <1>16 DEF BootstrapFails, Goto
<1>17. CASE Cleanup
  BY <1>17 DEF Cleanup, Goto, Unlinked, Held
<1>18. CASE Kickstart
  BY <1>18, JobFacts DEF Kickstart, Ends
<1>19. CASE Uninstall
  BY <1>19 DEF Uninstall, Begin, InstalledSocket
<1>20. CASE UnBootout
  BY <1>20 DEF UnBootout, Goto
<1>21. CASE UnRemove
  BY <1>21 DEF UnRemove, Goto
<1>22. CASE UnWait
  BY <1>22 DEF UnWait, Unlinked, Held
<1>23. CASE ScriptDies
  BY <1>23 DEF ScriptDies, Goto
<1>24. CASE UNCHANGED agentVars
  BY <1>24 DEF agentVars, diskVars, launchdVars, scriptVars, boundVars
<1>25. QED
  BY <1>1, <1>2, <1>3, <1>4, <1>5, <1>6, <1>7, <1>8, <1>9, <1>10, <1>11, <1>12, <1>13, <1>14, <1>15, <1>16, <1>17, <1>18, <1>19, <1>20, <1>21, <1>22, <1>23, <1>24 DEF AgentNext

LEMMA NextAgentInv == AgentInv /\ [AgentNext]_agentVars => AgentInv'
BY TypeStep, JobStep, ScriptStep, SecuredStep, SocketsStep, ToldStep DEF AgentInv

LEMMA SpecAgentInv == AgentSpec => []AgentInv
BY InitAgentInv, NextAgentInv, PTL DEF AgentSpec

-----------------------------------------------------------------------------
\* Every variable keeps its type: the scripts are the ones of install_stt_agent.sh.
THEOREM AgentTypeCorrect == AgentSpec => []AgentTypeOK
<1>1. AgentInv => AgentTypeOK
  BY DEF AgentInv
<1>2. QED
  BY SpecAgentInv, <1>1, PTL

\* "installed" and "uninstalled" are true when printed and stay true until the
\* script is run again, over crashes, failed starts and logins.
THEOREM ToldTruth == AgentSpec => []AgentAsTold
<1>1. AgentInv => AgentAsTold
  BY DEF AgentInv
<1>2. QED
  BY SpecAgentInv, <1>1, PTL

\* An agent that has a token lets nobody in without one, whatever was killed,
\* cut off, edited or restarted since.
THEOREM TokenKept == AgentSpec => []NeverOpen
<1>1. AgentInv => NeverOpen
  <2> SUFFICES ASSUME AgentInv, secured, NEW peer \in Peers, Admits(peer)
               PROVE  peer.token # "none"
    BY DEF NeverOpen
  <2>1. job # Gone /\ (proc.token = "none" <=> job.def.auth = "none")
    BY DEF Admits, AgentInv, JobExact
  <2>2. proc.token # "none"
    BY <2>1 DEF AgentInv, SecuredExact
  <2>3. QED
    BY <2>2 DEF Admits
<1>2. QED
  BY SpecAgentInv, <1>1, PTL

\* The script never takes a socket file from the server that serves it, whether
\* launchd's or one started by hand.
THEOREM SocketKept == AgentSpec => []LiveSocketKept
<1>1. AgentInv => LiveSocketKept
  BY DEF AgentInv, SocketsExact
<1>2. QED
  BY SpecAgentInv, <1>1, PTL

------------------------------------------------------------------------------
(* The launchd harness.                                                    *)

\* The teardown's stands once its uninstall was called.
Cleaning == {"lock", "unlink", "files", "look", "residue"}

\* What the harness holds at each place: an installer only while it is called, the
\* port only during the first check, the lock only around the unlink.
HarnessExact ==
    /\ stand # "calling" => calls["own"] = NoCall
    /\ stand \in Cleaning => leg = 6
    /\ leg = 6 => stand \in Cleaning \cup {"calling", "verdict", "done"}
    /\ stand \in GateStands => leg = 5
    /\ stand = "teardown" \/ leg = 6 => tearing
    /\ holder => stand \in CheckStands /\ leg # 6
    /\ flocked <=> stand = "unlink"
    /\ reported # "nothing" => stand = "done"

\* An installer that could not be shown stopped is never left behind by a check
\* that goes on: its verdict is about to be recorded, or the checks are over.
StrayExact ==
    calls["stray"] # NoCall =>
        \/ stand = "verdict" /\ ending = "unstopped"
        \/ stand \in {"switch", "teardown", "done"}
        \/ leg = 6

\* Where no signal can come before the verdict is recorded, it is recorded.
StrayRecorded ==
    calls["stray"] # NoCall =>
        \/ stand = "verdict" /\ ending = "unstopped"
        \/ stand \in {"switch", "teardown", "done"} /\ recorded

\* A server belongs to a job, and has a pid of its own.
SpareExact == main # 0 => service # NoService /\ main # squatter

\* The token check: its identity is that of a process which was there, its counter
\* never runs back, and a connection that passed its checks is to that process.
GateExact ==
    /\ stand \in {"arm", "identify"} \cup (CheckStands \ GateStands) /\ leg # 6 => sent = {}
    /\ stand \in GateStands \ {"identify"} => ident.pid # 0 /\ ident.runs <= ran
    /\ stand \in GateStands \ {"identify", "confirm"} => tries <= 2
    /\ stand = "reread" /\ ident = [pid |-> main, runs |-> ran] => conn = ident.runs
    /\ stand = "send" => conn = ident.runs

\* The harness unlinks no live server's socket.
UnlinkExact == stand = "unlink" => ~SpareLocked

\* Once it has looked, no installer can load the job again.
LookExact == stand = "residue" /\ ~problems => service = NoService

\* A verdict that no signal hides makes the teardown's row true.
VerdictExact == StrayRecorded /\ LookExact /\ SpareAsReported

SmokeInv ==
    /\ SmokeTypeOK /\ HarnessExact /\ StrayExact /\ SpareExact /\ GateExact /\ UnlinkExact
    /\ SpareSocketKept /\ TokenToSpareOnly
    /\ ~LateSignals => VerdictExact

------------------------------------------------------------------------------
\* A job of the spare has one of the transports, unless it is gone; an installer
\* that does something is no NoCall.
LEMMA SpareFacts ==
    /\ NoService \in Services /\ NoService.state = "gone" /\ NoService.def = "none"
    /\ \A j \in Services : j # NoService => j.state \in {"loaded", "leaving"} /\ j.def \in Transports
    /\ \A d \in Transports : [state |-> "loaded", def |-> d] \in Services
    /\ \A d \in Transports : [state |-> "leaving", def |-> d] \in Services
    /\ NoCall \in Calls /\ NoCall.doing = "none"
    /\ \A c \in Calls, x \in AtWork \cup {"exited"} : [c EXCEPT !.doing = x] \in Calls
BY DEF NoService, Services, NoCall, Calls, AtWork, Transports

\* launchd, the squatter and the installers leave the harness alone.
Outside == World \/ \E w \in Installers : InstallerSteps(w)

\* Of the harness they change only the far end of its connection.
LEMMA OutsideFrame ==
    ASSUME Outside
    PROVE  /\ UNCHANGED <<stand, leg, signalVars, ending, recorded, holder, flocked, made,
                          ident, tries, sent, verdictVars>>
           /\ conn' = conn \/ (conn = Foreign /\ conn' = 0)
<1>1. CASE World
  BY <1>1 DEF World, SpareSpawns, SquatterComes, SpareEnds, SpareLeaves, SquatterGoes, signalVars,
     callVars, gateVars, verdictVars, diskOfSpare, jobVars
<1>2. ASSUME NEW w \in Installers, InstallerSteps(w)
      PROVE  UNCHANGED <<stand, leg, signalVars, ending, recorded, holder, flocked, made,
                         gateVars, verdictVars>>
  BY <1>2 DEF InstallerSteps, InstallRenders, InstallWrites, BootsOut, AwaitsUnload, Bootstraps,
     CleansUp, Kickstarts, UninstallRemoves, UninstallEnds, InstallerFails, InstallerOnly,
     signalVars, gateVars, verdictVars
<1> QED BY <1>1, <1>2 DEF Outside, gateVars, signalVars, verdictVars

\* The harness leaves the job, its server and the squatter alone.
Harness == HarnessSteps \/ GroupNotStopped \/ Signals

\* Its steps are not launchd's.
LEMMA HarnessFrame == ASSUME Harness PROVE UNCHANGED <<jobVars, squatter>>
<1>1. CASE Arm \/ CallInstaller \/ GroupStopped \/ Redelivered \/ CallReturns
           \/ InstallerNotStopped \/ GroupNotStopped \/ Signals
  BY <1>1 DEF Arm, CallInstaller, GroupStopped, Redelivered, CallReturns, InstallerNotStopped,
     GroupNotStopped, Signals, Interrupted, SignalHeld, InterruptedEarly, worldVars, jobVars
<1>2. CASE Boundary \/ Prepare \/ Observe \/ Answer \/ Identify \/ Dial \/ Verify \/ Reread
           \/ Send \/ Confirm
  BY <1>2 DEF Boundary, Prepare, Observe, Answer, Identify, Dial, Verify, Reread, Send, Confirm,
     worldVars, jobVars
<1>3. CASE BeginTeardown \/ Teardown \/ FrozenTeardown \/ UninstallReturns \/ NoSocket
           \/ TakeLock \/ LeaveSocket \/ UnlinkSocket \/ RemoveFiles \/ Look \/ Residue
  BY <1>3 DEF BeginTeardown, Teardown, FrozenTeardown, UninstallReturns, NoSocket, TakeLock,
     LeaveSocket, UnlinkSocket, RemoveFiles, Look, Residue, worldVars, jobVars
<1> QED BY <1>1, <1>2, <1>3 DEF Harness, HarnessSteps

\* Every step is the world's or an installer's, or the harness's.
LEMMA SmokeSteps == [SmokeNext]_smokeVars => Outside \/ Harness \/ UNCHANGED smokeVars
BY DEF SmokeNext, Outside, Harness

\* The invariant holds when the harness starts.
LEMMA InitSmokeInv == SmokeInit => SmokeInv
<1> SUFFICES ASSUME SmokeInit PROVE SmokeInv
  OBVIOUS
<1> USE DEF SmokeInit, SmokeStart
<1>1. SmokeTypeOK
  <2>1. calls \in [Installers -> Calls] /\ service \in Services
    BY SpareFacts
  <2>2. ident \in [pid : Pids \cup {0}, runs : 0 .. MaxSpawns] /\ conn \in 0 .. Foreign
    BY SmokeAssumption DEF Foreign
  <2>3. stand \in Stands /\ sent \subseteq 0 .. Foreign /\ made \subseteq {"socket", "token"}
    BY DEF Stands
  <2>4. /\ spareSock \in BOOLEAN /\ spareLock \in BOOLEAN /\ tearing \in BOOLEAN
        /\ held \in BOOLEAN /\ recorded \in BOOLEAN /\ holder \in BOOLEAN
        /\ flocked \in BOOLEAN /\ problems \in BOOLEAN
    OBVIOUS
  <2>5. spare \in Transports \cup {"none", "bad"} /\ ran \in 0 .. MaxSpawns
    BY SmokeAssumption
  <2> QED BY <2>1, <2>2, <2>3, <2>4, <2>5 DEF SmokeTypeOK
<1>2. HarnessExact /\ StrayExact /\ SpareExact /\ UnlinkExact /\ SpareSocketKept
  BY DEF HarnessExact, StrayExact, SpareExact, UnlinkExact, SpareSocketKept, Cleaning, GateStands,
     CheckStands, Installers, SpareLocked
<1>3. GateExact /\ TokenToSpareOnly
  BY DEF GateExact, TokenToSpareOnly, GateStands
<1>4. VerdictExact
  BY DEF VerdictExact, StrayRecorded, LookExact, SpareAsReported, Installers
<1> QED BY <1>1, <1>2, <1>3, <1>4 DEF SmokeInv

\* Types of what the world and the installers change.
LEMMA SmokeWorldTypes ==
    ASSUME SmokeTypeOK, Outside
    PROVE  /\ spare' \in Transports \cup {"none", "bad"} /\ service' \in Services
           /\ main' \in Pids \cup {0} /\ ran' \in 0 .. MaxSpawns
           /\ spareSock' \in BOOLEAN /\ spareLock' \in BOOLEAN /\ squatter' \in Pids \cup {0}
           /\ calls' \in [Installers -> Calls]
<1> USE DEF SmokeTypeOK
<1>1. CASE World
  <2>1. ASSUME NEW p \in Pids, SpareSpawns(p) PROVE ran' \in 0 .. MaxSpawns
    BY <2>1, SmokeAssumption DEF SpareSpawns
  <2>2. ASSUME NEW p \in Pids, SpareSpawns(p)
        PROVE  /\ UNCHANGED <<spare, service, squatter, calls>>
               /\ main' \in Pids \cup {0} /\ spareSock' \in BOOLEAN /\ spareLock' \in BOOLEAN
    BY <2>2 DEF SpareSpawns, callVars
  <2>3. ASSUME NEW p \in Pids, SquatterComes(p)
        PROVE  UNCHANGED <<spare, service, main, ran, spareSock, spareLock, calls>>
               /\ squatter' \in Pids \cup {0}
    BY <2>3 DEF SquatterComes, diskOfSpare, jobVars, callVars
  <2>4. CASE SpareEnds
    BY <2>4 DEF SpareEnds, callVars
  <2>5. CASE SpareLeaves
    BY <2>5, SpareFacts DEF SpareLeaves, diskOfSpare, callVars
  <2>6. CASE SquatterGoes
    BY <2>6 DEF SquatterGoes, diskOfSpare, jobVars, callVars
  <2> QED BY <1>1, <2>1, <2>2, <2>3, <2>4, <2>5, <2>6 DEF World
<1>2. ASSUME NEW w \in Installers, InstallerSteps(w)
      PROVE  /\ spare' \in Transports \cup {"none", "bad"} /\ service' \in Services
             /\ main' \in Pids \cup {0} /\ ran' \in 0 .. MaxSpawns
             /\ spareSock' \in BOOLEAN /\ spareLock' \in BOOLEAN /\ squatter' \in Pids \cup {0}
  <2> USE DEF InstallerOnly
  <2>1. CASE InstallRenders(w)
    BY <2>1 DEF InstallRenders
  <2>2. CASE InstallWrites(w)
    BY <2>2 DEF InstallWrites, Calls
  <2>3. CASE BootsOut(w)
    <3>1. service' \in Services
      BY <2>3, SpareFacts DEF BootsOut, Services
    <3> QED BY <2>3, <3>1 DEF BootsOut
  <2>4. CASE AwaitsUnload(w)
    BY <2>4 DEF AwaitsUnload
  <2>5. CASE Bootstraps(w)
    BY <2>5, SpareFacts, SmokeAssumption DEF Bootstraps
  <2>6. CASE CleansUp(w)
    BY <2>6 DEF CleansUp
  <2>7. CASE Kickstarts(w)
    BY <2>7 DEF Kickstarts
  <2>8. CASE UninstallRemoves(w)
    BY <2>8 DEF UninstallRemoves
  <2>9. CASE UninstallEnds(w) \/ InstallerFails(w)
    BY <2>9 DEF UninstallEnds, InstallerFails
  <2> QED BY <1>2, <2>1, <2>2, <2>3, <2>4, <2>5, <2>6, <2>7, <2>8, <2>9 DEF InstallerSteps
<1>3. ASSUME NEW w \in Installers, InstallerSteps(w) PROVE calls' \in [Installers -> Calls]
  <2>1. \A x \in AtWork \cup {"exited"} : [calls[w] EXCEPT !.doing = x] \in Calls
    BY SpareFacts
  <2>2. \A x \in AtWork \cup {"exited"}, b \in BOOLEAN :
            [calls[w] EXCEPT !.doing = x, !.clean = b] \in Calls
    BY DEF Calls
  <2>3. \A b \in BOOLEAN : [calls[w] EXCEPT !.doing = "write", !.old = b] \in Calls
    BY DEF Calls, AtWork
  <2>4. \E c \in Calls : calls' = [calls EXCEPT ![w] = c]
    <3>1. CASE InstallRenders(w)
      BY <3>1, <2>2, <2>3 DEF InstallRenders, ExitUnclean
    <3>2. CASE InstallWrites(w) \/ BootsOut(w) \/ Bootstraps(w) \/ Kickstarts(w)
               \/ UninstallRemoves(w)
      BY <3>2, <2>1 DEF InstallWrites, BootsOut, Bootstraps, Kickstarts, UninstallRemoves,
         Advance, AtWork
    <3>3. ASSUME NEW x \in AtWork, NEW b, AdvanceIf(w, x, b)
          PROVE  \E c \in Calls : calls' = [calls EXCEPT ![w] = c]
      <4>1. (calls[w].clean /\ b) \in BOOLEAN
        OBVIOUS
      <4> QED BY <3>3, <4>1, <2>2 DEF AdvanceIf
    <3>4. CASE AwaitsUnload(w) \/ CleansUp(w)
      BY <3>4, <3>3 DEF AwaitsUnload, CleansUp, AtWork
    <3>5. CASE UninstallEnds(w) \/ InstallerFails(w)
      BY <3>5, <2>1, <2>2 DEF UninstallEnds, InstallerFails, Advance, ExitUnclean
    <3> QED BY <1>3, <3>1, <3>2, <3>4, <3>5 DEF InstallerSteps
  <2> QED BY <2>4
<1> QED BY <1>1, <1>2, <1>3 DEF Outside

\* Where a check's end can lead.
LEMMA CheckEnds ==
    /\ NextCheck => /\ holder' = FALSE /\ conn' = 0
                    /\ stand' \in {"switch", "boundary"} /\ (leg = 5 => stand' = "switch")
                    /\ (leg \in 1 .. 5 => leg' \in 1 .. 5) /\ (leg = 6 => leg' = 6)
    /\ StopChecks => holder' = FALSE /\ conn' = 0 /\ stand' = "switch" /\ leg' = leg
BY DEF NextCheck, StopChecks

\* Types of what the harness changes.
LEMMA SmokeHarnessTypes ==
    ASSUME SmokeTypeOK, HarnessExact, GateExact, Harness
    PROVE  SmokeTypeOK'
<1> USE DEF SmokeTypeOK
<1>0. /\ service' \in Services /\ main' \in Pids \cup {0} /\ ran' \in 0 .. MaxSpawns
      /\ squatter' \in Pids \cup {0}
  BY HarnessFrame DEF jobVars
<1>1. stand' \in Stands /\ leg' \in 1 .. 6
  <2> USE DEF Stands, CheckStands, GateStands
  <2>1. CASE Arm \/ CallInstaller \/ GroupStopped \/ GroupNotStopped \/ BeginTeardown \/ Teardown
             \/ FrozenTeardown \/ UninstallReturns
    BY <2>1 DEF Arm, CallInstaller, GroupStopped, GroupNotStopped, BeginTeardown, Teardown,
       FrozenTeardown, UninstallReturns, Onward
  <2>2. CASE Redelivered \/ InstallerNotStopped \/ Signals
    BY <2>2, CheckEnds DEF Redelivered, InstallerNotStopped, Signals, Interrupted, SignalHeld,
       InterruptedEarly
  <2>3. CASE CallReturns \/ Boundary \/ Prepare \/ Observe
    BY <2>3, CheckEnds DEF CallReturns, Boundary, Prepare, Observe
  <2>4. CASE Answer \/ Identify \/ Dial \/ Verify \/ Reread \/ Send \/ Confirm
    BY <2>4, CheckEnds DEF Answer, Identify, Dial, Verify, Reread, Send, Confirm
  <2>5. CASE NoSocket \/ TakeLock \/ LeaveSocket \/ UnlinkSocket \/ RemoveFiles \/ Look \/ Residue
    BY <2>5 DEF NoSocket, TakeLock, LeaveSocket, UnlinkSocket, RemoveFiles, Look, Residue, Onward
  <2> QED BY <2>1, <2>2, <2>3, <2>4, <2>5 DEF Harness, HarnessSteps
<1>2. calls' \in [Installers -> Calls] /\ ending' \in {"none", "ok", "failed", "unstopped"}
  <2>1. CASE CallInstaller
    <3>1. stand = "install" /\ leg \in 1 .. 5 /\ Legs[leg] \in Transports
      BY <2>1 DEF CallInstaller, HarnessExact, Cleaning, Legs, Transports
    <3>2. [NoCall EXCEPT !.doing = "render", !.want = Legs[leg]] \in Calls
      BY <3>1 DEF NoCall, Calls, AtWork
    <3> QED BY <2>1, <3>2 DEF CallInstaller, Installing
  <2>2. CASE Teardown
    <3>1. [doing |-> "un_bootout", want |-> "none", old |-> (spare = "unix"),
           clean |-> (spare # "bad")] \in Calls
      BY DEF Calls, AtWork
    <3> QED BY <2>2, <3>1 DEF Teardown
  <2>3. CASE GroupStopped \/ GroupNotStopped
    BY <2>3, SpareFacts DEF GroupStopped, GroupNotStopped, Installers
  <2>4. CASE Arm \/ Redelivered \/ CallReturns \/ InstallerNotStopped \/ Boundary \/ Prepare
             \/ Observe \/ Answer \/ Identify \/ Dial \/ Verify \/ Reread \/ Send \/ Confirm
             \/ BeginTeardown \/ Signals
    BY <2>4 DEF Arm, Redelivered, CallReturns, InstallerNotStopped, Boundary, Prepare, Observe,
       Answer, Identify, Dial, Verify, Reread, Send, Confirm, BeginTeardown, Signals, Interrupted,
       SignalHeld, InterruptedEarly, callVars
  <2>5. CASE FrozenTeardown \/ UninstallReturns \/ NoSocket \/ TakeLock \/ LeaveSocket
             \/ UnlinkSocket \/ RemoveFiles \/ Look \/ Residue
    BY <2>5 DEF FrozenTeardown, UninstallReturns, NoSocket, TakeLock, LeaveSocket, UnlinkSocket,
       RemoveFiles, Look, Residue, callVars
  <2> QED BY <2>1, <2>2, <2>3, <2>4, <2>5 DEF Harness, HarnessSteps
<1>3. /\ ident' \in [pid : Pids \cup {0}, runs : 0 .. MaxSpawns]
      /\ conn' \in 0 .. Foreign /\ sent' \subseteq 0 .. Foreign /\ tries' \in 0 .. 3
  <2>0. 0 \in 0 .. Foreign /\ Foreign \in 0 .. Foreign /\ 0 .. MaxSpawns \subseteq 0 .. Foreign
    BY SmokeAssumption DEF Foreign
  <2>1. CASE Identify
    BY <2>1, <2>0, CheckEnds DEF Identify
  <2>2. CASE Send
    BY <2>2, <2>0, CheckEnds DEF Send, GateExact, GateStands
  <2>3. CASE Boundary \/ Prepare \/ Observe \/ Answer \/ Dial \/ Verify \/ Reread \/ Confirm
    BY <2>3, <2>0, CheckEnds DEF Boundary, Prepare, Observe, Answer, Dial, Verify, Reread, Confirm
  <2>4. CASE Redelivered \/ CallReturns \/ InstallerNotStopped \/ Signals
    BY <2>4, <2>0, CheckEnds DEF Redelivered, CallReturns, InstallerNotStopped, Signals,
       Interrupted, SignalHeld, InterruptedEarly, gateVars
  <2>5. CASE Arm \/ CallInstaller \/ GroupStopped \/ GroupNotStopped \/ BeginTeardown \/ Teardown
             \/ FrozenTeardown \/ UninstallReturns \/ NoSocket \/ TakeLock \/ LeaveSocket
             \/ UnlinkSocket \/ RemoveFiles \/ Look \/ Residue
    BY <2>5 DEF Arm, CallInstaller, GroupStopped, GroupNotStopped, BeginTeardown, Teardown,
       FrozenTeardown, UninstallReturns, NoSocket, TakeLock, LeaveSocket, UnlinkSocket,
       RemoveFiles, Look, Residue, gateVars
  <2> QED BY <2>1, <2>2, <2>3, <2>4, <2>5 DEF Harness, HarnessSteps
<1>4. /\ spare' \in Transports \cup {"none", "bad"} /\ made' \subseteq {"socket", "token"}
      /\ spareSock' \in BOOLEAN /\ spareLock' \in BOOLEAN
  <2>1. CASE Prepare \/ UnlinkSocket \/ RemoveFiles
    BY <2>1 DEF Prepare, UnlinkSocket, RemoveFiles
  <2>2. CASE Arm \/ CallInstaller \/ GroupStopped \/ Redelivered \/ CallReturns
             \/ InstallerNotStopped \/ GroupNotStopped \/ Signals
    BY <2>2 DEF Arm, CallInstaller, GroupStopped, Redelivered, CallReturns, InstallerNotStopped,
       GroupNotStopped, Signals, Interrupted, SignalHeld, InterruptedEarly, worldVars, diskOfSpare
  <2>3. CASE Boundary \/ Observe \/ Answer \/ Identify \/ Dial \/ Verify \/ Reread \/ Send
             \/ Confirm
    BY <2>3 DEF Boundary, Observe, Answer, Identify, Dial, Verify, Reread, Send, Confirm,
       worldVars, diskOfSpare
  <2>4. CASE BeginTeardown \/ Teardown \/ FrozenTeardown \/ UninstallReturns \/ NoSocket
             \/ TakeLock \/ LeaveSocket \/ Look \/ Residue
    BY <2>4 DEF BeginTeardown, Teardown, FrozenTeardown, UninstallReturns, NoSocket, TakeLock,
       LeaveSocket, Look, Residue, worldVars, diskOfSpare
  <2> QED BY <2>1, <2>2, <2>3, <2>4 DEF Harness, HarnessSteps
<1>5. /\ tearing' \in BOOLEAN /\ held' \in BOOLEAN /\ recorded' \in BOOLEAN
      /\ holder' \in BOOLEAN /\ flocked' \in BOOLEAN /\ problems' \in BOOLEAN
      /\ reported' \in {"nothing", "clean", "left", "frozen"}
  <2>1. CASE Arm \/ CallInstaller \/ GroupStopped \/ Redelivered \/ CallReturns
             \/ InstallerNotStopped \/ GroupNotStopped \/ Signals
    BY <2>1, CheckEnds DEF Arm, CallInstaller, GroupStopped, Redelivered, CallReturns,
       InstallerNotStopped, GroupNotStopped, Signals, Interrupted, SignalHeld, InterruptedEarly,
       callVars, signalVars, verdictVars
  <2>2. CASE Boundary \/ Prepare \/ Observe \/ Answer \/ Identify \/ Dial \/ Verify \/ Reread
             \/ Send \/ Confirm
    BY <2>2, CheckEnds DEF Boundary, Prepare, Observe, Answer, Identify, Dial, Verify, Reread,
       Send, Confirm, callVars, signalVars, verdictVars
  <2>3. CASE BeginTeardown \/ Teardown \/ FrozenTeardown \/ UninstallReturns \/ NoSocket
             \/ TakeLock \/ LeaveSocket \/ UnlinkSocket \/ RemoveFiles \/ Look \/ Residue
    BY <2>3 DEF BeginTeardown, Teardown, FrozenTeardown, UninstallReturns, NoSocket, TakeLock,
       LeaveSocket, UnlinkSocket, RemoveFiles, Look, Residue, callVars, signalVars, verdictVars
  <2> QED BY <2>1, <2>2, <2>3 DEF Harness, HarnessSteps
<1> QED BY <1>0, <1>1, <1>2, <1>3, <1>4, <1>5

\* SmokeTypeOK is preserved.
LEMMA SmokeTypeStep == ASSUME SmokeInv, [SmokeNext]_smokeVars PROVE SmokeTypeOK'
<1>0. SmokeTypeOK /\ HarnessExact /\ GateExact
  BY DEF SmokeInv
<1>1. CASE Outside
  <2>1. UNCHANGED <<stand, leg, signalVars, ending, recorded, holder, flocked, made, ident,
                    tries, sent, verdictVars>>
    BY <1>1, OutsideFrame
  <2>2. conn' \in 0 .. Foreign
    BY <1>0, <1>1, OutsideFrame, SmokeAssumption DEF SmokeTypeOK, Foreign
  <2>3. /\ spare' \in Transports \cup {"none", "bad"} /\ service' \in Services
        /\ main' \in Pids \cup {0} /\ ran' \in 0 .. MaxSpawns
        /\ spareSock' \in BOOLEAN /\ spareLock' \in BOOLEAN /\ squatter' \in Pids \cup {0}
        /\ calls' \in [Installers -> Calls]
    BY <1>0, <1>1, SmokeWorldTypes
  <2> QED BY <1>0, <2>1, <2>2, <2>3 DEF SmokeTypeOK, signalVars, verdictVars
<1>2. CASE Harness
  BY <1>0, <1>2, SmokeHarnessTypes
<1>3. CASE UNCHANGED smokeVars
  BY <1>0, <1>3 DEF smokeVars, worldVars, diskOfSpare, jobVars, callVars, signalVars, gateVars,
     verdictVars, SmokeTypeOK
<1> QED BY <1>1, <1>2, <1>3, SmokeSteps

\* The own installer does not start by itself, and an idle one does nothing.
LEMMA InstallersFrame ==
    ASSUME SmokeTypeOK, Outside
    PROVE  \A w \in Installers : calls[w] = NoCall => calls'[w] = NoCall
<1> USE DEF SmokeTypeOK
<1>1. CASE World
  BY <1>1 DEF World, SpareSpawns, SquatterComes, SpareEnds, SpareLeaves, SquatterGoes, callVars
<1>2. ASSUME NEW w \in Installers, InstallerSteps(w)
      PROVE  calls[w] # NoCall /\ \A v \in Installers \ {w} : calls'[v] = calls[v]
  <2>1. calls[w].doing \in AtWork
    BY <1>2 DEF InstallerSteps, InstallRenders, InstallWrites, BootsOut, AwaitsUnload, Bootstraps,
       CleansUp, Kickstarts, UninstallRemoves, UninstallEnds, InstallerFails, AtWork
  <2>2. \A v \in Installers \ {w} : calls'[v] = calls[v]
    BY <1>2 DEF InstallerSteps, InstallRenders, InstallWrites, BootsOut, AwaitsUnload, Bootstraps,
       CleansUp, Kickstarts, UninstallRemoves, UninstallEnds, InstallerFails, Advance, AdvanceIf,
       ExitUnclean
  <2> QED BY <2>1, <2>2 DEF NoCall, AtWork
<1> QED BY <1>1, <1>2 DEF Outside

\* HarnessExact is preserved.
LEMMA HarnessExactStep == ASSUME SmokeInv, [SmokeNext]_smokeVars PROVE HarnessExact'
<1>0. SmokeTypeOK /\ HarnessExact
  BY DEF SmokeInv
<1> USE DEF HarnessExact
<1>1. CASE Outside
  BY <1>0, <1>1, OutsideFrame, InstallersFrame DEF Installers, signalVars, verdictVars
<1>2. CASE UNCHANGED smokeVars
  BY <1>0, <1>2 DEF smokeVars, callVars, signalVars, verdictVars
<1>3. CASE Harness
  <2> USE <1>0 DEF Cleaning, CheckStands, GateStands
  <2>1. CASE Arm \/ CallInstaller \/ BeginTeardown \/ Teardown \/ FrozenTeardown
             \/ UninstallReturns
    BY <2>1 DEF Arm, CallInstaller, BeginTeardown, Teardown, FrozenTeardown, UninstallReturns,
       Onward, callVars, signalVars, verdictVars
  <2>2. CASE GroupStopped \/ GroupNotStopped
    BY <2>2 DEF GroupStopped, GroupNotStopped, SmokeTypeOK, Installers, signalVars,
       verdictVars
  <2>3. CASE Redelivered \/ InstallerNotStopped \/ Signals
    BY <2>3, CheckEnds DEF Redelivered, InstallerNotStopped, Signals, Interrupted, SignalHeld,
       InterruptedEarly, callVars, signalVars, verdictVars
  <2>4. CASE CallReturns \/ Boundary \/ Prepare \/ Observe
    BY <2>4, CheckEnds DEF CallReturns, Boundary, Prepare, Observe, SmokeTypeOK, callVars,
       signalVars, verdictVars
  <2>5. CASE Answer \/ Identify \/ Dial \/ Verify \/ Reread \/ Send \/ Confirm
    BY <2>5, CheckEnds DEF Answer, Identify, Dial, Verify, Reread, Send, Confirm, SmokeTypeOK,
       callVars, signalVars, verdictVars
  <2>6. CASE NoSocket \/ TakeLock \/ LeaveSocket \/ UnlinkSocket \/ RemoveFiles \/ Look \/ Residue
    <3>1. CASE NoSocket \/ LeaveSocket \/ RemoveFiles \/ Look \/ Residue
      <4>1. UNCHANGED <<calls, leg, tearing, holder, flocked>>
        BY <3>1 DEF NoSocket, LeaveSocket, RemoveFiles, Look, Residue, callVars, signalVars
      <4>2. /\ stand \in Cleaning \ {"unlink"} /\ stand' \in Cleaning \cup {"done"}
            /\ stand' # "unlink" /\ (stand' # "done" => reported' = reported)
        BY <3>1 DEF NoSocket, LeaveSocket, RemoveFiles, Look, Residue, Onward, verdictVars
      <4> QED BY <4>1, <4>2
    <3>2. CASE TakeLock \/ UnlinkSocket
      BY <3>2 DEF TakeLock, UnlinkSocket, Onward, callVars, signalVars, verdictVars
    <3> QED BY <2>6, <3>1, <3>2
  <2> QED BY <1>3, <2>1, <2>2, <2>3, <2>4, <2>5, <2>6 DEF Harness, HarnessSteps
<1> QED BY <1>1, <1>2, <1>3, SmokeSteps

\* Only run_owned makes an installer a stray one.
LEMMA StrayFrame ==
    ASSUME SmokeTypeOK, Harness
    PROVE  calls'["stray"] = calls["stray"] \/ GroupNotStopped
<1> USE DEF SmokeTypeOK, Installers
<1>1. CASE Arm \/ Redelivered \/ CallReturns \/ InstallerNotStopped \/ Boundary \/ Prepare
           \/ Observe \/ Answer \/ Identify \/ Dial \/ Verify \/ Reread \/ Send \/ Confirm
           \/ BeginTeardown \/ Signals
  BY <1>1 DEF Arm, Redelivered, CallReturns, InstallerNotStopped, Boundary, Prepare, Observe,
     Answer, Identify, Dial, Verify, Reread, Send, Confirm, BeginTeardown, Signals, Interrupted,
     SignalHeld, InterruptedEarly, callVars
<1>2. CASE FrozenTeardown \/ UninstallReturns \/ NoSocket \/ TakeLock \/ LeaveSocket
           \/ UnlinkSocket \/ RemoveFiles \/ Look \/ Residue
  BY <1>2 DEF FrozenTeardown, UninstallReturns, NoSocket, TakeLock, LeaveSocket, UnlinkSocket,
     RemoveFiles, Look, Residue, callVars
<1>3. CASE CallInstaller \/ GroupStopped \/ Teardown
  BY <1>3 DEF CallInstaller, Installing, GroupStopped, Teardown
<1> QED BY <1>1, <1>2, <1>3 DEF Harness, HarnessSteps

\* StrayExact is preserved: a check goes on only after its installer was shown
\* stopped.
LEMMA StrayExactStep == ASSUME SmokeInv, [SmokeNext]_smokeVars PROVE StrayExact'
<1>0. SmokeTypeOK /\ HarnessExact /\ StrayExact
  BY DEF SmokeInv
<1> USE DEF StrayExact
<1>1. CASE Outside
  BY <1>0, <1>1, OutsideFrame, InstallersFrame DEF Installers
<1>2. CASE UNCHANGED smokeVars
  BY <1>0, <1>2 DEF smokeVars, callVars
<1>3. CASE GroupNotStopped
  BY <1>3 DEF GroupNotStopped
<1>4. ASSUME Harness, ~GroupNotStopped, calls'["stray"] # NoCall
      PROVE  \/ stand' \in {"switch", "teardown", "done"}
             \/ leg' = 6
  <2>1. \/ stand = "verdict" /\ ending = "unstopped" /\ leg # 6
        \/ stand \in {"switch", "teardown"} \/ leg = 6 \/ stand = "done"
    BY <1>0, <1>4, StrayFrame
  <2>2. CASE stand = "verdict" /\ ending = "unstopped" /\ leg # 6
    <3>1. InstallerNotStopped \/ Interrupted
      BY <1>4, <2>2 DEF Harness, HarnessSteps, Signals, Arm, CallInstaller, GroupStopped,
         Redelivered, CallReturns, Boundary, Prepare, Observe, Answer, Identify, Dial, Verify,
         Reread, Send, Confirm, BeginTeardown, Teardown, FrozenTeardown, UninstallReturns,
         NoSocket, TakeLock, LeaveSocket, UnlinkSocket, RemoveFiles, Look, Residue, Onward,
         SignalHeld, InterruptedEarly
    <3> QED BY <3>1, CheckEnds DEF InstallerNotStopped, Interrupted
  <2>3. CASE stand \in {"switch", "teardown", "done"}
    <3>1. BeginTeardown \/ Teardown \/ FrozenTeardown \/ Interrupted
      BY <1>4, <2>3 DEF Harness, HarnessSteps, Signals, Arm, CallInstaller, GroupStopped,
         Redelivered, CallReturns, InstallerNotStopped, Boundary, Prepare, Observe, Answer,
         Identify, Dial, Verify, Reread, Send, Confirm, UninstallReturns, NoSocket, TakeLock,
         LeaveSocket, UnlinkSocket, RemoveFiles, Look, Residue, Onward, SignalHeld,
         InterruptedEarly
    <3> QED BY <3>1, CheckEnds DEF BeginTeardown, Teardown, FrozenTeardown, Interrupted, Onward
  <2>4. CASE leg = 6 /\ stand # "done"
    <3>1. stand \in Cleaning \cup {"calling", "verdict"} /\ tearing
      BY <1>0, <2>4 DEF HarnessExact
    <3>2. \/ GroupStopped \/ FrozenTeardown \/ UninstallReturns \/ SignalHeld \/ NoSocket
          \/ TakeLock \/ LeaveSocket \/ UnlinkSocket \/ RemoveFiles \/ Look \/ Residue
      BY <1>4, <2>4, <3>1 DEF Harness, HarnessSteps, Signals, Arm, CallInstaller,
         Redelivered, CallReturns, InstallerNotStopped, Boundary, Prepare, Observe, Answer,
         Identify, Dial, Verify, Reread, Send, Confirm, BeginTeardown, Teardown, Onward,
         Interrupted, InterruptedEarly, Cleaning
    <3> QED BY <2>4, <3>2 DEF GroupStopped, FrozenTeardown, UninstallReturns, SignalHeld,
            NoSocket, TakeLock, LeaveSocket, UnlinkSocket, RemoveFiles, Look, Residue
  <2> QED BY <2>1, <2>2, <2>3, <2>4
<1> QED BY <1>1, <1>2, <1>3, <1>4, SmokeSteps

\* SpareExact is preserved.
LEMMA SpareExactStep == ASSUME SmokeInv, [SmokeNext]_smokeVars PROVE SpareExact'
<1>0. SmokeTypeOK /\ SpareExact
  BY DEF SmokeInv
<1> USE DEF SpareExact
<1>1. CASE World
  <2>1. ASSUME NEW p \in Pids, SpareSpawns(p) PROVE SpareExact'
    BY <1>0, <2>1, SpareFacts DEF SpareSpawns
  <2>2. ASSUME NEW p \in Pids, SquatterComes(p) PROVE SpareExact'
    BY <1>0, <2>2 DEF SquatterComes, jobVars
  <2>3. CASE SpareEnds \/ SpareLeaves
    BY <1>0, <2>3 DEF SpareEnds, SpareLeaves
  <2>4. CASE SquatterGoes
    BY <1>0, <2>4, SmokeAssumption DEF SquatterGoes, jobVars, SmokeTypeOK
  <2> QED BY <1>1, <2>1, <2>2, <2>3, <2>4 DEF World
<1>2. ASSUME NEW w \in Installers, InstallerSteps(w) PROVE SpareExact'
  <2> USE DEF InstallerOnly
  <2>1. CASE InstallRenders(w) \/ InstallWrites(w) \/ AwaitsUnload(w) \/ CleansUp(w)
             \/ UninstallRemoves(w) \/ UninstallEnds(w) \/ InstallerFails(w)
    BY <1>0, <2>1 DEF InstallRenders, InstallWrites, AwaitsUnload, CleansUp, UninstallRemoves,
       UninstallEnds, InstallerFails
  <2>2. CASE BootsOut(w)
    <3>1. service # NoService => service' # NoService
      BY <1>0, <2>2, SpareFacts DEF BootsOut, Services, NoService
    <3> QED BY <1>0, <2>2, <3>1 DEF BootsOut
  <2>3. CASE Bootstraps(w) \/ Kickstarts(w)
    BY <1>0, <2>3 DEF Bootstraps, Kickstarts
  <2> QED BY <1>2, <2>1, <2>2, <2>3 DEF InstallerSteps
<1>3. CASE Harness
  BY <1>0, <1>3, HarnessFrame DEF jobVars
<1>4. CASE UNCHANGED smokeVars
  BY <1>0, <1>4 DEF smokeVars, worldVars, jobVars
<1> QED BY <1>1, <1>2, <1>3, <1>4, SmokeSteps DEF Outside

\* No installer is at work while the token check goes on, so the job is not loaded
\* anew and launchd's counter does not start over.
LEMMA GateQuiet ==
    ASSUME SmokeInv, Outside, stand \in GateStands
    PROVE  World /\ ran <= ran'
<1>1. SmokeTypeOK /\ HarnessExact /\ StrayExact
  BY DEF SmokeInv
<1>2. calls["own"] = NoCall /\ calls["stray"] = NoCall
  BY <1>1 DEF HarnessExact, StrayExact, GateStands
<1>3. ASSUME NEW w \in Installers, InstallerSteps(w) PROVE FALSE
  <2>1. calls[w].doing = "none"
    BY <1>2 DEF Installers, NoCall
  <2> QED BY <1>3, <2>1 DEF InstallerSteps, InstallRenders, InstallWrites, BootsOut, AwaitsUnload,
          Bootstraps, CleansUp, Kickstarts, UninstallRemoves, UninstallEnds, InstallerFails, AtWork
<1>4. World
  BY <1>3 DEF Outside
<1>5. ran \in Nat
  BY <1>1, SmokeAssumption DEF SmokeTypeOK
<1> QED BY <1>4, <1>5 DEF World, SpareSpawns, SquatterComes, SpareEnds, SpareLeaves,
        SquatterGoes, jobVars

\* What the token check's steps leave alone.
LEMMA GateFrame ==
    ASSUME Harness, ~Identify, ~Dial, ~Verify, ~Reread, ~Send
    PROVE  /\ UNCHANGED <<ident, tries, sent>>
           /\ stand' \in GateStands => stand' = "identify" \/ UNCHANGED <<stand, conn>>
<1> USE DEF GateStands
<1>1. CASE Arm \/ CallInstaller \/ GroupStopped \/ GroupNotStopped \/ BeginTeardown \/ Teardown
           \/ FrozenTeardown \/ UninstallReturns
  BY <1>1 DEF Arm, CallInstaller, GroupStopped, GroupNotStopped, BeginTeardown, Teardown,
     FrozenTeardown, UninstallReturns, Onward, gateVars
<1>2. CASE Redelivered \/ InstallerNotStopped \/ Signals
  BY <1>2, CheckEnds DEF Redelivered, InstallerNotStopped, Signals, Interrupted, SignalHeld,
     InterruptedEarly, gateVars
<1>3. CASE CallReturns \/ Boundary \/ Prepare \/ Observe \/ Answer \/ Confirm
  BY <1>3, CheckEnds DEF CallReturns, Boundary, Prepare, Observe, Answer, Confirm, gateVars
<1>4. CASE NoSocket \/ TakeLock \/ LeaveSocket \/ UnlinkSocket \/ RemoveFiles \/ Look \/ Residue
  BY <1>4 DEF NoSocket, TakeLock, LeaveSocket, UnlinkSocket, RemoveFiles, Look, Residue, Onward,
     gateVars
<1> QED BY <1>1, <1>2, <1>3, <1>4 DEF Harness, HarnessSteps

\* Nothing goes back to the first four installs once the token check began.
LEMMA BeforeGate ==
    ASSUME SmokeTypeOK, HarnessExact, Harness,
           stand' \in {"arm", "identify"} \cup (CheckStands \ GateStands), leg' # 6
    PROVE  stand \in {"arm", "identify"} \cup (CheckStands \ GateStands) /\ leg # 6
<1> USE DEF CheckStands, GateStands, HarnessExact, Cleaning, SmokeTypeOK
<1>1. CASE Arm \/ CallInstaller \/ GroupStopped \/ GroupNotStopped \/ BeginTeardown \/ Teardown
           \/ FrozenTeardown \/ UninstallReturns
  BY <1>1 DEF Arm, CallInstaller, GroupStopped, GroupNotStopped, BeginTeardown, Teardown,
     FrozenTeardown, UninstallReturns, Onward
<1>2. CASE Redelivered \/ InstallerNotStopped \/ Signals
  BY <1>2, CheckEnds DEF Redelivered, InstallerNotStopped, Signals, Interrupted, SignalHeld,
     InterruptedEarly
<1>3. CASE CallReturns \/ Boundary \/ Prepare \/ Observe \/ Answer
  BY <1>3, CheckEnds DEF CallReturns, Boundary, Prepare, Observe, Answer
<1>4. CASE Identify \/ Dial \/ Verify \/ Reread \/ Send \/ Confirm
  BY <1>4, CheckEnds DEF Identify, Dial, Verify, Reread, Send, Confirm
<1>5. CASE NoSocket \/ TakeLock \/ LeaveSocket \/ UnlinkSocket \/ RemoveFiles \/ Look \/ Residue
  BY <1>5 DEF NoSocket, TakeLock, LeaveSocket, UnlinkSocket, RemoveFiles, Look, Residue, Onward
<1> QED BY <1>1, <1>2, <1>3, <1>4, <1>5 DEF Harness, HarnessSteps

\* GateExact is preserved, and with it TokenToSpareOnly.
LEMMA GateExactStep ==
    ASSUME SmokeInv, [SmokeNext]_smokeVars
    PROVE  GateExact' /\ TokenToSpareOnly'
<1>0. SmokeTypeOK /\ HarnessExact /\ SpareExact /\ GateExact /\ TokenToSpareOnly
  BY DEF SmokeInv
<1>a. /\ MaxSpawns \in Nat /\ Foreign = MaxSpawns + 1 /\ ran \in Nat /\ ident.runs \in 0 .. MaxSpawns
      /\ 0 \notin Pids /\ tries \in 0 .. 3
  BY <1>0, SmokeAssumption DEF SmokeTypeOK, Foreign
<1>1. CASE Outside
  <2>1. /\ UNCHANGED <<stand, leg, ident, tries, sent>>
        /\ conn' = conn \/ (conn = Foreign /\ conn' = 0)
    BY <1>1, OutsideFrame
  <2>2. TokenToSpareOnly'
    BY <1>0, <2>1 DEF TokenToSpareOnly
  <2>3. CASE stand \notin GateStands
    <3>1. GateExact'
      BY <1>0, <2>1, <2>3 DEF GateExact, GateStands
    <3> QED BY <2>2, <3>1
  <2>4. CASE stand \in GateStands
    <3>1. World /\ ran <= ran'
      BY <1>1, <2>4, GateQuiet
    <3>2. ran' \in Nat
      BY <1>a, <3>1 DEF World, SpareSpawns, SquatterComes, SpareEnds, SpareLeaves,
        SquatterGoes, jobVars
    <3>3. stand \in GateStands \ {"identify"} => ident.pid # 0 /\ ident.runs <= ran'
      BY <1>0, <1>a, <3>1, <3>2 DEF GateExact
    <3>4. stand = "send" => conn' = ident.runs
      BY <1>0, <1>a, <2>1 DEF GateExact
    <3>5. ASSUME stand = "reread", ident = [pid |-> main', runs |-> ran'] PROVE conn' = ident.runs
      <4>1. main' # 0 /\ ident.runs <= ran /\ ident.runs = ran' /\ ident.pid = main'
        BY <1>0, <3>5 DEF GateExact, GateStands
      <4>2. ran' = ran
        BY <1>a, <3>1, <3>2, <4>1
      <4>3. main' = main
        BY <1>a, <3>1, <4>1, <4>2 DEF World, SpareSpawns, SquatterComes, SpareEnds, SpareLeaves,
           SquatterGoes, jobVars
      <4>4. conn = ident.runs
        BY <1>0, <3>5, <4>2, <4>3 DEF GateExact
      <4> QED BY <1>a, <2>1, <4>4
    <3>6. stand \in {"identify"} => sent = {}
      BY <1>0, <2>4 DEF GateExact, HarnessExact
    <3> QED BY <1>0, <2>1, <2>2, <2>4, <3>3, <3>4, <3>5, <3>6 DEF GateExact, GateStands
  <2> QED BY <2>2, <2>3, <2>4
<1>2. CASE Harness
  <2>0. UNCHANGED <<main, ran, squatter>>
    BY <1>2, HarnessFrame DEF jobVars
  <2>1. CASE Identify
    <3>1. sent = {} /\ sent' = {}
      BY <1>0, <2>1 DEF Identify, GateExact, HarnessExact, GateStands
    <3> QED BY <1>a, <2>0, <2>1, <3>1, CheckEnds DEF Identify, GateExact, TokenToSpareOnly, GateStands
  <2>2. CASE Dial
    <3>1. UNCHANGED <<ident, tries, sent>> /\ stand = "connect"
      BY <2>2 DEF Dial
    <3>2. stand' = "verify" \/ (stand' \in {"switch", "boundary"} /\ (leg = 5 => stand' = "switch"))
      BY <2>2, CheckEnds DEF Dial
    <3>3. leg = 5
      BY <1>0, <3>1 DEF HarnessExact, GateStands
    <3> QED BY <1>0, <2>0, <3>1, <3>2, <3>3 DEF GateExact, TokenToSpareOnly, GateStands, CheckStands
  <2>3. CASE Verify
    <3>1. /\ UNCHANGED <<ident, tries, sent>> /\ stand = "verify"
          /\ \/ stand' = "reread" /\ conn' = conn /\ ServerEnd = ident.pid
             \/ stand' = "switch"
      BY <1>0, <2>3, CheckEnds DEF Verify, HarnessExact, GateStands
    <3>2. ident.pid # 0 /\ ident.runs <= ran /\ tries <= 2
      BY <1>0, <3>1 DEF GateExact, GateStands
    <3>3. ASSUME ServerEnd = ident.pid, ident = [pid |-> main, runs |-> ran] PROVE conn = ident.runs
      BY <1>0, <3>2, <3>3 DEF ServerEnd, SpareExact
    <3> QED BY <1>0, <2>0, <3>1, <3>2, <3>3 DEF GateExact, TokenToSpareOnly, GateStands, CheckStands
  <2>4. CASE Reread
    <3>1. /\ UNCHANGED <<ident, tries, sent>> /\ stand = "reread"
          /\ \/ stand' = "send" /\ conn' = conn /\ ident = [pid |-> main, runs |-> ran]
             \/ stand' = "switch"
      BY <1>0, <2>4, CheckEnds DEF Reread, HarnessExact, GateStands
    <3>2. ident.pid # 0 /\ ident.runs <= ran /\ tries <= 2
      BY <1>0, <3>1 DEF GateExact, GateStands
    <3>3. ident = [pid |-> main, runs |-> ran] => conn = ident.runs
      BY <1>0, <3>1 DEF GateExact
    <3> QED BY <1>0, <2>0, <3>1, <3>2, <3>3 DEF GateExact, TokenToSpareOnly, GateStands, CheckStands
  <2>5. CASE Send
    <3>1. /\ stand = "send" /\ ident' = ident /\ tries' = tries + 1 /\ sent' \subseteq sent \cup {conn}
          /\ stand' \in {"confirm", "connect", "switch"} /\ (stand' = "connect" => tries # 2)
      BY <1>0, <2>5, CheckEnds DEF Send, HarnessExact, GateStands
    <3>2. ident.pid # 0 /\ ident.runs <= ran /\ tries <= 2 /\ conn = ident.runs
      BY <1>0, <3>1 DEF GateExact, GateStands
    <3> QED BY <1>0, <1>a, <2>0, <3>1, <3>2 DEF GateExact, TokenToSpareOnly, GateStands, CheckStands
  <2>6. CASE ~Identify /\ ~Dial /\ ~Verify /\ ~Reread /\ ~Send
    <3>1. /\ UNCHANGED <<ident, tries, sent>>
          /\ stand' \in GateStands => stand' = "identify" \/ UNCHANGED <<stand, conn>>
      BY <1>2, <2>6, GateFrame
    <3>2. stand' \in {"arm", "identify"} \cup (CheckStands \ GateStands) /\ leg' # 6 => sent' = {}
      BY <1>0, <1>2, <3>1, BeforeGate DEF GateExact
    <3> QED BY <1>0, <2>0, <3>1, <3>2 DEF GateExact, TokenToSpareOnly, GateStands
  <2> QED BY <2>1, <2>2, <2>3, <2>4, <2>5, <2>6
<1>3. CASE UNCHANGED smokeVars
  BY <1>0, <1>3 DEF smokeVars, worldVars, jobVars, gateVars, GateExact, TokenToSpareOnly
<1> QED BY <1>1, <1>2, <1>3, SmokeSteps

\* No server comes to hold a lock that is held: launchd and the installers put none
\* in the place of one that is there.
LEMMA LockFrame ==
    ASSUME SmokeInv, Outside, flocked, ~SpareLocked
    PROVE  ~SpareLocked'
<1>0. SmokeTypeOK /\ SpareExact
  BY DEF SmokeInv
<1> USE DEF SpareLocked
<1>1. CASE World
  BY <1>0, <1>1, SpareFacts DEF World, SpareSpawns, SquatterComes, SpareEnds, SpareLeaves,
     SquatterGoes, jobVars
<1>2. ASSUME NEW w \in Installers, InstallerSteps(w) PROVE ~SpareLocked'
  <2>1. CASE BootsOut(w)
    <3>1. service'.def = service.def
      BY <1>0, <2>1, SpareFacts DEF BootsOut, Services, NoService, SmokeTypeOK
    <3> QED BY <2>1, <3>1 DEF BootsOut, InstallerOnly
  <2>2. CASE Bootstraps(w) \/ Kickstarts(w)
    BY <1>0, <2>2 DEF Bootstraps, Kickstarts, InstallerOnly, SpareExact
  <2>3. CASE InstallRenders(w) \/ InstallWrites(w) \/ AwaitsUnload(w) \/ CleansUp(w)
             \/ UninstallRemoves(w) \/ UninstallEnds(w) \/ InstallerFails(w)
    BY <2>3 DEF InstallRenders, InstallWrites, AwaitsUnload, CleansUp, UninstallRemoves,
       UninstallEnds, InstallerFails, InstallerOnly
  <2> QED BY <1>2, <2>1, <2>2, <2>3 DEF InstallerSteps
<1> QED BY <1>1, <1>2 DEF Outside

\* Which steps can lead to the unlink, to the last look, and what each leaves alone.
LEMMA TeardownFrame ==
    ASSUME Harness
    PROVE  /\ stand' = "unlink" => TakeLock \/ UNCHANGED stand
           /\ stand' = "residue" => Look
           /\ reported' # "clean" \/ Residue \/ UNCHANGED reported
           /\ stand # "done"
           /\ UNCHANGED <<spareSock, spareLock>> \/ UnlinkSocket
<1>1. CASE Arm \/ CallInstaller \/ GroupStopped \/ GroupNotStopped \/ BeginTeardown \/ Teardown
           \/ FrozenTeardown \/ UninstallReturns
  BY <1>1 DEF Arm, CallInstaller, GroupStopped, GroupNotStopped, BeginTeardown, Teardown,
     FrozenTeardown, UninstallReturns, Onward, verdictVars, worldVars, diskOfSpare
<1>2. CASE Redelivered \/ InstallerNotStopped \/ Signals
  BY <1>2, CheckEnds DEF Redelivered, InstallerNotStopped, Signals, Interrupted, SignalHeld,
     InterruptedEarly, verdictVars, worldVars, diskOfSpare, CheckStands, GateStands
<1>3. CASE CallReturns \/ Boundary \/ Prepare \/ Observe
  BY <1>3, CheckEnds DEF CallReturns, Boundary, Prepare, Observe, verdictVars, worldVars,
     diskOfSpare
<1>4. CASE Answer \/ Identify \/ Dial \/ Verify \/ Reread \/ Send \/ Confirm
  BY <1>4, CheckEnds DEF Answer, Identify, Dial, Verify, Reread, Send, Confirm, verdictVars,
     worldVars, diskOfSpare
<1>5. CASE NoSocket \/ TakeLock \/ LeaveSocket \/ UnlinkSocket \/ RemoveFiles
  BY <1>5 DEF NoSocket, TakeLock, LeaveSocket, UnlinkSocket, RemoveFiles, Onward, verdictVars,
     worldVars, diskOfSpare
<1>6. CASE Look
  <2>1. stand = "look" /\ stand' = "residue" /\ UNCHANGED <<reported, spareSock, spareLock>>
    BY <1>6 DEF Look, Onward, worldVars, diskOfSpare
  <2> QED BY <1>6, <2>1
<1>7. CASE Residue
  BY <1>7 DEF Residue, Onward, worldVars, diskOfSpare
<1> QED BY <1>1, <1>2, <1>3, <1>4, <1>5, <1>6, <1>7 DEF Harness, HarnessSteps

\* UnlinkExact is preserved: the lock keeps the next server out.
LEMMA UnlinkExactStep == ASSUME SmokeInv, [SmokeNext]_smokeVars PROVE UnlinkExact'
<1>0. HarnessExact /\ UnlinkExact
  BY DEF SmokeInv
<1> USE DEF UnlinkExact
<1>1. CASE Outside
  BY <1>0, <1>1, OutsideFrame, LockFrame DEF HarnessExact
<1>2. CASE Harness
  <2>1. SpareLocked' = SpareLocked
    BY <1>2, HarnessFrame DEF jobVars, SpareLocked
  <2> QED BY <1>0, <1>2, <2>1, TeardownFrame DEF TakeLock
<1>3. CASE UNCHANGED smokeVars
  BY <1>0, <1>3 DEF smokeVars, worldVars, jobVars, SpareLocked
<1> QED BY <1>1, <1>2, <1>3, SmokeSteps

\* SpareSocketKept is preserved.
LEMMA SpareSocketStep == ASSUME SmokeInv, [SmokeNext]_smokeVars PROVE SpareSocketKept'
<1>0. SmokeTypeOK /\ SpareExact /\ UnlinkExact /\ SpareSocketKept
  BY DEF SmokeInv
<1> USE DEF SpareSocketKept, SpareLocked
<1>1. CASE World
  <2>1. CASE SpareLeaves \/ SpareEnds
    BY <1>0, <2>1, SpareFacts DEF SpareLeaves, SpareEnds
  <2>2. CASE SquatterGoes \/ \E p \in Pids : SquatterComes(p)
    BY <1>0, <2>2 DEF SquatterGoes, SquatterComes, diskOfSpare, jobVars
  <2>3. CASE \E p \in Pids : SpareSpawns(p)
    BY <1>0, <2>3 DEF SpareSpawns
  <2> QED BY <1>1, <2>1, <2>2, <2>3 DEF World
<1>2. ASSUME NEW w \in Installers, InstallerSteps(w) PROVE SpareSocketKept'
  <2>1. CASE BootsOut(w)
    <3>1. service'.def = service.def
      BY <1>0, <2>1, SpareFacts DEF BootsOut, Services, NoService, SmokeTypeOK
    <3> QED BY <1>0, <2>1, <3>1 DEF BootsOut, InstallerOnly
  <2>2. CASE Bootstraps(w) \/ Kickstarts(w)
    BY <1>0, <2>2 DEF Bootstraps, Kickstarts, InstallerOnly, SpareExact
  <2>3. CASE InstallRenders(w) \/ InstallWrites(w) \/ AwaitsUnload(w) \/ UninstallRemoves(w)
             \/ InstallerFails(w)
    BY <1>0, <2>3 DEF InstallRenders, InstallWrites, AwaitsUnload, UninstallRemoves,
       InstallerFails, InstallerOnly
  <2>4. CASE CleansUp(w)
    <3>1. SpareLocked => spareSock' = spareSock
      BY <1>0, <2>4 DEF CleansUp, SmokeTypeOK
    <3> QED BY <1>0, <2>4, <3>1 DEF CleansUp, InstallerOnly
  <2>5. CASE UninstallEnds(w)
    BY <1>0, <2>5, SpareFacts DEF UninstallEnds, InstallerOnly
  <2> QED BY <1>2, <2>1, <2>2, <2>3, <2>4, <2>5 DEF InstallerSteps
<1>3. CASE Harness
  <2>1. SpareLocked' = SpareLocked
    BY <1>3, HarnessFrame DEF jobVars
  <2>2. UnlinkSocket => ~SpareLocked
    BY <1>0 DEF UnlinkExact, UnlinkSocket, Onward
  <2>3. UNCHANGED <<spareSock, spareLock>> \/ UnlinkSocket
    BY <1>3, TeardownFrame
  <2> QED BY <1>0, <2>1, <2>2, <2>3
<1>4. CASE UNCHANGED smokeVars
  BY <1>0, <1>4 DEF smokeVars, worldVars, jobVars, diskOfSpare
<1> QED BY <1>1, <1>2, <1>3, <1>4, SmokeSteps DEF Outside

\* Beside an installer that may still run, and where no signal hides the verdict,
\* the harness does nothing but record it and end.
LEMMA AfterStray ==
    ASSUME SmokeTypeOK, HarnessExact, StrayRecorded, ~LateSignals, Harness,
           calls["stray"] # NoCall
    PROVE  /\ UNCHANGED <<worldVars, calls>>
           /\ stand' \in {"switch", "teardown", "done"} /\ recorded' = TRUE
<1>1. CASE stand = "verdict" /\ ending = "unstopped"
  <2>1. InstallerNotStopped \/ FrozenTeardown
    BY <1>1 DEF Harness, HarnessSteps, Signals, Arm, CallInstaller, GroupStopped, GroupNotStopped,
       Redelivered, CallReturns, Boundary, Prepare, Observe, Answer, Identify, Dial, Verify,
       Reread, Send, Confirm, BeginTeardown, Teardown, UninstallReturns, Interrupted,
       NoSocket, TakeLock, LeaveSocket, UnlinkSocket, RemoveFiles, Look, Residue, Onward,
       SignalHeld, InterruptedEarly
  <2> QED BY <2>1, CheckEnds DEF InstallerNotStopped, FrozenTeardown
<1>2. CASE stand \in {"switch", "teardown", "done"} /\ recorded
  <2>1. BeginTeardown \/ FrozenTeardown \/ Interrupted
    BY <1>2 DEF Harness, HarnessSteps, Signals, Arm, CallInstaller, GroupStopped, GroupNotStopped,
       Redelivered, CallReturns, InstallerNotStopped, Boundary, Prepare, Observe, Answer,
       Identify, Dial, Verify, Reread, Send, Confirm, Teardown, UninstallReturns, NoSocket,
       TakeLock, LeaveSocket, UnlinkSocket, RemoveFiles, Look, Residue, Onward, SignalHeld,
       InterruptedEarly
  <2> QED BY <1>2, <2>1, CheckEnds DEF BeginTeardown, FrozenTeardown, Interrupted, Onward, callVars,
          SmokeTypeOK
<1> QED BY <1>1, <1>2 DEF StrayRecorded

\* With no installer left and the job gone, the world brings nothing of the spare back.
LEMMA NothingReturns ==
    ASSUME SmokeTypeOK, Outside, service = NoService, main = 0,
           calls["own"] = NoCall, calls["stray"] = NoCall
    PROVE  /\ UNCHANGED <<service, main, calls, spare, spareSock, spareLock, made>>
<1>1. ASSUME NEW w \in Installers, InstallerSteps(w) PROVE FALSE
  <2>1. calls[w].doing = "none"
    BY DEF Installers, NoCall
  <2> QED BY <1>1, <2>1 DEF InstallerSteps, InstallRenders, InstallWrites, BootsOut, AwaitsUnload,
          Bootstraps, CleansUp, Kickstarts, UninstallRemoves, UninstallEnds, InstallerFails, AtWork
<1>2. World
  BY <1>1 DEF Outside
<1> QED BY <1>2, SpareFacts DEF World, SpareSpawns, SquatterComes, SpareEnds, SpareLeaves,
        SquatterGoes, diskOfSpare, jobVars, callVars

\* VerdictExact is preserved where no signal hides a verdict.
LEMMA VerdictExactStep ==
    ASSUME SmokeInv, ~LateSignals, [SmokeNext]_smokeVars
    PROVE  VerdictExact'
<1>0. /\ SmokeTypeOK /\ HarnessExact /\ StrayExact /\ SpareExact /\ StrayRecorded /\ LookExact
      /\ SpareAsReported
  BY DEF SmokeInv, VerdictExact
<1>1. StrayRecorded'
  <2>1. CASE Outside
    BY <1>0, <2>1, OutsideFrame, InstallersFrame DEF StrayRecorded, Installers
  <2>2. CASE GroupNotStopped
    BY <2>2 DEF GroupNotStopped, StrayRecorded
  <2>3. CASE Harness /\ ~GroupNotStopped
    BY <1>0, <2>3, StrayFrame, AfterStray DEF StrayRecorded
  <2>4. CASE UNCHANGED smokeVars
    BY <1>0, <2>4 DEF smokeVars, callVars, StrayRecorded
  <2> QED BY <2>1, <2>2, <2>3, <2>4, SmokeSteps
<1>2. LookExact'
  <2>1. CASE Outside
    <3>1. ASSUME stand = "residue", ~problems PROVE service' = NoService
      <4>1. calls["own"] = NoCall /\ calls["stray"] = NoCall /\ service = NoService /\ main = 0
        BY <1>0, <3>1 DEF HarnessExact, StrayRecorded, LookExact, SpareExact
      <4> QED BY <1>0, <2>1, <4>1, NothingReturns
    <3> QED BY <2>1, <3>1, OutsideFrame DEF LookExact, verdictVars
  <2>2. CASE Harness
    <3>1. ASSUME Look, ~problems' PROVE service' = NoService
      <4>1. problems' = TRUE \/ problems' = (problems \/ service # NoService)
        BY <3>1 DEF Look
      <4>2. service = NoService
        BY <3>1, <4>1
      <4> QED BY <2>2, <4>2, HarnessFrame DEF jobVars
    <3> QED BY <2>2, <3>1, TeardownFrame DEF LookExact
  <2>3. CASE UNCHANGED smokeVars
    BY <1>0, <2>3 DEF smokeVars, worldVars, jobVars, verdictVars, LookExact
  <2> QED BY <2>1, <2>2, <2>3, SmokeSteps
<1>3. SpareAsReported'
  <2> USE DEF SpareAsReported, Installers
  <2>1. CASE Outside
    <3>1. reported' = reported /\ UNCHANGED <<holder, flocked>>
      BY <2>1, OutsideFrame DEF verdictVars
    <3> QED BY <1>0, <2>1, <3>1, NothingReturns
  <2>2. CASE Residue
    <3>1. ASSUME reported' = "clean"
          PROVE  ~problems /\ spare = "none" /\ ~spareSock /\ ~spareLock /\ made = {}
      BY <2>2, <3>1 DEF Residue
    <3>2. stand = "residue" /\ UNCHANGED <<worldVars, calls, holder, flocked>>
      BY <2>2 DEF Residue, Onward, callVars
    <3>3. calls["own"] = NoCall /\ calls["stray"] = NoCall /\ ~holder /\ ~flocked
      BY <1>0, <3>2 DEF HarnessExact, StrayRecorded, CheckStands, GateStands
    <3>4. ~problems => service = NoService /\ main = 0
      BY <1>0, <3>2 DEF LookExact, SpareExact
    <3> QED BY <3>1, <3>2, <3>3, <3>4 DEF worldVars, diskOfSpare, jobVars
  <2>3. CASE Harness /\ ~Residue
    <3>1. stand # "done" /\ (reported' # "clean" \/ UNCHANGED reported)
      BY <2>3, TeardownFrame
    <3> QED BY <1>0, <3>1 DEF HarnessExact
  <2>4. CASE UNCHANGED smokeVars
    BY <1>0, <2>4 DEF smokeVars, worldVars, diskOfSpare, jobVars, callVars, verdictVars
  <2> QED BY <2>1, <2>2, <2>3, <2>4, SmokeSteps
<1> QED BY <1>1, <1>2, <1>3 DEF VerdictExact

\* Every step preserves the invariant.
LEMMA NextSmokeInv == SmokeInv /\ [SmokeNext]_smokeVars => SmokeInv'
BY SmokeTypeStep, HarnessExactStep, StrayExactStep, SpareExactStep, GateExactStep,
   UnlinkExactStep, SpareSocketStep, VerdictExactStep DEF SmokeInv

\* So it always holds.
LEMMA SpecSmokeInv == SmokeSpec => []SmokeInv
BY InitSmokeInv, NextSmokeInv, PTL DEF SmokeSpec

------------------------------------------------------------------------------
\* Every variable of the harness keeps its type.
THEOREM SmokeTypeCorrect == SmokeSpec => []SmokeTypeOK
<1>1. SmokeInv => SmokeTypeOK
  BY DEF SmokeInv
<1> QED BY <1>1, SpecSmokeInv, PTL

\* Neither the installer nor remove_spare_socket takes the socket or the lock file
\* from a live server of the spare, wherever a signal, a timeout or a failed command
\* cut the run short, an installer that outlived its verdict included.
THEOREM SpareKept == SmokeSpec => []SpareSocketKept
<1>1. SmokeInv => SpareSocketKept
  BY DEF SmokeInv
<1> QED BY <1>1, SpecSmokeInv, PTL

\* connect_verified's checks suffice: no request with a token reaches a process other
\* than the one running_identity read, even one that took the port, or the pid.
THEOREM TokenReaches == SmokeSpec => []TokenToSpareOnly
<1>1. SmokeInv => TokenToSpareOnly
  BY DEF SmokeInv
<1> QED BY <1>1, SpecSmokeInv, PTL

\* A teardown row that passes is true, and stays true, where the handlers of run_owned
\* leave no moment for a signal between a verdict and its record (that moment is
\* what smoke_late_signal shows).
THEOREM ReportTrue == ASSUME ~LateSignals PROVE SmokeSpec => []SpareAsReported
<1>1. SmokeInv => SpareAsReported
  BY DEF SmokeInv, VerdictExact
<1> QED BY <1>1, SpecSmokeInv, PTL

\* Under the same condition run_installer never runs an installer beside one that may
\* still be at work, and the teardown changes nothing (frozen_teardown).
THEOREM OneInstaller == ASSUME ~LateSignals PROVE SmokeSpec => HandsOff
<1>1. ASSUME SmokeInv, [SmokeNext]_smokeVars, calls["stray"] # NoCall
      PROVE  /\ calls'["own"] = NoCall
             /\ stand' # stand =>
                    UNCHANGED <<spare, spareSock, spareLock, made, service, main>>
  <2>0. SmokeTypeOK /\ HarnessExact /\ StrayRecorded /\ calls["own"] = NoCall
    BY <1>1 DEF SmokeInv, VerdictExact, StrayRecorded, HarnessExact
  <2>1. CASE Outside
    BY <2>0, <2>1, OutsideFrame, InstallersFrame DEF Installers
  <2>2. CASE Harness
    BY <1>1, <2>0, <2>2, AfterStray DEF worldVars, diskOfSpare, jobVars
  <2>3. CASE UNCHANGED smokeVars
    BY <2>0, <2>3 DEF smokeVars, callVars
  <2> QED BY <1>1, <2>1, <2>2, <2>3, SmokeSteps
<1>2. SmokeInv /\ [SmokeNext]_smokeVars =>
        [calls["stray"] # NoCall =>
            /\ calls'["own"] = NoCall
            /\ stand' # stand =>
                UNCHANGED <<spare, spareSock, spareLock, made, service, main>>]_smokeVars
  BY <1>1
<1> QED BY <1>2, SpecSmokeInv, PTL DEF SmokeSpec, HandsOff

=============================================================================
