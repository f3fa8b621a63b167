----------------------------- MODULE MCCommands -----------------------------
(***************************************************************************)
(* A small instance of the commands that act on a server from outside its  *)
(* connections: its own command line (Serve), "stt_server prefetch"        *)
(* (Prefetch), the launch agent's script (Agent) and the harness that      *)
(* installs and removes a launch agent under launchd (Smoke).  They share  *)
(* no state, so each behaviour is one of them with the others at rest.     *)
(***************************************************************************)
EXTENDS Serve, Prefetch, Agent, Smoke

CONSTANTS a, b     \* weight files

TheNames == << {a}, {b}, {} >>

CommandsInit ==
    \/ Init /\ PrefetchRest /\ AgentRest /\ SmokeRest
    \/ ServeRest /\ PrefetchInit /\ AgentRest /\ SmokeRest
    \/ ServeRest /\ PrefetchRest /\ AgentInit /\ SmokeRest
    \/ ServeRest /\ PrefetchRest /\ AgentRest /\ SmokeInit

CommandsNext ==
    \/ Next /\ UNCHANGED <<pfVars, agentVars, smokeVars>>
    \/ PrefetchNext /\ UNCHANGED <<vars, agentVars, smokeVars>>
    \/ AgentNext /\ UNCHANGED <<vars, pfVars, smokeVars>>
    \/ SmokeNext /\ UNCHANGED <<vars, pfVars, agentVars>>

CommandsSpec ==
    /\ CommandsInit
    /\ [][CommandsNext]_<<vars, pfVars, agentVars, smokeVars>>
    /\ Fairness /\ SmokeFairness

=============================================================================
