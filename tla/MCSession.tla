----------------------------- MODULE MCSession -----------------------------
(***************************************************************************)
(* A small instance of the two ends of a connection: the session in the    *)
(* server, with its write buffer and tasks (Session), and the service that *)
(* talks to such a session segment after segment (Client).  Client has its *)
(* own, coarser view of the other end, so the two share no state and each  *)
(* behaviour is one of them with the other at rest.                        *)
(***************************************************************************)
EXTENDS Session, Client

\* A connection that is gone, in a server that has stopped.
SessionRest ==
    /\ conn = "lost" /\ pending = 0 /\ paused = FALSE /\ mutex = {}
    /\ handler = "over" /\ decode = "none"
    /\ todo = [t \in Tasks |-> <<>>] /\ io = [t \in Tasks |-> "run"]
    /\ asked = {} /\ buffer = 0 /\ closed = TRUE /\ stopping = TRUE
    /\ view = [stage |-> "idle", ended |-> FALSE]

ConnectionInit == \/ Init /\ ClientRest
                  \/ SessionRest /\ ClientInit

ConnectionNext ==
    \/ Next /\ UNCHANGED clientVars
    \/ ClientNext /\ UNCHANGED vars

ConnectionSpec ==
    /\ ConnectionInit /\ [][ConnectionNext]_<<vars, clientVars>>
    /\ LoopFairness /\ WF_vars(ClientReads)
    /\ ClientFairness

=============================================================================
