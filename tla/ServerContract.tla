--------------------------- MODULE ServerContract ---------------------------
(***************************************************************************)
(* What a TranscriptionServer promises about the single-server lock, as    *)
(* the docstring of the class states it: the lock is taken on the way into *)
(* "starting", work that can touch the socket or the backend exists only   *)
(* while it is held, and it is given back only on the way into "new" or    *)
(* "stopped", with no such work left.  Lifecycle implements this.          *)
(***************************************************************************)

VARIABLES
    phase,   \* the lifecycle state
    held,    \* the single-server lock is held
    busy     \* something of the server can touch the socket or the backend

contractVars == <<phase, held, busy>>

Idle == {"new", "stopped"}

ContractInit == phase = "new" /\ held = FALSE /\ busy = FALSE

\* A start takes the lock before it does anything else.
Begin ==
    /\ phase = "new" /\ phase' = "starting"
    /\ held' = TRUE /\ busy' = TRUE

\* The start succeeded.
Serve ==
    /\ phase = "starting" /\ phase' = "running"
    /\ UNCHANGED held /\ busy' = TRUE

\* shutdown(), or a failed start that left work behind.
Stop ==
    /\ phase \in {"starting", "running"} /\ phase' = "stopping"
    /\ UNCHANGED held /\ busy' \in BOOLEAN

\* Work comes and goes under the lock.
Work ==
    /\ held
    /\ UNCHANGED <<phase, held>> /\ busy' \in BOOLEAN

\* Nothing is left: back to "new" (a failed start) or on to "stopped".
Release ==
    /\ held
    /\ <<phase, phase'>> \in {<<"starting", "new">>, <<"stopping", "stopped">>}
    /\ held' = FALSE /\ busy' = FALSE

\* shutdown() of a server that was never started.
Retire ==
    /\ phase = "new" /\ phase' = "stopped"
    /\ UNCHANGED <<held, busy>>

ContractNext == Begin \/ Serve \/ Stop \/ Work \/ Release \/ Retire

ContractSpec == ContractInit /\ [][ContractNext]_contractVars

=============================================================================
