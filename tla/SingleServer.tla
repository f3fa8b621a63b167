---------------------------- MODULE SingleServer ----------------------------
(***************************************************************************)
(* What the single-server lock promises about one socket path: at most one *)
(* server owns the path, and a connect() to the path reaches that server   *)
(* or nobody.  SocketLock implements this.                                 *)
(***************************************************************************)
CONSTANTS Servers, Nobody

VARIABLES
    owner,   \* the server that may load its model and bind
    reach    \* the server a connect() to the path gets through to

singleVars == <<owner, reach>>

SingleInit == owner = Nobody /\ reach = Nobody

Take == owner = Nobody /\ owner' \in Servers /\ UNCHANGED reach

Publish == owner # Nobody /\ reach = Nobody /\ reach' = owner /\ UNCHANGED owner

Withdraw == reach # Nobody /\ reach' = Nobody /\ UNCHANGED owner

\* The owner's process releases the lock or dies: nobody is reached from then on.
Leave == owner # Nobody /\ owner' = Nobody /\ reach' = Nobody

SingleNext == Take \/ Publish \/ Withdraw \/ Leave

SingleSpec == SingleInit /\ [][SingleNext]_singleVars

=============================================================================
