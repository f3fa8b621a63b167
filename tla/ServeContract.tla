---------------------------- MODULE ServeContract ----------------------------
(***************************************************************************)
(* What serve() and the command line around it promise whoever started     *)
(* them (docstring of serve(), docs/architecture.md "Supervised mode"):    *)
(* "ready" is said at most once, first, and never after a stop; a failure  *)
(* is told at most once, last, and it is the first one that happened; an   *)
(* end without a failure is a success, an end with one is told as long as  *)
(* somebody can hear it.  Serve implements this.                           *)
(***************************************************************************)
EXTENDS Sequences

CONSTANT Causes     \* what can fail

VARIABLES
    asked,   \* a stop was requested
    heard,   \* somebody still reads what is told
    cause,   \* the first failure
    told,    \* the events told so far
    ended    \* how it ended

contractVars == <<asked, heard, cause, told, ended>>

Explained(c, events) == events # <<>> /\ events[Len(events)] = c

ContractInit ==
    asked = FALSE /\ heard = TRUE /\ cause = "none" /\ told = <<>> /\ ended = "no"

Ask == ~asked /\ asked' = TRUE /\ UNCHANGED <<heard, cause, told, ended>>

HangUp == heard /\ heard' = FALSE /\ UNCHANGED <<asked, cause, told, ended>>

Ready ==
    /\ ended = "no" /\ ~asked /\ cause = "none" /\ told = <<>>
    /\ told' = <<"ready">>
    /\ UNCHANGED <<asked, heard, cause, ended>>

\* A cancellation of serve() is a stop of its own kind: asked may become true.
Break ==
    /\ ended = "no" /\ cause = "none"
    /\ cause' \in Causes /\ asked' \in {asked, TRUE}
    /\ UNCHANGED <<heard, told, ended>>

Succeed ==
    /\ ended = "no" /\ cause = "none"
    /\ ended' = "ok"
    /\ UNCHANGED <<asked, heard, cause, told>>

\* The last failure to come may be the first one, at the very end.
Fail ==
    /\ ended = "no" /\ ended' = "fail"
    /\ cause' \in (IF cause = "none" THEN Causes ELSE {cause})
    /\ told' \in {told, Append(told, cause')}
    /\ heard => told' # told
    /\ UNCHANGED <<asked, heard>>

ContractNext == Ask \/ HangUp \/ Ready \/ Break \/ Succeed \/ Fail

ContractSpec == ContractInit /\ [][ContractNext]_contractVars

=============================================================================
