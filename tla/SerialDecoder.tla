---------------------------- MODULE SerialDecoder ----------------------------
(***************************************************************************)
(* What a backend promises its sessions: one model on one device.  Every   *)
(* stream is asked for once and then answered, failed or withdrawn; the    *)
(* device works for one stream at a time; an answer comes only from work   *)
(* the device has finished; and a stream may still reach the device after  *)
(* it was withdrawn, because nothing can stop a decode thread.             *)
(***************************************************************************)
CONSTANT Streams

VARIABLES
    status,   \* of each stream
    device,   \* the streams the device works for
    produced  \* the streams whose work it has finished with a result

vars == <<status, device, produced>>

Init ==
    /\ status = [s \in Streams |-> "new"]
    /\ device = {}
    /\ produced = {}

Ask(s) ==
    /\ status[s] = "new"
    /\ status' = [status EXCEPT ![s] = "asked"]
    /\ UNCHANGED <<device, produced>>

Occupy(s) ==
    /\ device = {} /\ s \notin produced /\ status[s] # "new"
    /\ device' = {s}
    /\ UNCHANGED <<status, produced>>

Release(s) ==
    /\ device = {s}
    /\ device' = {}
    /\ produced' \in {produced, produced \cup {s}}
    /\ UNCHANGED status

Answer(s) ==
    /\ status[s] = "asked" /\ s \in produced
    /\ status' = [status EXCEPT ![s] = "answered"]
    /\ UNCHANGED <<device, produced>>

\* Before the device was reached, on it, or after it.
Fail(s) ==
    /\ status[s] \in {"new", "asked"}
    /\ status' = [status EXCEPT ![s] = "failed"]
    /\ UNCHANGED <<device, produced>>

Withdraw(s) ==
    /\ status[s] = "asked"
    /\ status' = [status EXCEPT ![s] = "withdrawn"]
    /\ UNCHANGED <<device, produced>>

Next ==
    \E s \in Streams :
        Ask(s) \/ Occupy(s) \/ Release(s) \/ Answer(s) \/ Fail(s) \/ Withdraw(s)

DecoderSpec == Init /\ [][Next]_vars

=============================================================================
