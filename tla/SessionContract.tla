--------------------------- MODULE SessionContract ---------------------------
(***************************************************************************)
(* What a client may rely on in the events of one connection: one          *)
(* utterance at a time, each announced by `committed`, then at most one    *)
(* `delta`, then one `completed` or `failed`; and nothing at all after     *)
(* session.closed.                                                         *)
(***************************************************************************)
VARIABLES
    stage,  \* of the utterance in progress
    ended   \* has session.closed been sent?

contractVars == <<stage, ended>>

ContractInit == stage = "idle" /\ ended = FALSE

\* input_audio_buffer.committed
Announce == stage = "idle" /\ stage' = "committed" /\ UNCHANGED ended

\* ...transcription.delta
Partial == stage = "committed" /\ stage' = "partial" /\ UNCHANGED ended

\* ...transcription.completed or .failed
Conclude == stage \in {"committed", "partial"} /\ stage' = "idle" /\ UNCHANGED ended

\* session.closed, which may come instead of the conclusion
End == ended' = TRUE /\ UNCHANGED stage

ContractNext == ~ended /\ (Announce \/ Partial \/ Conclude \/ End)

ContractSpec == ContractInit /\ [][ContractNext]_contractVars

=============================================================================
