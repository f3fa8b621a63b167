--------------------------- MODULE MCDecodeGuard ---------------------------
(* Instances of DecodeGuard for TLC. *)
EXTENDS DecodeGuard

CONSTANTS u1, u2, u3

ThreeStreams == {u1, u2, u3}
=============================================================================
