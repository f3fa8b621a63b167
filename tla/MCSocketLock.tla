---------------------------- MODULE MCSocketLock ----------------------------
(* Three server launches and two installer runs.  The launches are         *)
(* interchangeable and every property checked is a safety property.        *)
EXTENDS SocketLock, TLC

Symmetry == Permutations(Servers) \cup Permutations(Cleaners)

=============================================================================
