---------------------------- MODULE MCLifecycle ----------------------------
(* Instances of Lifecycle for TLC. *)
EXTENDS Lifecycle, TLC

CONSTANTS s1, s2

OneSession  == {s1}
TwoSessions == {s1, s2}

\* Sessions are interchangeable.
Symmetry == Permutations(TwoSessions)

\* The process that ignores the lock acts on a running server, on a starting one,
\* or never.
WhileRunning  == {"running"}
WhileStarting == {"starting"}
Never == {}
=============================================================================
