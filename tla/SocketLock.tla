----------------------------- MODULE SocketLock -----------------------------
(***************************************************************************)
(* One Unix socket path and its flock'ed <socket>.lock, shared by the      *)
(* processes that use them: the servers (acquire_socket_lock and the bind  *)
(* in src/stt_server/server.py, after the preflight of                     *)
(* src/stt_server/__main__.py) and the installer's cleanup of a stale      *)
(* socket (scripts/install_stt_agent.sh, unlink_socket_under_lock).        *)
(*                                                                         *)
(* Every process may crash between any two of its system calls: the kernel *)
(* then drops its locks and its listening socket and leaves its socket     *)
(* file.  A process runs once (a restart is another member of Servers) and *)
(* binds at most once, so its name stands for the inode it bound: while it *)
(* listens the kernel keeps that inode from being reused.                  *)
(***************************************************************************)
EXTENDS Naturals, FiniteSets

CONSTANTS
    Servers,    \* server processes
    Cleaners,   \* installer processes
    Nobody,     \* no socket file, no inode, no process
    Stale,      \* the file of a server that died before the model begins
    Attempts    \* flock attempts in _LOCK_RETRY_SECONDS

Procs == Servers \cup Cleaners

\* 0.25 s at one attempt every 10 ms: more attempts than processes that could
\* be in the middle of a probe.
ASSUME SocketLockAssumption ==
    /\ Servers \cap Cleaners = {}
    /\ {Nobody, Stale} \cap Procs = {} /\ Nobody # Stale
    /\ IsFiniteSet(Procs)
    /\ Attempts \in Nat /\ Attempts > Cardinality(Procs)

VARIABLES
    pc,         \* where each process stands
    exclusive,  \* holders of the lock file's exclusive flock
    shared,     \* holders of its shared flock
    lockFile,   \* is there a .lock file?
    path,       \* whose socket file is at the path
    recorded,   \* _bound_socket_id of each server
    tries,      \* failed flock attempts of each server in acquire_socket_lock
    met,        \* the probes and cleanups those attempts met
    by          \* history: the servers that refused a start; for a cleanup,
                \* those that had opened the .lock before its second look

vars == <<pc, exclusive, shared, lockFile, path, recorded, tries, met, by>>

ServerStates ==
    {"off", "probing", "checked", "flock", "locked", "bound", "serving",
     "draining", "exiting", "refused", "gone"}
CleanerStates == {"off", "looked", "unguarded", "guarded", "erasing",
                  "erasingUnguarded", "gone"}

TypeOK ==
    /\ pc \in [Procs -> ServerStates \cup CleanerStates]
    /\ \A p \in Servers : pc[p] \in ServerStates
    /\ \A c \in Cleaners : pc[c] \in CleanerStates
    /\ exclusive \subseteq Servers /\ shared \subseteq Procs
    /\ lockFile \in BOOLEAN
    /\ path \in Servers \cup {Nobody, Stale}
    /\ recorded \in [Servers -> Servers \cup {Nobody, Stale}]
    /\ tries \in [Servers -> 0..Attempts]
    /\ met \in [Servers -> SUBSET Procs]
    /\ by \in [Procs -> SUBSET Servers]

Init ==
    /\ pc = [p \in Procs |-> "off"]
    /\ exclusive = {} /\ shared = {}
    /\ lockFile \in BOOLEAN         \* left by an earlier server, or never made
    /\ path \in {Nobody, Stale}
    /\ recorded = [p \in Servers |-> Nobody]
    /\ tries = [p \in Servers |-> 0]
    /\ met = [p \in Servers |-> {}]
    /\ by = [p \in Procs |-> {}]

\* acquire_socket_lock returned, or the process is gone: its locals with it.
Forget(p) ==
    IF p \in Servers
    THEN /\ tries' = [tries EXCEPT ![p] = 0] /\ met' = [met EXCEPT ![p] = {}]
         /\ by' = [by EXCEPT ![p] = {}]
    ELSE UNCHANGED <<tries, met>> /\ by' = [by EXCEPT ![p] = {}]

Go(p, from, to) == pc[p] = from /\ pc' = [pc EXCEPT ![p] = to]

\* The socket file at the path leads to a process that listens.
Listening(p) == pc[p] \in {"bound", "serving", "draining", "exiting"}
Reach == IF path \in Servers /\ Listening(path) THEN path ELSE Nobody

-----------------------------------------------------------------------------
(* The preflight of the command line.                                      *)

\* socket_lock_held: no .lock file, or no exclusive holder, means not held.
ProbeHeld(p) ==
    /\ lockFile /\ exclusive # {}
    /\ Go(p, "off", "refused")
    /\ by' = [by EXCEPT ![p] = exclusive]
    /\ UNCHANGED <<exclusive, shared, lockFile, path, recorded, tries, met>>

ProbeNoFile(p) ==
    /\ ~lockFile
    /\ Go(p, "off", "checked")
    /\ UNCHANGED <<exclusive, shared, lockFile, path, recorded, tries, met, by>>

ProbeTakes(p) ==
    /\ lockFile /\ exclusive = {}
    /\ Go(p, "off", "probing")
    /\ shared' = shared \cup {p}
    /\ UNCHANGED <<exclusive, lockFile, path, recorded, tries, met, by>>

\* Mutant: the probe does not unlock (its fd leaks).
ProbeReleases_Leak(p) ==
    /\ Go(p, "probing", "checked")
    /\ UNCHANGED <<exclusive, shared, lockFile, path, recorded, tries, met, by>>

ProbeReleases(p) ==
    /\ Go(p, "probing", "checked")
    /\ shared' = shared \ {p}
    /\ UNCHANGED <<exclusive, lockFile, path, recorded, tries, met, by>>

\* connect() got through: somebody serves there.  It may also fail against a
\* server whose backlog is full, so start() below never depends on it.
PreflightConnects(p) ==
    /\ Reach # Nobody
    /\ Go(p, "checked", "refused")
    /\ by' = [by EXCEPT ![p] = {Reach}]
    /\ UNCHANGED <<exclusive, shared, lockFile, path, recorded, tries, met>>

-----------------------------------------------------------------------------
(* start(): acquire_socket_lock, the bind, the drain.                      *)

\* O_CREAT.  An embedder calls start() without the preflight.
OpenLock(p) ==
    /\ Go(p, "checked", "flock") \/ Go(p, "off", "flock")
    /\ lockFile' = TRUE
    /\ UNCHANGED <<exclusive, shared, path, recorded, tries, met, by>>

\* Mutant: LOCK_SH instead of LOCK_EX.
Blockers_Shared == {}

\* Who conflicts with an exclusive flock.
Blockers == exclusive \cup shared

\* 10 ms later: whoever was in the middle of a probe is done with it.
Slept(p) == met[p] \cap shared = {}

Acquire(p) ==
    /\ Blockers = {} /\ Slept(p)
    /\ Go(p, "flock", "locked")
    /\ exclusive' = exclusive \cup {p}
    /\ Forget(p)
    /\ UNCHANGED <<shared, lockFile, path, recorded>>

Remember(p) ==
    /\ met' = [met EXCEPT ![p] = @ \cup shared]
    /\ by' = [by EXCEPT ![p] = @ \cup exclusive]

\* Mutant: no retry.
AcquireFails_NoRetry(p) ==
    /\ Blockers # {} /\ Slept(p)
    /\ Go(p, "flock", "refused")
    /\ Remember(p)
    /\ UNCHANGED <<exclusive, shared, lockFile, path, recorded, tries>>

\* A failed attempt: sleep and retry until the deadline, then EADDRINUSE.
AcquireFails(p) ==
    /\ Blockers # {} /\ Slept(p)
    /\ tries' = [tries EXCEPT ![p] = @ + 1]
    /\ Go(p, "flock", IF tries[p] + 1 = Attempts THEN "refused" ELSE "flock")
    /\ Remember(p)
    /\ UNCHANGED <<exclusive, shared, lockFile, path, recorded>>

\* create_unix_server: remove the file at the path, bind and listen.  It resumes
\* a loop turn later.
Bind(p) ==
    /\ Go(p, "locked", "bound")
    /\ path' = p
    /\ UNCHANGED <<exclusive, shared, lockFile, recorded, tries, met, by>>

\* _bound resumes and records the inode at the path.
Record(p) ==
    /\ Go(p, "bound", "serving")
    /\ recorded' = [recorded EXCEPT ![p] = path]
    /\ UNCHANGED <<exclusive, shared, lockFile, path, tries, met, by>>

\* _unlink_own_socket: only the inode we recorded.
AfterUnlink(p) == IF path = recorded[p] THEN Nobody ELSE path

\* The drain, and the unwinding of a start that bound: unlink, then close.
Withdraw(p) ==
    /\ Go(p, "serving", "draining")
    /\ path' = AfterUnlink(p)
    /\ UNCHANGED <<exclusive, shared, lockFile, recorded, tries, met, by>>

\* abort_sync, when a stop arrives during startup or readiness preparation: the
\* process is about to os._exit and keeps the lock.
AbortSync(p) ==
    /\ \E from \in {"locked", "bound", "serving"} : Go(p, from, "exiting")
    /\ path' = AfterUnlink(p)
    /\ UNCHANGED <<exclusive, shared, lockFile, recorded, tries, met, by>>

\* _transition to "new" or "stopped": the drain is over, the listener closed.
\* From "locked": the backend's start failed.
Release(p) ==
    /\ Go(p, "draining", "gone") \/ Go(p, "locked", "gone")
    /\ exclusive' = exclusive \ {p}
    /\ UNCHANGED <<shared, lockFile, path, recorded, tries, met, by>>

\* os._exit, SIGKILL, a crash: the kernel closes everything the process had.
Dies(p) ==
    /\ pc[p] \notin {"off", "refused", "gone"}
    /\ pc' = [pc EXCEPT ![p] = "gone"]
    /\ exclusive' = exclusive \ {p} /\ shared' = shared \ {p}
    /\ Forget(p)
    /\ UNCHANGED <<lockFile, path, recorded>>

-----------------------------------------------------------------------------
(* unlink_socket_under_lock.                                               *)

\* The first look at the socket and at the .lock entry.
Look(c) ==
    /\ IF path = Nobody THEN Go(c, "off", "gone")
       ELSE Go(c, "off", IF lockFile THEN "looked" ELSE "unguarded")
    /\ UNCHANGED <<exclusive, shared, lockFile, path, recorded, tries, met, by>>

\* Take the shared lock, or leave the socket to the server that holds it.
Guard(c) ==
    /\ IF exclusive # {} THEN Go(c, "looked", "gone") /\ UNCHANGED shared
       ELSE Go(c, "looked", "guarded") /\ shared' = shared \cup {c}
    /\ UNCHANGED <<exclusive, lockFile, path, recorded, tries, met, by>>

\* The servers that have opened the .lock.
Opened == {p \in Servers : pc[p] \in {"flock", "locked", "bound", "serving",
                                       "draining", "exiting"}}

\* Mutant: the .lock entry is not read again.
Rechecked_Blind(c) == TRUE

\* entry(lock) == before: a .lock that appeared since the first look wins.
Rechecked(c) == pc[c] = "unguarded" => ~lockFile

\* The second look.
Recheck(c) ==
    /\ IF path # Nobody /\ Rechecked(c)
       THEN /\ Go(c, "guarded", "erasing") \/ Go(c, "unguarded", "erasingUnguarded")
            /\ by' = [by EXCEPT ![c] = Opened]
            /\ UNCHANGED shared
       ELSE /\ Go(c, "guarded", "gone") \/ Go(c, "unguarded", "gone")
            /\ shared' = shared \ {c}
            /\ UNCHANGED by
    /\ UNCHANGED <<exclusive, lockFile, path, recorded, tries, met>>

Erase(c) ==
    /\ Go(c, "erasing", "gone") \/ Go(c, "erasingUnguarded", "gone")
    /\ path' = Nobody
    /\ shared' = shared \ {c}
    /\ Forget(c)
    /\ UNCHANGED <<exclusive, lockFile, recorded>>

-----------------------------------------------------------------------------

ServerNext(p) ==
    \/ ProbeHeld(p) \/ ProbeNoFile(p) \/ ProbeTakes(p) \/ ProbeReleases(p)
    \/ PreflightConnects(p) \/ OpenLock(p) \/ Acquire(p) \/ AcquireFails(p)
    \/ Bind(p) \/ Record(p) \/ Withdraw(p) \/ AbortSync(p) \/ Release(p)

CleanerNext(c) == Look(c) \/ Guard(c) \/ Recheck(c) \/ Erase(c)

Next ==
    \/ \E p \in Servers : ServerNext(p)
    \/ \E c \in Cleaners : CleanerNext(c)
    \/ \E p \in Procs : Dies(p)

Spec == Init /\ [][Next]_vars

-----------------------------------------------------------------------------
(* Properties                                                              *)

Owner == IF exclusive = {} THEN Nobody ELSE CHOOSE p \in exclusive : TRUE

\* At most one server owns the path, and a connect() reaches the owner or nobody,
\* through crashes, stale files and takeovers.
Contract == INSTANCE SingleServer WITH owner <- Owner, reach <- Reach
ImplementsSingleServer == Contract!SingleSpec

\* A start is refused only because of a server that held the lock or answered at
\* the path meanwhile: the probes of other starters and the installer's cleanup
\* never make one fail, however many overlap its attempts (_LOCK_RETRY_SECONDS).
RefusedByServer == \A p \in Servers : pc[p] = "refused" => by[p] # {}

\* A listening server's socket file is removed by nobody but itself, except by a
\* cleanup that found no .lock at its second look, and then only from a server
\* that made the .lock after it (the window the installer's comment accepts).
SocketKept ==
    [][\A p \in Servers :
         path = p /\ Listening(p) /\ path' # p =>
            \/ pc'[p] # pc[p]
            \/ \E c \in Cleaners : /\ pc[c] = "erasingUnguarded" /\ pc'[c] = "gone"
                                   /\ p \notin by[c]]_vars

\* "A hard exit must not leave a stale socket file behind" (docs/architecture.md):
\* abort_sync leaves no file of this process at the path.
HardExitClean ==
    [][\A p \in Servers : pc[p] # "exiting" /\ pc'[p] = "exiting" => path' # p]_vars

-----------------------------------------------------------------------------
(* The inductive invariant.                                                *)

Owning  == {"locked", "bound", "serving", "draining", "exiting"}
Sharing == {"probing", "guarded", "erasing"}

\* flock: the holders are the processes whose step says so, and an exclusive
\* holder is alone.
FlockExact ==
    /\ exclusive = {p \in Servers : pc[p] \in Owning}
    /\ shared = {p \in Procs : pc[p] \in Sharing}
    /\ exclusive # {} => shared = {}
    /\ \A p, q \in exclusive : p = q

\* Whose file can be at the path, and who knows it as its own.
FileExact ==
    \A p \in Servers :
        /\ path = p => pc[p] \in {"bound", "serving", "exiting", "gone"}
        /\ pc[p] \in {"bound", "serving"} => path \in {p, Nobody}
        /\ recorded[p] \in {Nobody, p}
        /\ pc[p] \in {"off", "probing", "checked", "flock", "locked", "bound"} =>
             recorded[p] = Nobody
        /\ pc[p] = "serving" /\ path = p => recorded[p] = p
        /\ pc[p] \in Owning \cup {"flock"} => lockFile

\* Each failed attempt that met no server met a probe it had not met before.
TriesExact ==
    \A p \in Servers :
        /\ by[p] = {} => tries[p] <= Cardinality(met[p])
        /\ pc[p] = "flock" => tries[p] < Attempts
        /\ pc[p] \notin {"flock", "refused"} => tries[p] = 0

\* A cleanup that is about to erase unguarded saw no server past the .lock.
UnguardedEarly ==
    \A c \in Cleaners : pc[c] = "erasingUnguarded" => by[c] = {}

IInv == TypeOK /\ FlockExact /\ FileExact /\ TriesExact /\ UnguardedEarly /\ RefusedByServer

=============================================================================
