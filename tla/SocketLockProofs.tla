--------------------------- MODULE SocketLockProofs --------------------------
(***************************************************************************)
(* Theorems about SocketLock, for any set of server launches and installer *)
(* runs.  IInv says who holds the flock, whose file may be at the path and *)
(* what a start that waits for the lock has met.                           *)
(***************************************************************************)
EXTENDS SocketLock, FiniteSetTheorems, TLAPS

\* The constants are different things.
LEMMA Separate ==
    /\ Nobody \notin Servers /\ Stale \notin Servers
    /\ Nobody \notin Cleaners /\ Stale \notin Cleaners /\ Nobody # Stale
    /\ \A p \in Servers : p \notin Cleaners
BY SocketLockAssumption DEF Procs

\* An attempt that fails because of probes alone meets one more of them.
LEMMA OneMore ==
    ASSUME NEW a \in SUBSET Procs, NEW b \in SUBSET Procs, a \cap b = {}, b # {}
    PROVE  /\ Cardinality(a) \in Nat /\ Cardinality(a \cup b) \in Nat
           /\ Cardinality(a) + 1 <= Cardinality(a \cup b)
           /\ Cardinality(a \cup b) < Attempts
<1>1. IsFiniteSet(Procs)
  BY SocketLockAssumption
<1>2. IsFiniteSet(a) /\ IsFiniteSet(a \cup b)
  BY <1>1, FS_Subset
<1>3. PICK x \in b : TRUE
  OBVIOUS
<1>4. Cardinality(a \cup {x}) = Cardinality(a) + 1
  BY <1>2, <1>3, FS_AddElement
<1>5. Cardinality(a \cup {x}) <= Cardinality(a \cup b)
  BY <1>2, <1>3, FS_Subset
<1>6. Cardinality(a \cup b) <= Cardinality(Procs)
  BY <1>1, FS_Subset
<1>7. /\ Cardinality(a) \in Nat /\ Cardinality(a \cup b) \in Nat
      /\ Cardinality(Procs) \in Nat
  BY <1>1, <1>2, FS_CardinalityType
<1>8. QED
  BY <1>4, <1>5, <1>6, <1>7, SocketLockAssumption

LEMMA Enough == Attempts \in Nat /\ Attempts > 0 /\ Cardinality({}) = 0
<1>1. Cardinality({}) = 0
  BY FS_EmptySet
<1>2. Cardinality(Procs) \in Nat
  BY FS_CardinalityType, SocketLockAssumption
<1>3. QED
  BY <1>1, <1>2, SocketLockAssumption

LEMMA InitIInv == Init => IInv
BY SocketLockAssumption, Separate, Enough
   DEF Init, IInv, TypeOK, FlockExact, FileExact, TriesExact, UnguardedEarly,
       RefusedByServer, Procs, ServerStates, CleanerStates, Owning, Sharing

\* TypeOK is preserved.
LEMMA TypeStep ==
    ASSUME IInv, [Next]_vars PROVE TypeOK'
<1> USE SocketLockAssumption, Separate DEF IInv, Procs, TypeOK, ServerStates, CleanerStates, TriesExact, FlockExact
<1>1. CASE \E p \in Servers : ProbeHeld(p)
  BY <1>1 DEF ProbeHeld, Go
<1>2. CASE \E p \in Servers : ProbeNoFile(p)
  BY <1>2 DEF ProbeNoFile, Go
<1>3. CASE \E p \in Servers : ProbeTakes(p)
  BY <1>3 DEF ProbeTakes, Go
<1>4. CASE \E p \in Servers : ProbeReleases(p)
  BY <1>4 DEF ProbeReleases, Go
<1>5. CASE \E p \in Servers : PreflightConnects(p)
  BY <1>5 DEF PreflightConnects, Go, Reach, Listening
<1>6. CASE \E p \in Servers : OpenLock(p)
  BY <1>6 DEF OpenLock, Go
<1>7. CASE \E p \in Servers : Acquire(p)
  BY <1>7 DEF Acquire, Go, Blockers, Slept, Forget
<1>8. CASE \E p \in Servers : AcquireFails(p)
  BY <1>8 DEF AcquireFails, Go, Blockers, Slept, Remember
<1>9. CASE \E p \in Servers : Bind(p)
  BY <1>9 DEF Bind, Go
<1>10. CASE \E p \in Servers : Record(p)
  BY <1>10 DEF Record, Go
<1>11. CASE \E p \in Servers : Withdraw(p)
  BY <1>11 DEF Withdraw, Go, AfterUnlink
<1>12. CASE \E p \in Servers : AbortSync(p)
  BY <1>12 DEF AbortSync, Go, AfterUnlink
<1>13. CASE \E p \in Servers : Release(p)
  BY <1>13 DEF Release, Go
<1>14. CASE \E c \in Cleaners : Look(c)
  BY <1>14 DEF Look, Go
<1>15. CASE \E c \in Cleaners : Guard(c)
  BY <1>15 DEF Guard, Go
<1>16. CASE \E c \in Cleaners : Recheck(c)
  BY <1>16 DEF Recheck, Go, Rechecked, Opened
<1>17. CASE \E c \in Cleaners : Erase(c)
  BY <1>17 DEF Erase, Go, Forget
<1>18. CASE \E x \in Procs : Dies(x)
  BY <1>18 DEF Dies, Go, Forget
<1>19. CASE UNCHANGED vars
  BY <1>19 DEF vars
<1>20. QED
  BY <1>1, <1>2, <1>3, <1>4, <1>5, <1>6, <1>7, <1>8, <1>9, <1>10, <1>11, <1>12, <1>13, <1>14, <1>15, <1>16, <1>17, <1>18, <1>19 DEF Next, ServerNext, CleanerNext

\* FlockExact is preserved.
LEMMA FlockStep ==
    ASSUME IInv, [Next]_vars PROVE FlockExact'
<1> USE SocketLockAssumption, Separate DEF IInv, Procs, TypeOK, FlockExact, Owning, Sharing, ServerStates, CleanerStates
<1>1. CASE \E p \in Servers : ProbeHeld(p)
  BY <1>1 DEF ProbeHeld, Go
<1>2. CASE \E p \in Servers : ProbeNoFile(p)
  BY <1>2 DEF ProbeNoFile, Go
<1>3. CASE \E p \in Servers : ProbeTakes(p)
  BY <1>3 DEF ProbeTakes, Go
<1>4. CASE \E p \in Servers : ProbeReleases(p)
  BY <1>4 DEF ProbeReleases, Go
<1>5. CASE \E p \in Servers : PreflightConnects(p)
  BY <1>5 DEF PreflightConnects, Go, Reach, Listening
<1>6. CASE \E p \in Servers : OpenLock(p)
  BY <1>6 DEF OpenLock, Go
<1>7. CASE \E p \in Servers : Acquire(p)
  BY <1>7 DEF Acquire, Go, Blockers, Slept, Forget
<1>8. CASE \E p \in Servers : AcquireFails(p)
  BY <1>8 DEF AcquireFails, Go, Blockers, Slept, Remember
<1>9. CASE \E p \in Servers : Bind(p)
  BY <1>9 DEF Bind, Go
<1>10. CASE \E p \in Servers : Record(p)
  BY <1>10 DEF Record, Go
<1>11. CASE \E p \in Servers : Withdraw(p)
  BY <1>11 DEF Withdraw, Go, AfterUnlink
<1>12. CASE \E p \in Servers : AbortSync(p)
  BY <1>12 DEF AbortSync, Go, AfterUnlink
<1>13. CASE \E p \in Servers : Release(p)
  BY <1>13 DEF Release, Go
<1>14. CASE \E c \in Cleaners : Look(c)
  BY <1>14 DEF Look, Go
<1>15. CASE \E c \in Cleaners : Guard(c)
  BY <1>15 DEF Guard, Go
<1>16. CASE \E c \in Cleaners : Recheck(c)
  BY <1>16 DEF Recheck, Go, Rechecked, Opened
<1>17. CASE \E c \in Cleaners : Erase(c)
  BY <1>17 DEF Erase, Go, Forget
<1>18. CASE \E x \in Procs : Dies(x)
  BY <1>18 DEF Dies, Go, Forget
<1>19. CASE UNCHANGED vars
  BY <1>19 DEF vars
<1>20. QED
  BY <1>1, <1>2, <1>3, <1>4, <1>5, <1>6, <1>7, <1>8, <1>9, <1>10, <1>11, <1>12, <1>13, <1>14, <1>15, <1>16, <1>17, <1>18, <1>19 DEF Next, ServerNext, CleanerNext

\* FileExact is preserved.
LEMMA FileStep ==
    ASSUME IInv, [Next]_vars PROVE FileExact'
<1> USE SocketLockAssumption, Separate DEF IInv, Procs, TypeOK, FlockExact, FileExact, Owning, ServerStates
<1>1. CASE \E p \in Servers : ProbeHeld(p)
  BY <1>1 DEF ProbeHeld, Go
<1>2. CASE \E p \in Servers : ProbeNoFile(p)
  BY <1>2 DEF ProbeNoFile, Go
<1>3. CASE \E p \in Servers : ProbeTakes(p)
  BY <1>3 DEF ProbeTakes, Go
<1>4. CASE \E p \in Servers : ProbeReleases(p)
  BY <1>4 DEF ProbeReleases, Go
<1>5. CASE \E p \in Servers : PreflightConnects(p)
  BY <1>5 DEF PreflightConnects, Go, Reach, Listening
<1>6. CASE \E p \in Servers : OpenLock(p)
  BY <1>6 DEF OpenLock, Go
<1>7. CASE \E p \in Servers : Acquire(p)
  BY <1>7 DEF Acquire, Go, Blockers, Slept, Forget
<1>8. CASE \E p \in Servers : AcquireFails(p)
  BY <1>8 DEF AcquireFails, Go, Blockers, Slept, Remember
<1>9. CASE \E p \in Servers : Bind(p)
  BY <1>9 DEF Bind, Go
<1>10. CASE \E p \in Servers : Record(p)
  BY <1>10 DEF Record, Go
<1>11. CASE \E p \in Servers : Withdraw(p)
  BY <1>11 DEF Withdraw, Go, AfterUnlink
<1>12. CASE \E p \in Servers : AbortSync(p)
  BY <1>12 DEF AbortSync, Go, AfterUnlink
<1>13. CASE \E p \in Servers : Release(p)
  BY <1>13 DEF Release, Go
<1>14. CASE \E c \in Cleaners : Look(c)
  BY <1>14 DEF Look, Go
<1>15. CASE \E c \in Cleaners : Guard(c)
  BY <1>15 DEF Guard, Go
<1>16. CASE \E c \in Cleaners : Recheck(c)
  BY <1>16 DEF Recheck, Go, Rechecked, Opened
<1>17. CASE \E c \in Cleaners : Erase(c)
  BY <1>17 DEF Erase, Go, Forget
<1>18. CASE \E x \in Procs : Dies(x)
  BY <1>18 DEF Dies, Go, Forget
<1>19. CASE UNCHANGED vars
  BY <1>19 DEF vars
<1>20. QED
  BY <1>1, <1>2, <1>3, <1>4, <1>5, <1>6, <1>7, <1>8, <1>9, <1>10, <1>11, <1>12, <1>13, <1>14, <1>15, <1>16, <1>17, <1>18, <1>19 DEF Next, ServerNext, CleanerNext

\* TriesExact is preserved.
LEMMA TriesStep ==
    ASSUME IInv, [Next]_vars PROVE TriesExact'
<1> USE SocketLockAssumption, Separate DEF IInv, Procs, TypeOK, TriesExact
<1>1. CASE \E p \in Servers : ProbeHeld(p)
  BY <1>1 DEF ProbeHeld, Go
<1>2. CASE \E p \in Servers : ProbeNoFile(p)
  BY <1>2 DEF ProbeNoFile, Go
<1>3. CASE \E p \in Servers : ProbeTakes(p)
  BY <1>3 DEF ProbeTakes, Go
<1>4. CASE \E p \in Servers : ProbeReleases(p)
  BY <1>4 DEF ProbeReleases, Go
<1>5. CASE \E p \in Servers : PreflightConnects(p)
  BY <1>5 DEF PreflightConnects, Go, Reach, Listening
<1>6. CASE \E p \in Servers : OpenLock(p)
  BY <1>6, Enough DEF OpenLock, Go
<1>7. CASE \E p \in Servers : Acquire(p)
  <2>1. PICK p \in Servers : Acquire(p)
    BY <1>7
  <2>2. /\ \A q \in Servers : q # p => /\ tries'[q] = tries[q] /\ met'[q] = met[q]
                                     /\ by'[q] = by[q] /\ pc'[q] = pc[q]
        /\ p \in Servers => tries'[p] = 0 /\ met'[p] = {} /\ pc'[p] = "locked"
    BY <2>1 DEF Acquire, Go, Forget
  <2>3. Cardinality({}) = 0 /\ Attempts \in Nat
    BY Enough
  <2>4. ASSUME NEW q \in Servers
        PROVE  /\ by'[q] = {} => tries'[q] <= Cardinality(met'[q])
               /\ pc'[q] = "flock" => tries'[q] < Attempts
               /\ pc'[q] \notin {"flock", "refused"} => tries'[q] = 0
    <3>1. CASE q = p
      <4>1. tries'[q] = 0 /\ met'[q] = {} /\ pc'[q] = "locked"
        BY <2>2, <3>1
      <4>2. Cardinality(met'[q]) = 0
        BY <2>3, <4>1, Zenon
      <4>3. QED
        BY <2>3, <4>1, <4>2
    <3>2. CASE q # p
      BY <2>2, <3>2
    <3>3. QED
      BY <3>1, <3>2
  <2>5. QED
    BY <2>4
<1>8. CASE \E p \in Servers : AcquireFails(p)
  <2>1. PICK p \in Servers : AcquireFails(p)
    BY <1>8
  <2>2. Cardinality({}) = 0 /\ Attempts \in Nat
    BY Enough
  <2>3. /\ pc[p] = "flock" /\ tries[p] \in Nat /\ tries[p] < Attempts
        /\ met[p] \in SUBSET Procs /\ shared \in SUBSET Procs
    BY <2>1 DEF AcquireFails, Go
  <2>4. CASE exclusive # {}
    <3>1. by'[p] # {}
      BY <2>1, <2>4 DEF AcquireFails, Remember
    <3>2. QED
      BY <2>1, <2>3, <3>1 DEF AcquireFails, Go, Remember
  <2>5. CASE exclusive = {}
    <3>1. /\ shared # {} /\ met[p] \cap shared = {}
          /\ by' = by /\ met'[p] = met[p] \cup shared
      BY <2>1, <2>5 DEF AcquireFails, Blockers, Slept, Remember
    <3>2. /\ Cardinality(met[p]) \in Nat /\ Cardinality(met'[p]) \in Nat
          /\ Cardinality(met[p]) + 1 <= Cardinality(met'[p])
          /\ Cardinality(met'[p]) < Attempts
      BY <2>3, <3>1, OneMore
    <3>3. by[p] = {} => tries[p] + 1 <= Cardinality(met'[p])
      BY <2>3, <3>2
    <3>4. QED
      BY <2>1, <2>2, <2>3, <3>1, <3>2, <3>3 DEF AcquireFails, Go, Remember
  <2>6. QED
    BY <2>4, <2>5
<1>9. CASE \E p \in Servers : Bind(p)
  BY <1>9 DEF Bind, Go
<1>10. CASE \E p \in Servers : Record(p)
  BY <1>10 DEF Record, Go
<1>11. CASE \E p \in Servers : Withdraw(p)
  BY <1>11 DEF Withdraw, Go, AfterUnlink
<1>12. CASE \E p \in Servers : AbortSync(p)
  BY <1>12 DEF AbortSync, Go, AfterUnlink
<1>13. CASE \E p \in Servers : Release(p)
  BY <1>13 DEF Release, Go
<1>14. CASE \E c \in Cleaners : Look(c)
  BY <1>14 DEF Look, Go
<1>15. CASE \E c \in Cleaners : Guard(c)
  BY <1>15 DEF Guard, Go
<1>16. CASE \E c \in Cleaners : Recheck(c)
  BY <1>16 DEF Recheck, Go, Rechecked, Opened
<1>17. CASE \E c \in Cleaners : Erase(c)
  BY <1>17 DEF Erase, Go, Forget
<1>18. CASE \E x \in Procs : Dies(x)
  <2>1. PICK x \in Procs : Dies(x)
    BY <1>18
  <2>2. /\ \A q \in Servers : q # x => /\ tries'[q] = tries[q] /\ met'[q] = met[q]
                                     /\ by'[q] = by[q] /\ pc'[q] = pc[q]
        /\ x \in Servers => tries'[x] = 0 /\ met'[x] = {} /\ pc'[x] = "gone"
    BY <2>1 DEF Dies, Go, Forget
  <2>3. Cardinality({}) = 0 /\ Attempts \in Nat
    BY Enough
  <2>4. ASSUME NEW q \in Servers
        PROVE  /\ by'[q] = {} => tries'[q] <= Cardinality(met'[q])
               /\ pc'[q] = "flock" => tries'[q] < Attempts
               /\ pc'[q] \notin {"flock", "refused"} => tries'[q] = 0
    <3>1. CASE q = x
      <4>1. tries'[q] = 0 /\ met'[q] = {} /\ pc'[q] = "gone"
        BY <2>2, <3>1
      <4>2. Cardinality(met'[q]) = 0
        BY <2>3, <4>1, Zenon
      <4>3. QED
        BY <2>3, <4>1, <4>2
    <3>2. CASE q # x
      BY <2>2, <3>2
    <3>3. QED
      BY <3>1, <3>2
  <2>5. QED
    BY <2>4
<1>19. CASE UNCHANGED vars
  BY <1>19 DEF vars
<1>20. QED
  BY <1>1, <1>2, <1>3, <1>4, <1>5, <1>6, <1>7, <1>8, <1>9, <1>10, <1>11, <1>12, <1>13, <1>14, <1>15, <1>16, <1>17, <1>18, <1>19 DEF Next, ServerNext, CleanerNext

\* RefusedByServer is preserved.
LEMMA RefusedStep ==
    ASSUME IInv, [Next]_vars PROVE RefusedByServer'
<1> USE SocketLockAssumption, Separate DEF IInv, Procs, TypeOK, RefusedByServer, TriesExact, ServerStates
<1>1. CASE \E p \in Servers : ProbeHeld(p)
  BY <1>1 DEF ProbeHeld, Go
<1>2. CASE \E p \in Servers : ProbeNoFile(p)
  BY <1>2 DEF ProbeNoFile, Go
<1>3. CASE \E p \in Servers : ProbeTakes(p)
  BY <1>3 DEF ProbeTakes, Go
<1>4. CASE \E p \in Servers : ProbeReleases(p)
  BY <1>4 DEF ProbeReleases, Go
<1>5. CASE \E p \in Servers : PreflightConnects(p)
  BY <1>5 DEF PreflightConnects, Go, Reach, Listening
<1>6. CASE \E p \in Servers : OpenLock(p)
  BY <1>6 DEF OpenLock, Go
<1>7. CASE \E p \in Servers : Acquire(p)
  BY <1>7 DEF Acquire, Go, Blockers, Slept, Forget
<1>8. CASE \E p \in Servers : AcquireFails(p)
  <2>1. PICK p \in Servers : AcquireFails(p)
    BY <1>8
  <2>2. Cardinality({}) = 0 /\ Attempts \in Nat
    BY Enough
  <2>3. /\ pc[p] = "flock" /\ tries[p] \in Nat /\ tries[p] < Attempts
        /\ met[p] \in SUBSET Procs /\ shared \in SUBSET Procs
    BY <2>1 DEF AcquireFails, Go
  <2>4. CASE exclusive # {}
    <3>1. by'[p] # {}
      BY <2>1, <2>4 DEF AcquireFails, Remember
    <3>2. QED
      BY <2>1, <2>3, <3>1 DEF AcquireFails, Go, Remember
  <2>5. CASE exclusive = {}
    <3>1. /\ shared # {} /\ met[p] \cap shared = {}
          /\ by' = by /\ met'[p] = met[p] \cup shared
      BY <2>1, <2>5 DEF AcquireFails, Blockers, Slept, Remember
    <3>2. /\ Cardinality(met[p]) \in Nat /\ Cardinality(met'[p]) \in Nat
          /\ Cardinality(met[p]) + 1 <= Cardinality(met'[p])
          /\ Cardinality(met'[p]) < Attempts
      BY <2>3, <3>1, OneMore
    <3>3. by[p] = {} => tries[p] + 1 <= Cardinality(met'[p])
      BY <2>3, <3>2
    <3>4. QED
      BY <2>1, <2>2, <2>3, <3>1, <3>2, <3>3 DEF AcquireFails, Go, Remember
  <2>6. QED
    BY <2>4, <2>5
<1>9. CASE \E p \in Servers : Bind(p)
  BY <1>9 DEF Bind, Go
<1>10. CASE \E p \in Servers : Record(p)
  BY <1>10 DEF Record, Go
<1>11. CASE \E p \in Servers : Withdraw(p)
  BY <1>11 DEF Withdraw, Go, AfterUnlink
<1>12. CASE \E p \in Servers : AbortSync(p)
  BY <1>12 DEF AbortSync, Go, AfterUnlink
<1>13. CASE \E p \in Servers : Release(p)
  BY <1>13 DEF Release, Go
<1>14. CASE \E c \in Cleaners : Look(c)
  BY <1>14 DEF Look, Go
<1>15. CASE \E c \in Cleaners : Guard(c)
  BY <1>15 DEF Guard, Go
<1>16. CASE \E c \in Cleaners : Recheck(c)
  BY <1>16 DEF Recheck, Go, Rechecked, Opened
<1>17. CASE \E c \in Cleaners : Erase(c)
  BY <1>17 DEF Erase, Go, Forget
<1>18. CASE \E x \in Procs : Dies(x)
  BY <1>18 DEF Dies, Go, Forget
<1>19. CASE UNCHANGED vars
  BY <1>19 DEF vars
<1>20. QED
  BY <1>1, <1>2, <1>3, <1>4, <1>5, <1>6, <1>7, <1>8, <1>9, <1>10, <1>11, <1>12, <1>13, <1>14, <1>15, <1>16, <1>17, <1>18, <1>19 DEF Next, ServerNext, CleanerNext

\* UnguardedEarly is preserved.
LEMMA UnguardedStep ==
    ASSUME IInv, [Next]_vars PROVE UnguardedEarly'
<1> USE SocketLockAssumption, Separate DEF IInv, Procs, TypeOK, UnguardedEarly, FileExact, Owning
<1>1. CASE \E p \in Servers : ProbeHeld(p)
  BY <1>1 DEF ProbeHeld, Go
<1>2. CASE \E p \in Servers : ProbeNoFile(p)
  BY <1>2 DEF ProbeNoFile, Go
<1>3. CASE \E p \in Servers : ProbeTakes(p)
  BY <1>3 DEF ProbeTakes, Go
<1>4. CASE \E p \in Servers : ProbeReleases(p)
  BY <1>4 DEF ProbeReleases, Go
<1>5. CASE \E p \in Servers : PreflightConnects(p)
  BY <1>5 DEF PreflightConnects, Go, Reach, Listening
<1>6. CASE \E p \in Servers : OpenLock(p)
  BY <1>6 DEF OpenLock, Go
<1>7. CASE \E p \in Servers : Acquire(p)
  BY <1>7 DEF Acquire, Go, Blockers, Slept, Forget
<1>8. CASE \E p \in Servers : AcquireFails(p)
  BY <1>8 DEF AcquireFails, Go, Blockers, Slept, Remember
<1>9. CASE \E p \in Servers : Bind(p)
  BY <1>9 DEF Bind, Go
<1>10. CASE \E p \in Servers : Record(p)
  BY <1>10 DEF Record, Go
<1>11. CASE \E p \in Servers : Withdraw(p)
  BY <1>11 DEF Withdraw, Go, AfterUnlink
<1>12. CASE \E p \in Servers : AbortSync(p)
  BY <1>12 DEF AbortSync, Go, AfterUnlink
<1>13. CASE \E p \in Servers : Release(p)
  BY <1>13 DEF Release, Go
<1>14. CASE \E c \in Cleaners : Look(c)
  BY <1>14 DEF Look, Go
<1>15. CASE \E c \in Cleaners : Guard(c)
  BY <1>15 DEF Guard, Go
<1>16. CASE \E c \in Cleaners : Recheck(c)
  BY <1>16 DEF Recheck, Go, Rechecked, Opened
<1>17. CASE \E c \in Cleaners : Erase(c)
  BY <1>17 DEF Erase, Go, Forget
<1>18. CASE \E x \in Procs : Dies(x)
  BY <1>18 DEF Dies, Go, Forget
<1>19. CASE UNCHANGED vars
  BY <1>19 DEF vars
<1>20. QED
  BY <1>1, <1>2, <1>3, <1>4, <1>5, <1>6, <1>7, <1>8, <1>9, <1>10, <1>11, <1>12, <1>13, <1>14, <1>15, <1>16, <1>17, <1>18, <1>19 DEF Next, ServerNext, CleanerNext

LEMMA StepIInv == IInv /\ [Next]_vars => IInv'
<1> SUFFICES ASSUME IInv, [Next]_vars PROVE IInv'
  OBVIOUS
<1>1. TypeOK' /\ FlockExact' /\ FileExact'
  BY TypeStep, FlockStep, FileStep
<1>2. TriesExact' /\ RefusedByServer' /\ UnguardedEarly'
  BY TriesStep, RefusedStep, UnguardedStep
<1>3. QED
  BY <1>1, <1>2 DEF IInv

\* Every reachable state of the lock, the path and the processes satisfies IInv.
THEOREM SocketLockInvariance == Spec => []IInv
<1>1. QED
  BY InitIInv, StepIInv, PTL DEF Spec

\* A start is refused only because of a server, whatever probes overlap it.
THEOREM OnlyAServerRefuses == Spec => []RefusedByServer
<1>1. IInv => RefusedByServer
  BY DEF IInv
<1>2. QED
  BY <1>1, SocketLockInvariance, PTL

\* In a state of IInv the owner is the holder of the flock, and whoever can be
\* reached is the owner.
OwnerKnown ==
    /\ exclusive = {} => Owner = Nobody
    /\ exclusive # {} => Owner \in Servers /\ exclusive = {Owner}
    /\ Owner = Nobody => exclusive = {}
    /\ Reach # Nobody => Reach = Owner
    /\ \A p \in Servers : pc[p] \in Owning => exclusive = {p} /\ Owner = p

LEMMA OwnerFacts == IInv => OwnerKnown
<1> SUFFICES ASSUME IInv PROVE OwnerKnown
  OBVIOUS
<1> USE Separate DEF IInv, TypeOK, FlockExact, OwnerKnown
<1>1. exclusive # {} => Owner \in exclusive
  BY DEF Owner
<1>2. exclusive # {} => Owner \in Servers /\ exclusive = {Owner}
  BY <1>1
<1>3. exclusive = {} => Owner = Nobody
  BY DEF Owner
<1>4. \A p \in Servers : pc[p] \in Owning => exclusive = {p} /\ Owner = p
  BY <1>2
<1>5. Reach # Nobody => Reach = Owner
  BY <1>4 DEF Reach, Listening, Owning
<1>6. QED
  BY <1>2, <1>3, <1>4, <1>5

\* Each step takes, publishes, withdraws or leaves the path, or changes nothing
\* of the two.
LEMMA StepContract ==
    ASSUME IInv, [Next]_vars
    PROVE  Contract!SingleNext \/ UNCHANGED <<Owner, Reach>>
<1>1. IInv'
  BY StepIInv
<1>2. OwnerKnown /\ OwnerKnown'
  BY <1>1, OwnerFacts, PTL
<1> USE Separate DEF IInv, TypeOK, FlockExact, OwnerKnown
<1>3. CASE \E p \in Servers : Acquire(p)
  <2>1. PICK p \in Servers : Acquire(p)
    BY <1>3
  <2>2. exclusive = {} /\ exclusive' = {p} /\ Owner = Nobody /\ Owner' = p /\ Reach = Nobody
    BY <1>2, <2>1 DEF Acquire, Blockers
  <2>3. Reach' = Nobody
    BY <2>1, <2>2 DEF Acquire, Go, Reach, Listening, Owning
  <2>4. QED
    BY <2>2, <2>3 DEF Contract!SingleNext, Contract!Take
<1>4. CASE exclusive' = {} /\ exclusive # {}
  BY <1>2, <1>4 DEF Contract!SingleNext, Contract!Leave
<1>5. CASE exclusive' = exclusive
  <2>1. Owner' = Owner
    BY <1>2, <1>5
  <2>2. Reach = Nobody \/ Reach = Owner
    BY <1>2
  <2>3. Reach' = Nobody \/ Reach' = Owner
    BY <1>2, <2>1
  <2>4. QED
    BY <2>1, <2>2, <2>3
       DEF Contract!SingleNext, Contract!Publish, Contract!Withdraw
<1>6. exclusive' = exclusive \/ (exclusive' = {} /\ exclusive # {}) \/ \E p \in Servers : Acquire(p)
  <2>1. ASSUME NEW p \in Procs
        PROVE exclusive' = exclusive \ {p} => exclusive' = exclusive \/ exclusive' = {}
    OBVIOUS
  <2>2. CASE \E p \in Servers : Release(p)
    BY <2>1, <2>2 DEF Release, Procs
  <2>3. CASE \E p \in Procs : Dies(p)
    BY <2>1, <2>3 DEF Dies
  <2>4. CASE /\ ~\E p \in Servers : Release(p) \/ Acquire(p)
             /\ ~\E p \in Procs : Dies(p)
    BY <2>4 DEF Next, ServerNext, CleanerNext, vars, ProbeHeld, ProbeNoFile, ProbeTakes,
                ProbeReleases, PreflightConnects, OpenLock, AcquireFails, Bind,
                Record, Withdraw, AbortSync, Look, Guard, Recheck, Erase
  <2>5. QED
    BY <2>2, <2>3, <2>4
<1>7. QED
  BY <1>3, <1>4, <1>5, <1>6

\* At most one server owns the path, and nobody else is ever reached through it:
\* SocketLock implements SingleServer.
THEOREM LockImplementsSingleServer == Spec => ImplementsSingleServer
<1>1. Init => Contract!SingleInit
  BY Separate DEF Init, Contract!SingleInit, Owner, Reach
<1>2. IInv /\ [Next]_vars => [Contract!SingleNext]_Contract!singleVars
  BY StepContract DEF Contract!singleVars
<1>3. QED
  BY <1>1, <1>2, SocketLockInvariance, PTL
     DEF Spec, ImplementsSingleServer, Contract!SingleSpec

\* One step: who may remove the file of a listening server.
LEMMA StepKept ==
    ASSUME IInv, [Next]_vars, NEW p \in Servers, path = p, Listening(p), path' # p,
           pc'[p] = pc[p]
    PROVE  \E c \in Cleaners : /\ pc[c] = "erasingUnguarded" /\ pc'[c] = "gone"
                              /\ p \notin by[c]
<1> USE SocketLockAssumption, Separate DEF IInv, TypeOK, FlockExact, FileExact, Procs
<1>1. p \in exclusive /\ shared = {} /\ exclusive = {p}
  BY DEF Listening, Owning
<1>2. CASE \E c \in Cleaners : Erase(c)
  BY <1>1, <1>2 DEF Erase, Go, Sharing, UnguardedEarly
<1>3. CASE \E q \in Servers : Bind(q)
  BY <1>1, <1>3 DEF Bind, Go, Owning, Listening
<1>4. CASE \E q \in Servers : Withdraw(q) \/ AbortSync(q)
  BY <1>4 DEF Withdraw, AbortSync, AfterUnlink, Go
<1>5. CASE path' = path
  BY <1>5
<1>6. QED
  BY <1>2, <1>3, <1>4, <1>5
     DEF Next, ServerNext, CleanerNext, vars, ProbeHeld, ProbeNoFile, ProbeTakes,
         ProbeReleases, PreflightConnects, OpenLock, Acquire, AcquireFails, Record,
         Release, Look, Guard, Recheck, Dies

\* A listening server's file is removed only by itself or in the accepted window.
THEOREM SocketIsKept == Spec => SocketKept
<1> DEFINE Kept ==
      \A p \in Servers :
         path = p /\ Listening(p) /\ path' # p =>
            \/ pc'[p] # pc[p]
            \/ \E c \in Cleaners : /\ pc[c] = "erasingUnguarded" /\ pc'[c] = "gone"
                                   /\ p \notin by[c]
<1>1. IInv /\ [Next]_vars => [Kept]_vars
  BY StepKept
<1>2. QED
  BY <1>1, SocketLockInvariance, PTL DEF Spec, SocketKept

=============================================================================
