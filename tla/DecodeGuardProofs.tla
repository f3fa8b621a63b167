------------------------- MODULE DecodeGuardProofs -------------------------
(***************************************************************************)
(* Proofs about DecodeGuard for any finite set of streams and every kind   *)
(* of backend: the in-flight count is exact, a drained close() and a       *)
(* completed idle() leave no thread, _decode_lock is never lost or shared, *)
(* and the guard implements the one-device contract.                       *)
(***************************************************************************)
EXTENDS DecodeGuard, FiniteSetTheorems, SequenceTheorems, TLAPS

(* Finite sets of threads. *)

\* The live threads can be counted.
LEMMA LiveThreadsFinite ==
  /\ IsFiniteSet(LiveThreads)
  /\ Cardinality(LiveThreads) \in Nat
  /\ Cardinality(LiveThreads) = 0 => LiveThreads = {}
<1>1. LiveThreads \in SUBSET Streams
  BY DEF LiveThreads
<1>2. IsFiniteSet(LiveThreads)
  BY <1>1, FS_Subset, GuardAssumption
<1> QED BY <1>2, FS_CardinalityType, FS_EmptySet

\* A thread that starts is counted, one that ends is not.
LEMMA CountStart ==
  ASSUME NEW s, s \notin LiveThreads, LiveThreads' = LiveThreads \cup {s}
  PROVE  Cardinality(LiveThreads') = Cardinality(LiveThreads) + 1
BY LiveThreadsFinite, FS_AddElement

LEMMA CountEnd ==
  ASSUME NEW s \in LiveThreads, LiveThreads' = LiveThreads \ {s}
  PROVE  Cardinality(LiveThreads') = Cardinality(LiveThreads) - 1
BY LiveThreadsFinite, FS_RemoveElement

(* The waiters of _decode_lock. *)

\* Dropping a waiter keeps the others, in order.
LEMMA WithoutOthers ==
  ASSUME TypeOK, QueueExact, NEW s \in Streams, task[s] = "queued"
  PROVE  \E i \in 1 .. Len(queue) :
           /\ queue[i] = s
           /\ Without(s) \in Seq(Streams)
           /\ Len(Without(s)) = Len(queue) - 1
           /\ \A k \in 1 .. Len(queue) - 1 :
                Without(s)[k] = IF k < i THEN queue[k] ELSE queue[k + 1]
<1> DEFINE i == CHOOSE j \in 1 .. Len(queue) : queue[j] = s
<1>1. i \in 1 .. Len(queue) /\ queue[i] = s
  BY DEF QueueExact
<1>2. queue \in Seq(Streams)
  BY DEF TypeOK
<1> DEFINE a == SubSeq(queue, 1, i - 1)
           b == SubSeq(queue, i + 1, Len(queue))
<1>3. Without(s) = a \o b
  BY DEF Without
<1> HIDE DEF i
<1>4. /\ a \in Seq(Streams) /\ Len(a) = i - 1
      /\ \A k \in 1 .. i - 1 : a[k] = queue[k]
  BY <1>1, <1>2
<1>5. /\ b \in Seq(Streams) /\ Len(b) = Len(queue) - i
      /\ \A k \in 1 .. Len(queue) - i : b[k] = queue[k + i]
  BY <1>1, <1>2
<1> HIDE DEF a, b
<1>6. /\ a \o b \in Seq(Streams) /\ Len(a \o b) = Len(a) + Len(b)
      /\ \A k \in 1 .. Len(a) + Len(b) :
           (a \o b)[k] = IF k <= Len(a) THEN a[k] ELSE b[k - Len(a)]
  BY <1>4, <1>5, ConcatProperties, Zenon
<1>7. ASSUME NEW k \in 1 .. Len(queue) - 1
      PROVE  Without(s)[k] = IF k < i THEN queue[k] ELSE queue[k + 1]
  <2>1. k \in 1 .. Len(a) + Len(b)
    BY <1>1, <1>2, <1>4, <1>5
  <2>2. CASE k < i
    BY <1>1, <1>2, <1>3, <1>4, <1>6, <2>1, <2>2
  <2>3. CASE ~ k < i
    <3>1. Without(s)[k] = b[k - Len(a)]
      BY <1>1, <1>2, <1>3, <1>4, <1>6, <2>1, <2>3
    <3>2. k - Len(a) \in 1 .. Len(queue) - i /\ k - Len(a) + i = k + 1
      BY <1>1, <1>2, <1>4, <2>3
    <3> QED BY <2>3, <1>5, <3>1, <3>2
  <2> QED BY <2>2, <2>3
<1>8. Len(Without(s)) = Len(queue) - 1
  BY <1>1, <1>2, <1>3, <1>4, <1>5, <1>6
<1> QED BY <1>1, <1>3, <1>6, <1>7, <1>8

\* Launching a decode that has no thread counts it, if its thread starts.
LEMMA LaunchCounts ==
  ASSUME TypeOK, ThreadsFollowTasks, InflightExact, NEW s \in Streams,
         task[s] \in {"new", "queued"}, Launch(s)
  PROVE  InflightExact'
<1>1. s \notin LiveThreads
  BY DEF ThreadsFollowTasks, LiveThreads
<1>2. CASE thread' = thread /\ inflight' = inflight
  <2>1. LiveThreads' = LiveThreads
    BY <1>2 DEF LiveThreads
  <2> QED BY <1>2, <2>1 DEF InflightExact
<1>3. CASE thread' = [thread EXCEPT ![s] = "started"] /\ inflight' = inflight + 1
  <2>1. LiveThreads' = LiveThreads \cup {s}
    BY <1>3 DEF LiveThreads, TypeOK
  <2> QED BY <1>1, <1>3, <2>1, CountStart DEF InflightExact
<1> QED BY <1>2, <1>3 DEF Launch

\* The waiter that gets the lock is queued and was not asked to cancel, so the
\* backend is up.
LEMMA AcquireWhen ==
  ASSUME GuardInv, NEW s \in Streams, Acquire(s)
  PROVE  task[s] = "queued" /\ s \notin asked /\ phase = "up" /\ idle = "none"
<1>1. queue \in Seq(Streams) /\ Len(queue) >= 1 /\ queue[1] = s
  BY DEF GuardInv, TypeOK, Acquire
<1>2. task[s] = "queued"
  BY <1>1 DEF GuardInv, QueueExact
<1> QED BY <1>2 DEF GuardInv, TypeOK, NothingStartsDown, Waiting, Acquire

(* The inductive invariant. *)

\* A step of a decode task keeps the invariant.
LEMMA TaskNextInv == ASSUME GuardInv, NEW s \in Streams, TaskNext(s) PROVE GuardInv'
<1>1. CASE Begin(s)
  <2>1. TypeOK'
    <3>1. CASE LockFree
      BY <1>1, <3>1 DEF GuardInv, TypeOK, ThreadStates, Begin, Launch, backendVars
    <3>2. CASE ~LockFree
      BY <1>1, <3>2 DEF GuardInv, TypeOK, Begin, backendVars
    <3> QED BY <3>1, <3>2
  <2>2. QueueExact'
    <3>1. CASE LockFree
      <4>1. queue = <<>> /\ queue' = <<>> /\ Len(queue') = 0
        BY <1>1, <3>1 DEF Begin, LockFree
      <4>2. task' \in [Streams -> {"decoding", "failed"} \cup {task[t] : t \in Streams}]
            /\ \A t \in Streams : task'[t] = "queued" => task[t] = "queued"
        BY <1>1, <3>1 DEF GuardInv, TypeOK, Begin, Launch
      <4> QED BY <4>1, <4>2 DEF GuardInv, TypeOK, QueueExact
    <3>2. CASE ~LockFree
      <4>1. queue \in Seq(Streams) /\ queue' = Append(queue, s)
        BY <1>1, <3>2 DEF GuardInv, TypeOK, Begin
      <4>2. Len(queue') = Len(queue) + 1 /\ queue'[Len(queue) + 1] = s
        BY <4>1
      <4>3. \A i \in 1 .. Len(queue) : queue'[i] = queue[i] /\ queue[i] # s
        BY <1>1, <4>1 DEF GuardInv, QueueExact, Begin
      <4>4. /\ task'[s] = "queued"
            /\ \A t \in Streams \ {s} : task'[t] = task[t]
        BY <1>1, <3>2 DEF GuardInv, TypeOK, Begin
      <4>5. \A i \in 1 .. Len(queue) : queue[i] \in Streams
        BY <4>1
      <4>6. \A i \in 1 .. Len(queue') : task'[queue'[i]] = "queued"
        BY <4>1, <4>2, <4>3, <4>4, <4>5 DEF GuardInv, QueueExact
      <4>7. \A i, j \in 1 .. Len(queue') : queue'[i] = queue'[j] => i = j
        BY <4>1, <4>2, <4>3 DEF GuardInv, QueueExact
      <4>8. \A t \in Streams : task'[t] = "queued" =>
              \E i \in 1 .. Len(queue') : queue'[i] = t
        BY <4>1, <4>2, <4>3, <4>4 DEF GuardInv, QueueExact
      <4> QED BY <4>6, <4>7, <4>8 DEF QueueExact
    <3> QED BY <3>1, <3>2
  <2>3. LockHeldByAwaiter'
    BY <1>1 DEF GuardInv, TypeOK, LockHeldByAwaiter, OneHolder, ThreadStates,
        Begin, Launch, LockFree, backendVars
  <2>4. OneHolder'
    BY <1>1 DEF GuardInv, OneHolder, TypeOK, ThreadStates, Begin, Launch,
        LockFree, backendVars
  <2>5. OneOnDevice'
    BY <1>1 DEF GuardInv, TypeOK, OneOnDevice, ThreadStates, OnDevice, Begin,
        Launch, LockFree, backendVars
  <2>6. ThreadsFollowTasks'
    BY <1>1 DEF GuardInv, TypeOK, ThreadsFollowTasks, ThreadStates, Begin,
        Launch, LockFree, backendVars
  <2>7. CancelsAreAsked'
    BY <1>1 DEF GuardInv, TypeOK, CancelsAreAsked, ThreadStates, Begin,
        Launch, LockFree, backendVars
  <2>8. NothingStartsDown'
    BY <1>1 DEF GuardInv, TypeOK, NothingStartsDown, ThreadStates, Waiting,
        Begin, Launch, LockFree, backendVars
  <2>9. InflightExact'
    <3>1. CASE LockFree
      BY <1>1, <3>1, LaunchCounts DEF GuardInv, Begin
    <3>2. CASE ~LockFree
      BY <1>1, <3>2 DEF GuardInv, InflightExact, LiveThreads, Begin
    <3> QED BY <3>1, <3>2
  <2>10. DrainedIsQuiet'
    BY <1>1 DEF GuardInv, TypeOK, DrainedIsQuiet, ThreadStates, LiveThreads,
        Begin, Launch, LockFree, backendVars
  <2>11. IdleIsQuiet'
    BY <1>1 DEF GuardInv, TypeOK, IdleIsQuiet, NothingStartsDown,
        ThreadStates, LiveThreads, Waiting, Begin, Launch, LockFree,
        backendVars
  <2> QED BY <2>1, <2>2, <2>3, <2>4, <2>5, <2>6, <2>7, <2>8, <2>9, <2>10,
      <2>11 DEF GuardInv
<1>2. CASE Acquire(s)
  <2>1. TypeOK'
    BY <1>2, SMTT(40) DEF GuardInv, TypeOK, ThreadStates, Acquire, Launch, backendVars
  <2>2. QueueExact'
    <3>1. queue \in Seq(Streams) /\ queue # <<>> /\ queue[1] = s /\ queue' = Tail(queue)
      BY <1>2 DEF GuardInv, TypeOK, Acquire
    <3>2. /\ Len(queue') = Len(queue) - 1
          /\ \A i \in 1 .. Len(queue) - 1 : queue'[i] = queue[i + 1]
      BY <3>1
    <3>3. \A i \in 2 .. Len(queue) : queue[i] # s /\ queue[i] \in Streams
      BY <3>1 DEF GuardInv, QueueExact
    <3>4. task'[s] # "queued" /\ \A t \in Streams \ {s} : task'[t] = task[t]
      BY <1>2 DEF GuardInv, TypeOK, Acquire, Launch
    <3>5. \A i \in 1 .. Len(queue') : task'[queue'[i]] = "queued"
      BY <3>1, <3>2, <3>3, <3>4 DEF GuardInv, QueueExact
    <3>6. \A i, j \in 1 .. Len(queue') : queue'[i] = queue'[j] => i = j
      BY <3>1, <3>2 DEF GuardInv, QueueExact
    <3>7. ASSUME NEW t \in Streams, task'[t] = "queued"
          PROVE  \E i \in 1 .. Len(queue') : queue'[i] = t
      <4>1. PICK i \in 1 .. Len(queue) : queue[i] = t
        BY <3>4, <3>7 DEF GuardInv, QueueExact
      <4>2. i - 1 \in 1 .. Len(queue') /\ queue'[i - 1] = t
        BY <3>1, <3>2, <3>4, <3>7, <4>1
      <4> QED BY <4>2
    <3> QED BY <3>5, <3>6, <3>7 DEF QueueExact
  <2>3. LockHeldByAwaiter'
    BY <1>2 DEF GuardInv, TypeOK, LockHeldByAwaiter, OneHolder, ThreadStates,
        Acquire, Launch, backendVars
  <2>4. OneHolder'
    BY <1>2 DEF GuardInv, OneHolder, TypeOK, ThreadStates, Acquire, Launch,
        backendVars
  <2>5. OneOnDevice'
    BY <1>2 DEF GuardInv, TypeOK, OneOnDevice, ThreadStates, OnDevice,
        Acquire, Launch, backendVars
  <2>6. ThreadsFollowTasks'
    BY <1>2, AcquireWhen DEF GuardInv, TypeOK, ThreadsFollowTasks, Acquire, Launch
  <2>7. CancelsAreAsked'
    BY <1>2 DEF GuardInv, TypeOK, CancelsAreAsked, ThreadStates, Acquire,
        Launch, backendVars
  <2>8. NothingStartsDown'
    BY <1>2, AcquireWhen DEF GuardInv, TypeOK, NothingStartsDown, Waiting, Acquire,
        Launch, backendVars
  <2>9. InflightExact'
    BY <1>2, AcquireWhen, LaunchCounts DEF GuardInv, Acquire
  <2>10. DrainedIsQuiet'
    BY <1>2, AcquireWhen DEF DrainedIsQuiet, Acquire, backendVars
  <2>11. IdleIsQuiet'
    BY <1>2, AcquireWhen DEF IdleIsQuiet, Acquire, backendVars
  <2> QED BY <2>1, <2>2, <2>3, <2>4, <2>5, <2>6, <2>7, <2>8, <2>9, <2>10,
      <2>11 DEF GuardInv
<1>3. CASE AskCancel(s)
  <2>1. TypeOK'
    BY <1>3 DEF GuardInv, TypeOK, ThreadStates, AskCancel, Waiting,
        threadVars, backendVars
  <2>2. CancelsAreAsked'
    BY <1>3 DEF GuardInv, TypeOK, CancelsAreAsked, ThreadStates, AskCancel,
        Waiting, threadVars, backendVars
  <2>3. NothingStartsDown'
    BY <1>3 DEF GuardInv, TypeOK, NothingStartsDown, ThreadStates, Waiting,
        AskCancel, threadVars, backendVars
  <2>4. QueueExact' /\ LockHeldByAwaiter' /\ OneHolder' /\ OneOnDevice' /\
      ThreadsFollowTasks' /\ InflightExact' /\ DrainedIsQuiet' /\ IdleIsQuiet'
    BY <1>3 DEF GuardInv, QueueExact, LockHeldByAwaiter, OneHolder,
        OneOnDevice, ThreadsFollowTasks, InflightExact, DrainedIsQuiet,
        IdleIsQuiet, OnDevice, LiveThreads, AskCancel, Waiting, threadVars,
        backendVars
  <2> QED BY <2>1, <2>2, <2>3, <2>4 DEF GuardInv
<1>4. CASE Cancelled(s)
  <2>1. TypeOK'
    <3>1. CASE task[s] = "queued"
      <4>1. Without(s) \in Seq(Streams)
        BY <1>4, <3>1, WithoutOthers DEF GuardInv
      <4> QED BY <1>4, <3>1, <4>1 DEF GuardInv, TypeOK, Cancelled, threadVars, backendVars
    <3>2. CASE task[s] # "queued"
      BY <1>4, <3>2 DEF GuardInv, TypeOK, Cancelled, threadVars, backendVars
    <3> QED BY <3>1, <3>2
  <2>2. QueueExact'
    <3>1. task'[s] = "cancelled" /\ \A t \in Streams \ {s} : task'[t] = task[t]
      BY <1>4 DEF GuardInv, TypeOK, Cancelled
    <3>2. queue \in Seq(Streams)
      BY DEF GuardInv, TypeOK
    <3>3. CASE task[s] = "queued"
      <4>1. PICK i \in 1 .. Len(queue) :
              /\ queue[i] = s
              /\ Len(queue') = Len(queue) - 1
              /\ \A k \in 1 .. Len(queue) - 1 :
                   queue'[k] = IF k < i THEN queue[k] ELSE queue[k + 1]
        BY <1>4, <3>3, WithoutOthers DEF GuardInv, Cancelled
      <4>2. \A k \in 1 .. Len(queue) : queue[k] = s => k = i
        BY <4>1 DEF GuardInv, QueueExact
      <4>3. ASSUME NEW k \in 1 .. Len(queue')
            PROVE  task'[queue'[k]] = "queued"
        <5>1. PICK l \in 1 .. Len(queue) : queue'[k] = queue[l] /\ l # i
          BY <3>2, <4>1
        <5> QED BY <3>1, <3>2, <4>2, <5>1 DEF GuardInv, QueueExact
      <4>4. \A k, l \in 1 .. Len(queue') : queue'[k] = queue'[l] => k = l
        BY <3>2, <4>1 DEF GuardInv, QueueExact
      <4>5. ASSUME NEW t \in Streams, task'[t] = "queued"
            PROVE  \E k \in 1 .. Len(queue') : queue'[k] = t
        <5>1. PICK l \in 1 .. Len(queue) : queue[l] = t
          BY <3>1, <4>5 DEF GuardInv, QueueExact
        <5>2. l # i
          BY <3>1, <4>1, <4>5, <5>1
        <5>3. CASE l < i
          BY <3>2, <4>1, <5>1, <5>3
        <5>4. CASE l > i
          <6>1. l - 1 \in 1 .. Len(queue') /\ queue'[l - 1] = t
            BY <3>2, <4>1, <5>1, <5>4
          <6> QED BY <6>1
        <5> QED BY <3>2, <5>2, <5>3, <5>4
      <4> QED BY <4>3, <4>4, <4>5 DEF QueueExact
    <3>4. CASE task[s] # "queued"
      <4>1. queue' = queue
        BY <1>4, <3>4 DEF Cancelled
      <4> QED BY <3>1, <3>2, <3>4, <4>1 DEF GuardInv, QueueExact
    <3> QED BY <3>3, <3>4
  <2>3. LockHeldByAwaiter'
    BY <1>4 DEF GuardInv, TypeOK, LockHeldByAwaiter, OneHolder, ThreadStates,
        Cancelled, Waiting, threadVars, backendVars
  <2>4. OneHolder'
    BY <1>4 DEF GuardInv, OneHolder, TypeOK, ThreadStates, Cancelled, Waiting,
        threadVars, backendVars
  <2>5. ThreadsFollowTasks'
    BY <1>4 DEF GuardInv, TypeOK, ThreadsFollowTasks, ThreadStates, Cancelled,
        Waiting, threadVars, backendVars
  <2>6. CancelsAreAsked'
    BY <1>4 DEF GuardInv, TypeOK, CancelsAreAsked, ThreadStates, Cancelled,
        Waiting, threadVars, backendVars
  <2>7. NothingStartsDown'
    BY <1>4 DEF GuardInv, TypeOK, NothingStartsDown, ThreadStates, Waiting,
        Cancelled, threadVars, backendVars
  <2>8. OneOnDevice' /\ InflightExact' /\ DrainedIsQuiet' /\ IdleIsQuiet'
    BY <1>4 DEF GuardInv, OneOnDevice, InflightExact, DrainedIsQuiet,
        IdleIsQuiet, OnDevice, LiveThreads, Cancelled, Waiting, threadVars,
        backendVars
  <2> QED BY <2>1, <2>2, <2>3, <2>4, <2>5, <2>6, <2>7, <2>8 DEF GuardInv
<1>5. CASE Resume(s)
  <2>1. TypeOK'
    BY <1>5 DEF GuardInv, TypeOK, ThreadStates, Resume, threadVars,
        backendVars
  <2>2. QueueExact'
    BY <1>5 DEF GuardInv, TypeOK, QueueExact, ThreadStates, Resume,
        threadVars, backendVars
  <2>3. LockHeldByAwaiter'
    BY <1>5 DEF GuardInv, TypeOK, LockHeldByAwaiter, OneHolder, ThreadStates,
        Resume, threadVars, backendVars
  <2>4. OneHolder'
    BY <1>5 DEF GuardInv, OneHolder, TypeOK, ThreadStates, Resume, threadVars,
        backendVars
  <2>5. ThreadsFollowTasks'
    BY <1>5 DEF GuardInv, TypeOK, ThreadsFollowTasks, CancelsAreAsked,
        ThreadStates, Resume, threadVars, backendVars
  <2>6. CancelsAreAsked'
    BY <1>5 DEF GuardInv, TypeOK, CancelsAreAsked, ThreadStates, Resume,
        threadVars, backendVars
  <2>7. NothingStartsDown'
    BY <1>5 DEF GuardInv, TypeOK, NothingStartsDown, ThreadStates, Waiting,
        Resume, threadVars, backendVars
  <2>8. OneOnDevice' /\ InflightExact' /\ DrainedIsQuiet' /\ IdleIsQuiet'
    BY <1>5 DEF GuardInv, OneOnDevice, InflightExact, DrainedIsQuiet,
        IdleIsQuiet, OnDevice, LiveThreads, Resume, threadVars, backendVars
  <2> QED BY <2>1, <2>2, <2>3, <2>4, <2>5, <2>6, <2>7, <2>8 DEF GuardInv
<1> QED BY <1>1, <1>2, <1>3, <1>4, <1>5 DEF TaskNext

\* A step of a daemon thread keeps the invariant.
LEMMA ThreadNextInv == ASSUME GuardInv, NEW s \in Streams, ThreadNext(s) PROVE GuardInv'
<1>1. CASE ThreadCannotWrite(s)
  <2>1. TypeOK'
    BY <1>1 DEF GuardInv, TypeOK, ThreadStates, ThreadCannotWrite, taskVars,
        backendVars
  <2>2. OneOnDevice'
    BY <1>1 DEF GuardInv, TypeOK, OneOnDevice, ThreadStates, OnDevice,
        ThreadCannotWrite, taskVars, backendVars
  <2>3. ThreadsFollowTasks'
    BY <1>1 DEF GuardInv, TypeOK, ThreadsFollowTasks, ThreadStates,
        ThreadCannotWrite, taskVars, backendVars
  <2>4. CancelsAreAsked'
    BY <1>1 DEF GuardInv, TypeOK, CancelsAreAsked, ThreadStates,
        ThreadCannotWrite, taskVars, backendVars
  <2>5. InflightExact'
    BY <1>1 DEF GuardInv, TypeOK, InflightExact, ThreadStates, LiveThreads,
        ThreadCannotWrite, taskVars, backendVars
  <2>6. DrainedIsQuiet'
    BY <1>1 DEF GuardInv, TypeOK, DrainedIsQuiet, ThreadStates, LiveThreads,
        ThreadCannotWrite, taskVars, backendVars
  <2>7. IdleIsQuiet'
    BY <1>1 DEF GuardInv, TypeOK, IdleIsQuiet, ThreadStates, LiveThreads,
        ThreadCannotWrite, taskVars, backendVars
  <2>8. QueueExact' /\ LockHeldByAwaiter' /\ OneHolder' /\ NothingStartsDown'
    BY <1>1 DEF GuardInv, QueueExact, LockHeldByAwaiter, OneHolder,
        NothingStartsDown, Waiting, ThreadCannotWrite, taskVars, backendVars
  <2> QED BY <2>1, <2>2, <2>3, <2>4, <2>5, <2>6, <2>7, <2>8 DEF GuardInv
<1>2. CASE ThreadEnters(s)
  <2>1. TypeOK'
    BY <1>2 DEF GuardInv, TypeOK, ThreadStates, ThreadEnters, OnDevice,
        taskVars, backendVars
  <2>2. OneOnDevice'
    BY <1>2 DEF GuardInv, TypeOK, OneOnDevice, ThreadStates, OnDevice,
        ThreadEnters, taskVars, backendVars
  <2>3. ThreadsFollowTasks'
    BY <1>2 DEF GuardInv, TypeOK, ThreadsFollowTasks, ThreadStates,
        ThreadEnters, OnDevice, taskVars, backendVars
  <2>4. CancelsAreAsked'
    BY <1>2 DEF GuardInv, TypeOK, CancelsAreAsked, ThreadStates, ThreadEnters,
        OnDevice, taskVars, backendVars
  <2>5. InflightExact'
    BY <1>2 DEF GuardInv, TypeOK, InflightExact, ThreadStates, LiveThreads,
        ThreadEnters, OnDevice, taskVars, backendVars
  <2>6. DrainedIsQuiet'
    BY <1>2 DEF GuardInv, TypeOK, DrainedIsQuiet, ThreadStates, LiveThreads,
        ThreadEnters, OnDevice, taskVars, backendVars
  <2>7. IdleIsQuiet'
    BY <1>2 DEF GuardInv, TypeOK, IdleIsQuiet, ThreadStates, LiveThreads,
        ThreadEnters, OnDevice, taskVars, backendVars
  <2>8. QueueExact' /\ LockHeldByAwaiter' /\ OneHolder' /\ NothingStartsDown'
    BY <1>2 DEF GuardInv, QueueExact, LockHeldByAwaiter, OneHolder,
        NothingStartsDown, Waiting, ThreadEnters, OnDevice, taskVars,
        backendVars
  <2> QED BY <2>1, <2>2, <2>3, <2>4, <2>5, <2>6, <2>7, <2>8 DEF GuardInv
<1>3. CASE ThreadLeaves(s)
  <2>1. TypeOK'
    BY <1>3 DEF GuardInv, TypeOK, ThreadStates, ThreadLeaves, taskVars,
        backendVars
  <2>2. OneOnDevice'
    BY <1>3 DEF GuardInv, TypeOK, OneOnDevice, ThreadStates, OnDevice,
        ThreadLeaves, taskVars, backendVars
  <2>3. ThreadsFollowTasks'
    BY <1>3 DEF GuardInv, TypeOK, ThreadsFollowTasks, ThreadStates,
        ThreadLeaves, taskVars, backendVars
  <2>4. CancelsAreAsked'
    BY <1>3 DEF GuardInv, TypeOK, CancelsAreAsked, ThreadStates, ThreadLeaves,
        taskVars, backendVars
  <2>5. InflightExact'
    BY <1>3 DEF GuardInv, TypeOK, InflightExact, ThreadStates, LiveThreads,
        ThreadLeaves, taskVars, backendVars
  <2>6. DrainedIsQuiet'
    BY <1>3 DEF GuardInv, TypeOK, DrainedIsQuiet, ThreadStates, LiveThreads,
        ThreadLeaves, taskVars, backendVars
  <2>7. IdleIsQuiet'
    BY <1>3 DEF GuardInv, TypeOK, IdleIsQuiet, ThreadStates, LiveThreads,
        ThreadLeaves, taskVars, backendVars
  <2>8. QueueExact' /\ LockHeldByAwaiter' /\ OneHolder' /\ NothingStartsDown'
    BY <1>3 DEF GuardInv, QueueExact, LockHeldByAwaiter, OneHolder,
        NothingStartsDown, Waiting, ThreadLeaves, taskVars, backendVars
  <2> QED BY <2>1, <2>2, <2>3, <2>4, <2>5, <2>6, <2>7, <2>8 DEF GuardInv
<1>4. CASE ThreadEnds(s)
  <2>1. TypeOK'
    <3>1. s \in LiveThreads /\ inflight = Cardinality(LiveThreads)
      BY <1>4 DEF GuardInv, InflightExact, LiveThreads, ThreadEnds
    <3>2. inflight # 0
      BY <3>1, LiveThreadsFinite
    <3> QED
      BY <1>4, <3>2 DEF GuardInv, TypeOK, ThreadStates, ThreadEnds, taskVars, backendVars
  <2>2. OneOnDevice'
    BY <1>4 DEF GuardInv, TypeOK, OneOnDevice, ThreadStates, OnDevice,
        ThreadEnds, taskVars, backendVars
  <2>3. ThreadsFollowTasks'
    BY <1>4 DEF GuardInv, TypeOK, ThreadsFollowTasks, ThreadStates,
        ThreadEnds, taskVars, backendVars
  <2>4. CancelsAreAsked'
    BY <1>4 DEF GuardInv, TypeOK, CancelsAreAsked, ThreadStates, ThreadEnds,
        taskVars, backendVars
  <2>5. InflightExact'
    <3>1. s \in LiveThreads /\ LiveThreads' = LiveThreads \ {s}
      BY <1>4 DEF GuardInv, TypeOK, LiveThreads, ThreadEnds
    <3> QED BY <1>4, <3>1, CountEnd DEF GuardInv, InflightExact, ThreadEnds
  <2>6. DrainedIsQuiet'
    BY <1>4 DEF GuardInv, TypeOK, DrainedIsQuiet, ThreadStates, LiveThreads,
        ThreadEnds, taskVars, backendVars
  <2>7. IdleIsQuiet'
    BY <1>4 DEF GuardInv, TypeOK, IdleIsQuiet, ThreadStates, LiveThreads,
        ThreadEnds, taskVars, backendVars
  <2>8. QueueExact' /\ LockHeldByAwaiter' /\ OneHolder' /\ NothingStartsDown'
    BY <1>4 DEF GuardInv, QueueExact, LockHeldByAwaiter, OneHolder,
        NothingStartsDown, Waiting, ThreadEnds, taskVars, backendVars
  <2> QED BY <2>1, <2>2, <2>3, <2>4, <2>5, <2>6, <2>7, <2>8 DEF GuardInv
<1> QED BY <1>1, <1>2, <1>3, <1>4 DEF ThreadNext

\* A step of the backend itself keeps the invariant.
LEMMA BackendNextInv == ASSUME GuardInv, BackendNext PROVE GuardInv'
<1>1. CASE BackendStart
  <2>1. TypeOK'
    BY <1>1, GuardAssumption DEF GuardInv, TypeOK, BackendStart, taskVars, threadVars
  <2>2. NothingStartsDown'
    BY <1>1 DEF GuardInv, TypeOK, NothingStartsDown, ThreadStates, Waiting,
        BackendStart, taskVars, threadVars
  <2>3. DrainedIsQuiet'
    BY <1>1 DEF GuardInv, TypeOK, DrainedIsQuiet, ThreadStates, LiveThreads,
        BackendStart, taskVars, threadVars
  <2>4. IdleIsQuiet'
    BY <1>1 DEF GuardInv, TypeOK, IdleIsQuiet, ThreadStates, LiveThreads,
        BackendStart, taskVars, threadVars
  <2>5. QueueExact' /\ LockHeldByAwaiter' /\ OneHolder' /\ OneOnDevice' /\
      ThreadsFollowTasks' /\ CancelsAreAsked' /\ InflightExact'
    BY <1>1 DEF GuardInv, QueueExact, LockHeldByAwaiter, OneHolder,
        OneOnDevice, ThreadsFollowTasks, CancelsAreAsked, InflightExact,
        OnDevice, LiveThreads, BackendStart, taskVars, threadVars
  <2> QED BY <2>1, <2>2, <2>3, <2>4, <2>5 DEF GuardInv
<1>2. CASE BackendStartFails
  <2>1. TypeOK'
    BY <1>2 DEF GuardInv, TypeOK, ThreadStates, BackendStartFails, taskVars,
        threadVars
  <2>2. NothingStartsDown'
    BY <1>2 DEF GuardInv, TypeOK, NothingStartsDown, ThreadStates, Waiting,
        BackendStartFails, taskVars, threadVars
  <2>3. DrainedIsQuiet'
    BY <1>2 DEF GuardInv, TypeOK, DrainedIsQuiet, ThreadStates, LiveThreads,
        BackendStartFails, taskVars, threadVars
  <2>4. IdleIsQuiet'
    BY <1>2 DEF GuardInv, TypeOK, IdleIsQuiet, ThreadStates, LiveThreads,
        BackendStartFails, taskVars, threadVars
  <2>5. QueueExact' /\ LockHeldByAwaiter' /\ OneHolder' /\ OneOnDevice' /\
      ThreadsFollowTasks' /\ CancelsAreAsked' /\ InflightExact'
    BY <1>2 DEF GuardInv, QueueExact, LockHeldByAwaiter, OneHolder,
        OneOnDevice, ThreadsFollowTasks, CancelsAreAsked, InflightExact,
        OnDevice, LiveThreads, BackendStartFails, taskVars, threadVars
  <2> QED BY <2>1, <2>2, <2>3, <2>4, <2>5 DEF GuardInv
<1>3. CASE Close
  <2>1. TypeOK'
    BY <1>3 DEF GuardInv, TypeOK, ThreadStates, Close, Waiting, taskVars,
        threadVars
  <2>2. NothingStartsDown'
    BY <1>3 DEF GuardInv, TypeOK, NothingStartsDown, ThreadStates, Waiting,
        Close, taskVars, threadVars
  <2>3. DrainedIsQuiet'
    BY <1>3 DEF GuardInv, TypeOK, DrainedIsQuiet, ThreadStates, LiveThreads,
        Close, Waiting, taskVars, threadVars
  <2>4. IdleIsQuiet'
    BY <1>3 DEF GuardInv, TypeOK, IdleIsQuiet, ThreadStates, LiveThreads,
        Close, Waiting, taskVars, threadVars
  <2>5. QueueExact' /\ LockHeldByAwaiter' /\ OneHolder' /\ OneOnDevice' /\
      ThreadsFollowTasks' /\ CancelsAreAsked' /\ InflightExact'
    BY <1>3 DEF GuardInv, QueueExact, LockHeldByAwaiter, OneHolder,
        OneOnDevice, ThreadsFollowTasks, CancelsAreAsked, InflightExact,
        OnDevice, LiveThreads, Close, Waiting, taskVars, threadVars
  <2> QED BY <2>1, <2>2, <2>3, <2>4, <2>5 DEF GuardInv
<1>4. CASE CloseDrained
  <2>1. TypeOK'
    BY <1>4 DEF GuardInv, TypeOK, ThreadStates, CloseDrained, taskVars,
        threadVars
  <2>2. NothingStartsDown'
    BY <1>4 DEF GuardInv, TypeOK, NothingStartsDown, ThreadStates, Waiting,
        CloseDrained, taskVars, threadVars
  <2>3. DrainedIsQuiet'
    BY <1>4, LiveThreadsFinite DEF GuardInv, InflightExact, DrainedIsQuiet,
        LiveThreads, CloseDrained, threadVars
  <2>4. IdleIsQuiet'
    BY <1>4 DEF GuardInv, TypeOK, IdleIsQuiet, ThreadStates, LiveThreads,
        CloseDrained, taskVars, threadVars
  <2>5. QueueExact' /\ LockHeldByAwaiter' /\ OneHolder' /\ OneOnDevice' /\
      ThreadsFollowTasks' /\ CancelsAreAsked' /\ InflightExact'
    BY <1>4 DEF GuardInv, QueueExact, LockHeldByAwaiter, OneHolder,
        OneOnDevice, ThreadsFollowTasks, CancelsAreAsked, InflightExact,
        OnDevice, LiveThreads, CloseDrained, taskVars, threadVars
  <2> QED BY <2>1, <2>2, <2>3, <2>4, <2>5 DEF GuardInv
<1>5. CASE CloseExpires
  <2>1. TypeOK'
    BY <1>5 DEF GuardInv, TypeOK, ThreadStates, CloseExpires, taskVars,
        threadVars
  <2>2. NothingStartsDown'
    BY <1>5 DEF GuardInv, TypeOK, NothingStartsDown, ThreadStates, Waiting,
        CloseExpires, taskVars, threadVars
  <2>3. DrainedIsQuiet'
    BY <1>5 DEF GuardInv, TypeOK, DrainedIsQuiet, ThreadStates, LiveThreads,
        CloseExpires, taskVars, threadVars
  <2>4. IdleIsQuiet'
    BY <1>5 DEF GuardInv, TypeOK, IdleIsQuiet, ThreadStates, LiveThreads,
        CloseExpires, taskVars, threadVars
  <2>5. QueueExact' /\ LockHeldByAwaiter' /\ OneHolder' /\ OneOnDevice' /\
      ThreadsFollowTasks' /\ CancelsAreAsked' /\ InflightExact'
    BY <1>5 DEF GuardInv, QueueExact, LockHeldByAwaiter, OneHolder,
        OneOnDevice, ThreadsFollowTasks, CancelsAreAsked, InflightExact,
        OnDevice, LiveThreads, CloseExpires, taskVars, threadVars
  <2> QED BY <2>1, <2>2, <2>3, <2>4, <2>5 DEF GuardInv
<1>6. CASE CloseReturns
  <2>1. TypeOK'
    BY <1>6 DEF GuardInv, TypeOK, ThreadStates, CloseReturns, taskVars,
        threadVars
  <2>2. NothingStartsDown'
    BY <1>6 DEF GuardInv, TypeOK, NothingStartsDown, ThreadStates, Waiting,
        CloseReturns, taskVars, threadVars
  <2>3. DrainedIsQuiet'
    BY <1>6 DEF GuardInv, TypeOK, DrainedIsQuiet, ThreadStates, LiveThreads,
        CloseReturns, taskVars, threadVars
  <2>4. IdleIsQuiet'
    BY <1>6 DEF GuardInv, TypeOK, IdleIsQuiet, ThreadStates, LiveThreads,
        CloseReturns, taskVars, threadVars
  <2>5. QueueExact' /\ LockHeldByAwaiter' /\ OneHolder' /\ OneOnDevice' /\
      ThreadsFollowTasks' /\ CancelsAreAsked' /\ InflightExact'
    BY <1>6 DEF GuardInv, QueueExact, LockHeldByAwaiter, OneHolder,
        OneOnDevice, ThreadsFollowTasks, CancelsAreAsked, InflightExact,
        OnDevice, LiveThreads, CloseReturns, taskVars, threadVars
  <2> QED BY <2>1, <2>2, <2>3, <2>4, <2>5 DEF GuardInv
<1>7. CASE Idle
  <2>1. TypeOK'
    BY <1>7 DEF GuardInv, TypeOK, ThreadStates, Idle, taskVars, threadVars
  <2>2. NothingStartsDown'
    BY <1>7 DEF GuardInv, TypeOK, NothingStartsDown, ThreadStates, Waiting,
        Idle, taskVars, threadVars
  <2>3. DrainedIsQuiet'
    BY <1>7 DEF GuardInv, TypeOK, DrainedIsQuiet, ThreadStates, LiveThreads,
        Idle, taskVars, threadVars
  <2>4. IdleIsQuiet'
    BY <1>7, LiveThreadsFinite DEF GuardInv, InflightExact, IdleIsQuiet,
        LiveThreads, Idle, threadVars
  <2>5. QueueExact' /\ LockHeldByAwaiter' /\ OneHolder' /\ OneOnDevice' /\
      ThreadsFollowTasks' /\ CancelsAreAsked' /\ InflightExact'
    BY <1>7 DEF GuardInv, QueueExact, LockHeldByAwaiter, OneHolder,
        OneOnDevice, ThreadsFollowTasks, CancelsAreAsked, InflightExact,
        OnDevice, LiveThreads, Idle, taskVars, threadVars
  <2> QED BY <2>1, <2>2, <2>3, <2>4, <2>5 DEF GuardInv
<1>8. CASE IdleDone
  <2>1. TypeOK'
    BY <1>8 DEF GuardInv, TypeOK, ThreadStates, IdleDone, taskVars, threadVars
  <2>2. NothingStartsDown'
    BY <1>8 DEF GuardInv, TypeOK, NothingStartsDown, ThreadStates, Waiting,
        IdleDone, taskVars, threadVars
  <2>3. DrainedIsQuiet'
    BY <1>8 DEF GuardInv, TypeOK, DrainedIsQuiet, ThreadStates, LiveThreads,
        IdleDone, taskVars, threadVars
  <2>4. IdleIsQuiet'
    BY <1>8, LiveThreadsFinite DEF GuardInv, InflightExact, IdleIsQuiet,
        LiveThreads, IdleDone, threadVars
  <2>5. QueueExact' /\ LockHeldByAwaiter' /\ OneHolder' /\ OneOnDevice' /\
      ThreadsFollowTasks' /\ CancelsAreAsked' /\ InflightExact'
    BY <1>8 DEF GuardInv, QueueExact, LockHeldByAwaiter, OneHolder,
        OneOnDevice, ThreadsFollowTasks, CancelsAreAsked, InflightExact,
        OnDevice, LiveThreads, IdleDone, taskVars, threadVars
  <2> QED BY <2>1, <2>2, <2>3, <2>4, <2>5 DEF GuardInv
<1> QED BY <1>1, <1>2, <1>3, <1>4, <1>5, <1>6, <1>7, <1>8 DEF BackendNext
\* A step that changes nothing keeps it, and it holds initially.
LEMMA GuardStutter == ASSUME GuardInv, UNCHANGED vars PROVE GuardInv'
<1> USE DEF vars
<1>1. TypeOK' /\ QueueExact' /\ OneHolder'
  BY DEF GuardInv, TypeOK, QueueExact, OneHolder
<1>2. OneOnDevice' /\ LockHeldByAwaiter' /\ ThreadsFollowTasks' /\ CancelsAreAsked'
  BY DEF GuardInv, OneOnDevice, OnDevice, LockHeldByAwaiter, ThreadsFollowTasks,
         CancelsAreAsked
<1>3. NothingStartsDown' /\ InflightExact' /\ DrainedIsQuiet' /\ IdleIsQuiet'
  BY DEF GuardInv, NothingStartsDown, Waiting, InflightExact, DrainedIsQuiet,
         IdleIsQuiet, LiveThreads
<1> QED BY <1>1, <1>2, <1>3 DEF GuardInv

LEMMA GuardInit == Init => GuardInv
<1> SUFFICES ASSUME Init PROVE GuardInv
  OBVIOUS
<1>1. TypeOK
  BY GuardAssumption DEF Init, TypeOK, ThreadStates
<1>2. QueueExact /\ OneHolder /\ LockHeldByAwaiter
  BY DEF Init, QueueExact, OneHolder, LockHeldByAwaiter
<1>3. LiveThreads = {} /\ OnDevice = {} /\ Waiting = {}
  BY DEF Init, LiveThreads, OnDevice, Waiting
<1>4. OneOnDevice /\ ThreadsFollowTasks /\ CancelsAreAsked /\ NothingStartsDown
  BY <1>3 DEF Init, OneOnDevice, ThreadsFollowTasks, CancelsAreAsked, NothingStartsDown
<1>5. InflightExact /\ DrainedIsQuiet /\ IdleIsQuiet
  BY <1>3, FS_EmptySet DEF Init, InflightExact, DrainedIsQuiet, IdleIsQuiet
<1> QED BY <1>1, <1>2, <1>4, <1>5 DEF GuardInv

LEMMA GuardStep == GuardInv /\ [Next]_vars => GuardInv'
BY TaskNextInv, ThreadNextInv, BackendNextInv, GuardStutter DEF Next

\* DecodeGuard's inductive invariant holds for every finite set of streams.
THEOREM GuardInvariance == Spec => []GuardInv
BY GuardInit, GuardStep, PTL DEF Spec

\* The in-flight count is the number of live decode threads.
THEOREM CountIsExact == Spec => []InflightExact
<1>1. GuardInv => InflightExact
  BY DEF GuardInv
<1> QED BY <1>1, GuardInvariance, PTL

\* A close() that drained, and a completed idle(), leave no decode thread behind.
THEOREM Quiet == Spec => []QuietWhenTold
<1>1. GuardInv => QuietWhenTold
  BY DEF GuardInv, QuietWhenTold
<1> QED BY <1>1, GuardInvariance, PTL

\* _decode_lock is held by the task that awaits a thread and by nobody else.
THEOREM LockIsExact == Spec => []LockHeldByAwaiter
<1>1. GuardInv => LockHeldByAwaiter
  BY DEF GuardInv
<1> QED BY <1>1, GuardInvariance, PTL

\* A started backend has its temporary directory, after any sequence of failed
\* starts, aborts, closes and restarts.
THEOREM DirIsThere == Spec => []DirWhenUp
<1>1. Init => DirWhenUp
  BY DEF Init, DirWhenUp
<1>2. DirWhenUp /\ [Next]_vars => DirWhenUp'
  <2> SUFFICES ASSUME DirWhenUp, [Next]_vars PROVE DirWhenUp'
    OBVIOUS
  <2>1. CASE BackendNext
    BY <2>1 DEF DirWhenUp, BackendNext, BackendStart, BackendStartFails, Close,
       CloseDrained, CloseExpires, CloseReturns, Idle, IdleDone
  <2>2. CASE \E s \in Streams : TaskNext(s) \/ ThreadNext(s)
    <3>1. UNCHANGED <<phase, dir>>
      BY <2>2 DEF TaskNext, ThreadNext, Begin, Acquire, AskCancel, Cancelled, Resume,
         ThreadCannotWrite, ThreadEnters, ThreadLeaves, ThreadEnds, backendVars
    <3> QED BY <3>1 DEF DirWhenUp
  <2>3. CASE UNCHANGED vars
    BY <2>3 DEF DirWhenUp, vars, backendVars
  <2> QED BY <2>1, <2>2, <2>3 DEF Next
<1> QED BY <1>1, <1>2, PTL DEF Spec

(* The refinement: each step is a step of SerialDecoder or changes nothing *)
(* that it sees.                                                           *)

\* One entry of the status changes.
LEMMA StatusChange ==
  ASSUME TypeOK, NEW s \in Streams, NEW x,
         task' = [task EXCEPT ![s] = x]
  PROVE  Status' = [Status EXCEPT ![s] =
                      CASE x \in {"queued", "decoding"} -> "asked"
                        [] x = "cancelled"              -> "withdrawn"
                        [] OTHER                        -> x]
<1>1. \A t \in Streams : task'[t] = IF t = s THEN x ELSE task[t]
  BY DEF TypeOK
<1> QED BY <1>1 DEF Status

\* Launching a decode asks for it, or fails it.
LEMMA LaunchIsDecoder ==
  ASSUME TypeOK, ThreadsFollowTasks, NEW s \in Streams, Launch(s),
         task[s] \in {"new", "queued"}, UNCHANGED outcome
  PROVE  /\ OnDevice' = OnDevice /\ Produced' = Produced
         /\ \/ Status' = [Status EXCEPT ![s] = "asked"]
            \/ Status' = [Status EXCEPT ![s] = "failed"]
<1>1. Produced' = Produced
  BY DEF Produced
<1>2. thread[s] = "none"
  BY DEF ThreadsFollowTasks
<1>3. OnDevice' = OnDevice
  BY <1>2 DEF OnDevice, Launch, TypeOK
<1>4. CASE task' = [task EXCEPT ![s] = "decoding"]
  BY <1>4, <1>1, <1>3, StatusChange
<1>5. CASE task' = [task EXCEPT ![s] = "failed"]
  BY <1>5, <1>1, <1>3, StatusChange
<1> QED BY <1>4, <1>5 DEF Launch

\* A step of a task is an ask, a failure, an answer, a withdrawal or a stutter.
LEMMA TaskIsDecoder ==
  ASSUME GuardInv, NEW s \in Streams, TaskNext(s)
  PROVE  Decoder!Next \/ UNCHANGED Decoder!vars
<1> USE DEF Decoder!vars
<1>0. TypeOK /\ ThreadsFollowTasks /\ CancelsAreAsked /\ QueueExact
  BY DEF GuardInv
<1>1. Status[s] = CASE task[s] \in {"queued", "decoding"} -> "asked"
                    [] task[s] = "cancelled"              -> "withdrawn"
                    [] OTHER                              -> task[s]
  BY DEF Status
<1>2. UNCHANGED <<thread, outcome>> => OnDevice' = OnDevice /\ Produced' = Produced
  BY DEF OnDevice, Produced
<1>3. CASE Begin(s)
  <2>1. Status[s] = "new"
    BY <1>1, <1>3 DEF Begin
  <2>2. /\ OnDevice' = OnDevice /\ Produced' = Produced
        /\ \/ Status' = [Status EXCEPT ![s] = "asked"]
           \/ Status' = [Status EXCEPT ![s] = "failed"]
    <3>1. CASE LockFree
      BY <1>0, <1>3, <3>1, LaunchIsDecoder DEF Begin
    <3>2. CASE ~LockFree
      BY <1>0, <1>2, <1>3, <3>2, StatusChange DEF Begin
    <3> QED BY <3>1, <3>2
  <2> QED BY <2>1, <2>2 DEF Decoder!Next, Decoder!Ask, Decoder!Fail
<1>4. CASE Acquire(s)
  <2>1. task[s] = "queued" /\ Status[s] = "asked"
    BY <1>1, <1>4, AcquireWhen
  <2>2. /\ OnDevice' = OnDevice /\ Produced' = Produced
        /\ \/ Status' = [Status EXCEPT ![s] = "asked"]
           \/ Status' = [Status EXCEPT ![s] = "failed"]
    BY <1>0, <1>4, <2>1, LaunchIsDecoder DEF Acquire
  <2>3. Status = [Status EXCEPT ![s] = "asked"]
    BY <2>1 DEF Status
  <2> QED BY <2>1, <2>2, <2>3 DEF Decoder!Next, Decoder!Fail
<1>5. CASE AskCancel(s)
  <2>1. Status' = Status
    BY <1>5 DEF AskCancel, Status
  <2> QED BY <1>2, <1>5, <2>1 DEF AskCancel, threadVars
<1>6. CASE Cancelled(s)
  <2>1. Status[s] = "asked"
    BY <1>1, <1>6 DEF Cancelled, Waiting
  <2>2. Status' = [Status EXCEPT ![s] = "withdrawn"]
    BY <1>0, <1>6, StatusChange DEF Cancelled
  <2>3. OnDevice' = OnDevice /\ Produced' = Produced
    BY <1>2, <1>6 DEF Cancelled, threadVars
  <2> QED BY <2>1, <2>2, <2>3 DEF Decoder!Next, Decoder!Withdraw
<1>7. CASE Resume(s)
  <2>1. Status[s] = "asked"
    BY <1>1, <1>7 DEF Resume
  <2>2. OnDevice' = OnDevice /\ Produced' = Produced
    BY <1>2, <1>7 DEF Resume, threadVars
  <2>3. CASE outcome[s] = "error"
    <3>1. Status' = [Status EXCEPT ![s] = "failed"]
      BY <1>0, <1>7, <2>3, StatusChange DEF Resume
    <3> QED BY <2>1, <2>2, <3>1 DEF Decoder!Next, Decoder!Fail
  <2>4. CASE outcome[s] # "error"
    <3>1. Status' = [Status EXCEPT ![s] = "answered"]
      BY <1>0, <1>7, <2>4, StatusChange DEF Resume
    <3>2. s \in Produced
      <4>1. thread[s] = "over" /\ s \notin asked
        BY <1>7 DEF Resume
      <4>2. outcome[s] # "none" /\ outcome[s] # "skipped"
        BY <1>0, <4>1 DEF ThreadsFollowTasks, CancelsAreAsked
      <4> QED BY <1>0, <2>4, <4>2 DEF TypeOK, Produced
    <3> QED BY <2>1, <2>2, <3>1, <3>2 DEF Decoder!Next, Decoder!Answer
  <2> QED BY <2>3, <2>4
<1> QED BY <1>3, <1>4, <1>5, <1>6, <1>7 DEF TaskNext

\* A step of a thread occupies the device, frees it, or is a stutter.
LEMMA ThreadIsDecoder ==
  ASSUME GuardInv, NEW s \in Streams, ThreadNext(s)
  PROVE  Decoder!Next \/ UNCHANGED Decoder!vars
<1> USE DEF Decoder!vars
<1>0. TypeOK /\ ThreadsFollowTasks /\ OneOnDevice
  BY DEF GuardInv
<1>1. UNCHANGED task => Status' = Status
  BY DEF Status
<1>2. CASE ThreadCannotWrite(s)
  <2>1. OnDevice' = OnDevice
    BY <1>0, <1>2 DEF ThreadCannotWrite, OnDevice, TypeOK
  <2>2. Produced' = Produced
    BY <1>0, <1>2 DEF ThreadCannotWrite, ThreadsFollowTasks, Produced, TypeOK
  <2> QED BY <1>1, <1>2, <2>1, <2>2 DEF ThreadCannotWrite, taskVars
<1>3. CASE ThreadEnters(s) /\ ChecksCancel /\ s \in cancelled
  <2>1. OnDevice' = OnDevice
    BY <1>0, <1>3 DEF ThreadEnters, OnDevice, TypeOK
  <2>2. Produced' = Produced
    BY <1>0, <1>3 DEF ThreadEnters, ThreadsFollowTasks, Produced, TypeOK
  <2> QED BY <1>1, <1>3, <2>1, <2>2 DEF ThreadEnters, taskVars
<1>4. CASE ThreadEnters(s) /\ ~(ChecksCancel /\ s \in cancelled)
  <2>1. OnDevice = {} /\ OnDevice' = {s}
    BY <1>0, <1>4 DEF ThreadEnters, OnDevice, TypeOK
  <2>2. Produced' = Produced /\ s \notin Produced
    BY <1>0, <1>4 DEF ThreadEnters, ThreadsFollowTasks, Produced
  <2>3. Status[s] # "new"
    BY <1>0, <1>4 DEF ThreadEnters, ThreadsFollowTasks, Status, TypeOK
  <2> QED BY <1>1, <1>4, <2>1, <2>2, <2>3
          DEF ThreadEnters, taskVars, Decoder!Next, Decoder!Occupy
<1>5. CASE ThreadLeaves(s)
  <2>1. OnDevice = {s} /\ OnDevice' = {}
    BY <1>0, <1>5 DEF ThreadLeaves, OneOnDevice, OnDevice, TypeOK
  <2>2. Produced' \in {Produced, Produced \cup {s}}
    <3>1. PICK r \in {"text", "error"} : outcome' = [outcome EXCEPT ![s] = r]
      BY <1>5 DEF ThreadLeaves
    <3>2. outcome[s] = "none"
      BY <1>0, <1>5 DEF ThreadLeaves, ThreadsFollowTasks
    <3> QED BY <1>0, <3>1, <3>2 DEF Produced, TypeOK
  <2> QED BY <1>1, <1>5, <2>1, <2>2
          DEF ThreadLeaves, taskVars, Decoder!Next, Decoder!Release
<1>6. CASE ThreadEnds(s)
  <2>1. OnDevice' = OnDevice
    BY <1>0, <1>6 DEF ThreadEnds, OnDevice, TypeOK
  <2>2. Produced' = Produced
    BY <1>6 DEF ThreadEnds, Produced
  <2> QED BY <1>1, <1>6, <2>1, <2>2 DEF ThreadEnds, taskVars
<1> QED BY <1>2, <1>3, <1>4, <1>5, <1>6 DEF ThreadNext

\* The decode guard implements the one-device contract, for any finite set of
\* streams and every kind of backend.
THEOREM DecoderImplemented == Spec => ImplementsDecoder
<1>1. Init => Decoder!Init
  BY DEF Init, Decoder!Init, Status, OnDevice, Produced
<1>2. GuardInv /\ [Next]_vars => [Decoder!Next]_(Decoder!vars)
  <2> SUFFICES ASSUME GuardInv, [Next]_vars PROVE [Decoder!Next]_(Decoder!vars)
    OBVIOUS
  <2>1. CASE BackendNext \/ UNCHANGED vars
    <3>1. UNCHANGED <<task, thread, outcome>>
      BY <2>1 DEF BackendNext, BackendStart, BackendStartFails, Close, CloseDrained,
         CloseExpires, CloseReturns, Idle, IdleDone, vars, taskVars, threadVars
    <3> QED BY <3>1 DEF Decoder!vars, Status, OnDevice, Produced
  <2>2. CASE \E s \in Streams : TaskNext(s) \/ ThreadNext(s)
    BY <2>2, TaskIsDecoder, ThreadIsDecoder
  <2> QED BY <2>1, <2>2 DEF Next
<1> QED BY <1>1, <1>2, GuardInvariance, PTL DEF Spec, ImplementsDecoder, Decoder!DecoderSpec

=============================================================================
