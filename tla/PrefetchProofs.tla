---------------------------- MODULE PrefetchProofs ---------------------------
(***************************************************************************)
(* Theorems about Prefetch, for any weights, any history of the hub's main *)
(* and any number of runs.  The inductive invariant says what a run knows  *)
(* of its files and of its snapshot at each place it can be killed at, and *)
(* what its progress thread may still do.                                  *)
(***************************************************************************)
EXTENDS Prefetch, FiniteSetTheorems, TLAPS

\* The files a run requires are those of its source, in the snapshot it got.
RunExact ==
    /\ stage \in {"list", "fetch", "load"} => ~Local
    /\ stage \notin {"rest", "idle"} => verdict = "none"
    /\ stage = "start" /\ Local => at = Here
    /\ stage \in {"load", "check", "done"} => at = Here /\ at \in Commits
    /\ stage \in {"list", "fetch", "load", "check", "done"} /\ kind = "named" =>
          source \in Commits /\ Usable(source) /\ picked = Required(source)
    /\ stage \notin {"rest", "idle"} /\ kind # "named" => source = 0 /\ picked = Fixed
    /\ stage = "done" => Complete(at, picked)

\* The last event that each place allows; without --json there is none.
EventExact ==
    /\ json <=> last # "none"
    /\ stage \in {"start", "list"} => last \in {"none", "start"}
    /\ stage = "list" => json
    /\ stage \in {"fetch", "load", "check"} => last \in {"none", "start", "progress"}
    /\ stage = "check" /\ Local => last \in {"none", "start"}
    /\ stage = "done" => last \in {"none", "done", IF Local THEN "start" ELSE "final"}
    /\ last \in {"complete", "download", "invalid"} => stage \in {"rest", "idle"}

\* The progress thread: alive during the download, and for one event more.
ReporterExact ==
    /\ reporter \in {"waits", "measured"} => stage \in {"fetch", "load"}
    /\ reporter = "stopping" => stage \in {"idle", "check", "done"}
    /\ reporter # "off" => json /\ ~Local
    /\ late <= 1 /\ (late = 1 => reporter = "off")
    /\ stage \in {"start", "list", "fetch", "load"} => late = 0
    /\ stage \in {"start", "list"} => shown = 0 /\ seen = 0
    /\ reporter # "off" /\ last \in {"start", "progress"} =>
          shown <= seen /\ seen <= FinishedFiles

PrefetchInv == PrefetchTypeOK /\ RunExact /\ EventExact /\ ReporterExact /\ CacheClaimsHold

-----------------------------------------------------------------------------
\* What the assumptions say of files and commits.
LEMMA FileFacts ==
    /\ Fixed \subseteq Files /\ Weights \subseteq Files /\ "config" \in Files
    /\ \A c \in Commits : Required(c) \subseteq Files /\ c \in Nat /\ c # 0
    /\ 1 \in Commits /\ 0 \notin Commits
    /\ \A f \in Files, c \in Commits : Blob(f, c) \in BlobIds
<1>1. /\ Commits = 1 .. Len(Names) /\ Len(Names) \in Nat \ {0}
      /\ \A c \in Commits : Names[c] \subseteq Weights
  BY PrefetchAssumption DEF Commits
<1>2. \A f \in Files, c \in Commits : Blob(f, c) \in BlobIds
  BY DEF BlobIds
<1>3. QED
  BY <1>1, <1>2 DEF Fixed, Files, Required

\* Membership is a truth value.
LEMMA Decided == \A x, S : (x \in S) \in BOOLEAN
OBVIOUS

\* There are finitely many blobs ...
LEMMA Countable ==
    \A B \in SUBSET BlobIds : IsFiniteSet(B) /\ Cardinality(B) \in Nat
<1>1. IsFiniteSet(Files \X (0 .. Len(Names)))
  <2>1. IsFiniteSet(Files)
    BY PrefetchAssumption, FS_EmptySet, FS_AddElement, FS_Union DEF Files
  <2>2. IsFiniteSet(0 .. Len(Names))
    BY PrefetchAssumption, FS_Interval
  <2>3. QED
    BY <2>1, <2>2, FS_Product
<1>2. BlobIds \subseteq Files \X (0 .. Len(Names))
  BY PrefetchAssumption DEF BlobIds, Blob, Commits
<1>3. \A B \in SUBSET BlobIds : IsFiniteSet(B)
  BY <1>1, <1>2, FS_Subset
<1>4. QED
  BY <1>3, FS_CardinalityType

\* ... and of those a run counts, never fewer are finished than before.
LEMMA FinishedGrow ==
    ASSUME PrefetchTypeOK, counted' = counted,
           \A x \in counted : blobs[x] = "full" => blobs'[x] = "full"
    PROVE  FinishedFiles \in Nat /\ FinishedFiles' \in Nat /\ FinishedFiles <= FinishedFiles'
<1> DEFINE before == {x \in counted : blobs[x] = "full"}
           after == {x \in counted : blobs'[x] = "full"}
<1>1. before \subseteq after /\ before \in SUBSET BlobIds /\ after \in SUBSET BlobIds
  BY DEF PrefetchTypeOK
<1>2. IsFiniteSet(after) /\ Cardinality(before) \in Nat /\ Cardinality(after) \in Nat
  BY <1>1, Countable
<1>3. Cardinality(before) <= Cardinality(after)
  BY <1>1, <1>2, FS_Subset
<1>4. FinishedFiles = Cardinality(before) /\ FinishedFiles' = Cardinality(after)
  BY DEF FinishedFiles
<1>5. QED
  BY <1>2, <1>3, <1>4

\* What the cache offers, it keeps, as long as its main is the same commit.
LEMMA LoadableKept ==
    ASSUME Loadable, kind' = kind, Here' = Here, links \subseteq links' PROVE Loadable'
BY DEF Loadable, Readable, Complete, Required, Folder, Fixed

\* The invariant holds before the first run.
LEMMA InitPrefetchInv == PrefetchInit => PrefetchInv
<1> SUFFICES ASSUME PrefetchInit PROVE PrefetchInv
  OBVIOUS
<1> USE DEF PrefetchInit, NoRun
<1>1. PrefetchTypeOK
  BY PrefetchAssumption, FileFacts DEF PrefetchTypeOK, Local
<1>2. RunExact /\ EventExact /\ ReporterExact /\ CacheClaimsHold
  BY DEF RunExact, EventExact, ReporterExact, CacheClaimsHold
<1>3. QED
  BY <1>1, <1>2 DEF PrefetchInv

\* PrefetchTypeOK is preserved.
LEMMA TypeStep ==
    ASSUME PrefetchInv, [PrefetchNext]_pfVars PROVE PrefetchTypeOK'
<1> USE DEF PrefetchInv, PrefetchTypeOK, hubVars, cacheVars, runVars, channelVars,
           reportVars, promiseVars
<1>1. CASE MainMoves
  BY <1>1 DEF MainMoves
<1>2. CASE NetworkChanges
  BY <1>2 DEF NetworkChanges
<1>3. CASE Check
  BY <1>3 DEF Check
<1>4. CASE Fetch
  <2>1. at' \in Commits \cup {0} /\ picked' \subseteq Files /\ counted' = {}
    BY <1>4, FileFacts DEF Fetch, Here
  <2>2. last' \in {"none", "start"} /\ json' \in BOOLEAN /\ runs' \in Nat
    BY <1>4 DEF Fetch
  <2>3. QED
    BY <1>4, <2>1, <2>2 DEF Fetch
<1>5. CASE CheckLocal
  BY <1>5, FileFacts DEF CheckLocal
<1>6. CASE SkipConfig
  BY <1>6 DEF SkipConfig, NamesKnown
<1>7. CASE FetchConfig
  BY <1>7, FileFacts DEF FetchConfig, Refetched, NamedBy, NamesKnown, Fail, Emit,
     Land
<1>8. CASE ConfigOffline
  BY <1>8, FileFacts DEF ConfigOffline, NamedBy, NamesKnown, Fail, Emit
<1>9. CASE List
  BY <1>9, FileFacts DEF List
<1>10. CASE ListFails
  BY <1>10 DEF ListFails, Fail, Emit
<1>11. CASE Resolve
  BY <1>11 DEF Resolve, Refetched
<1>12. CASE ResolveOffline
  BY <1>12 DEF ResolveOffline, Fail, Emit, StopReporter
<1>13. CASE LoadFails
  BY <1>13 DEF LoadFails, Fail, Emit, StopReporter
<1>14. CASE Downloaded
  BY <1>14 DEF Downloaded, StopReporter
<1>15. CASE LastProgress
  BY <1>15, Countable DEF LastProgress
<1>16. CASE Done
  <2>1. CASE UNCHANGED <<stage, promise>> /\ last' = "done"
    BY <1>16, <2>1 DEF Done
  <2>2. CASE stage' = "idle" /\ Emit("complete") /\ promise' = (source \in {0, at})
    <3>1. promise' \in BOOLEAN
      BY <2>2, Decided, Zenon
    <3>2. last' \in {last, "complete"}
      BY <2>2 DEF Emit
    <3>3. QED
      BY <1>16, <2>2, <3>1, <3>2 DEF Done
  <2>3. QED
    BY <1>16, <2>1, <2>2 DEF Done
<1>17. CASE Incomplete
  BY <1>17 DEF Incomplete, Fail, Emit
<1>18. CASE Killed
  BY <1>18 DEF Killed
<1>19. CASE Measure
  BY <1>19, FinishedGrow DEF Measure
<1>20. CASE Progress
  BY <1>20 DEF Progress
<1>21. CASE \E f \in Files : LoadPart(f)
  <2>1. PICK f \in Files : LoadPart(f)
    BY ONLY <1>21
  <2>2. blobs' \in [BlobIds -> {"none", "part", "full"}]
    BY ONLY <2>1, blobs \in [BlobIds -> {"none", "part", "full"}] DEF LoadPart
  <2>3. QED
    BY <2>1, <2>2 DEF LoadPart
<1>22. CASE \E f \in Files : LoadFile(f)
  <2>1. PICK f \in Files : LoadFile(f)
    BY ONLY <1>22
  <2>2. at \in Commits /\ <<at, f>> \in Commits \X Files /\ Blob(f, at) \in BlobIds
    BY <2>1, FileFacts DEF LoadFile, RunExact
  <2>3. blobs' \in [BlobIds -> {"none", "part", "full"}]
    BY <2>1, <2>2 DEF LoadFile, Land
  <2>4. links' \subseteq Commits \X Files
    BY <2>1, <2>2 DEF LoadFile, Land
  <2>5. QED
    BY <2>1, <2>3, <2>4 DEF LoadFile
<1>23. CASE UNCHANGED pfVars
  BY <1>23 DEF pfVars
<1>24. QED
  BY <1>1, <1>2, <1>3, <1>4, <1>5, <1>6, <1>7, <1>8, <1>9, <1>10, <1>11, <1>12,
     <1>13, <1>14, <1>15, <1>16, <1>17, <1>18, <1>19, <1>20, <1>21, <1>22, <1>23
     DEF PrefetchNext

\* RunExact is preserved.
LEMMA RunStep ==
    ASSUME PrefetchInv, [PrefetchNext]_pfVars PROVE RunExact'
<1> USE DEF PrefetchInv, PrefetchTypeOK, RunExact, Local, Fixed, Required, Complete,
           Folder, Here, hubVars, cacheVars, runVars, channelVars, reportVars,
           promiseVars
<1>1. CASE MainMoves
  BY <1>1 DEF MainMoves
<1>2. CASE NetworkChanges
  BY <1>2 DEF NetworkChanges
<1>3. CASE Check
  BY <1>3 DEF Check
<1>4. CASE Fetch
  BY <1>4 DEF Fetch
<1>5. CASE CheckLocal
  BY <1>5 DEF CheckLocal
<1>6. CASE SkipConfig
  BY <1>6 DEF SkipConfig, NamesKnown
<1>7. CASE FetchConfig
  BY <1>7 DEF FetchConfig, Refetched, NamedBy, NamesKnown, Fail, Emit, Land
<1>8. CASE ConfigOffline
  <2>1. CASE stage' = "idle" /\ UNCHANGED <<picked, source>>
    BY <1>8, <2>1 DEF ConfigOffline
  <2>2. CASE ref # 0 /\ Readable(ref) /\ NamesKnown /\ NamedBy(ref)
    <3>1. ref \in Commits /\ Usable(ref)
      BY <1>8, <2>2 DEF ConfigOffline, Readable
    <3>2. source' = ref /\ picked' = Required(ref)' /\ stage' \in {"list", "fetch"}
      BY <1>8, <2>2 DEF ConfigOffline, NamesKnown, NamedBy
    <3>3. Usable(source)' /\ source' \in Commits'
      BY <3>1, <3>2 DEF Usable, Commits
    <3>4. QED
      BY <1>8, <3>2, <3>3 DEF ConfigOffline
  <2>3. QED
    BY <1>8, <2>1, <2>2 DEF ConfigOffline, Fail
<1>9. CASE List
  BY <1>9 DEF List
<1>10. CASE ListFails
  BY <1>10 DEF ListFails, Fail, Emit
<1>11. CASE Resolve
  BY <1>11 DEF Resolve, Refetched
<1>12. CASE ResolveOffline
  BY <1>12 DEF ResolveOffline, Fail, Emit, StopReporter
<1>13. CASE LoadFails
  BY <1>13 DEF LoadFails, Fail, Emit, StopReporter
<1>14. CASE Downloaded
  BY <1>14 DEF Downloaded, StopReporter
<1>15. CASE LastProgress
  <2>1. Here # 0 /\ Complete(at, picked)
    BY <1>15 DEF LastProgress, Validated
  <2>2. QED
    BY <1>15, <2>1 DEF LastProgress
<1>16. CASE Done
  BY <1>16 DEF Done, Emit
<1>17. CASE Incomplete
  BY <1>17 DEF Incomplete, Fail, Emit
<1>18. CASE Killed
  BY <1>18 DEF Killed
<1>19. CASE Measure
  BY <1>19 DEF Measure
<1>20. CASE Progress
  BY <1>20 DEF Progress
<1>21. CASE \E f \in Files : LoadPart(f)
  BY <1>21 DEF LoadPart
<1>22. CASE \E f \in Files : LoadFile(f)
  BY <1>22 DEF LoadFile, Land
<1>23. CASE UNCHANGED pfVars
  BY <1>23 DEF pfVars
<1>24. QED
  BY <1>1, <1>2, <1>3, <1>4, <1>5, <1>6, <1>7, <1>8, <1>9, <1>10, <1>11, <1>12,
     <1>13, <1>14, <1>15, <1>16, <1>17, <1>18, <1>19, <1>20, <1>21, <1>22, <1>23
     DEF PrefetchNext

\* EventExact is preserved.
LEMMA EventStep ==
    ASSUME PrefetchInv, [PrefetchNext]_pfVars PROVE EventExact'
<1> USE DEF PrefetchInv, PrefetchTypeOK, EventExact, ReporterExact, Local, hubVars,
           cacheVars, runVars, channelVars, reportVars, promiseVars
<1>1. CASE MainMoves
  BY <1>1 DEF MainMoves
<1>2. CASE NetworkChanges
  BY <1>2 DEF NetworkChanges
<1>3. CASE Check
  BY <1>3 DEF Check
<1>4. CASE Fetch
  BY <1>4 DEF Fetch
<1>5. CASE CheckLocal
  BY <1>5 DEF CheckLocal
<1>6. CASE SkipConfig
  BY <1>6 DEF SkipConfig, NamesKnown
<1>7. CASE FetchConfig
  BY <1>7 DEF FetchConfig, NamesKnown, Fail, Emit, NamedBy
<1>8. CASE ConfigOffline
  BY <1>8 DEF ConfigOffline, NamesKnown, Fail, Emit, NamedBy
<1>9. CASE List
  BY <1>9 DEF List
<1>10. CASE ListFails
  BY <1>10 DEF ListFails, Fail, Emit
<1>11. CASE Resolve
  BY <1>11 DEF Resolve, Refetched
<1>12. CASE ResolveOffline
  <2>1. ~Local
    BY <1>12 DEF ResolveOffline, RunExact
  <2>2. QED
    BY <1>12, <2>1 DEF ResolveOffline, Fail, Emit
<1>13. CASE LoadFails
  BY <1>13 DEF LoadFails, Fail, Emit, StopReporter
<1>14. CASE Downloaded
  <2>1. ~Local
    BY <1>14 DEF Downloaded, RunExact
  <2>2. QED
    BY <1>14, <2>1 DEF Downloaded
<1>15. CASE LastProgress
  BY <1>15 DEF LastProgress
<1>16. CASE Done
  BY <1>16 DEF Done, Emit
<1>17. CASE Incomplete
  BY <1>17 DEF Incomplete, Fail, Emit
<1>18. CASE Killed
  BY <1>18 DEF Killed
<1>19. CASE Measure
  BY <1>19 DEF Measure
<1>20. CASE Progress
  BY <1>20 DEF Progress
<1>21. CASE \E f \in Files : LoadPart(f)
  BY <1>21 DEF LoadPart
<1>22. CASE \E f \in Files : LoadFile(f)
  BY <1>22 DEF LoadFile, Land
<1>23. CASE UNCHANGED pfVars
  BY <1>23 DEF pfVars
<1>24. QED
  BY <1>1, <1>2, <1>3, <1>4, <1>5, <1>6, <1>7, <1>8, <1>9, <1>10, <1>11, <1>12,
     <1>13, <1>14, <1>15, <1>16, <1>17, <1>18, <1>19, <1>20, <1>21, <1>22, <1>23
     DEF PrefetchNext

\* ReporterExact is preserved.
LEMMA ReporterStep ==
    ASSUME PrefetchInv, [PrefetchNext]_pfVars PROVE ReporterExact'
<1> USE DEF PrefetchInv, PrefetchTypeOK, RunExact, EventExact, ReporterExact, Local,
           hubVars, cacheVars, runVars, channelVars, reportVars, promiseVars
<1>1. CASE MainMoves
  BY <1>1, FinishedGrow DEF MainMoves
<1>2. CASE NetworkChanges
  BY <1>2, FinishedGrow DEF NetworkChanges
<1>3. CASE Check
  BY <1>3, FinishedGrow DEF Check
<1>4. CASE Fetch
  BY <1>4 DEF Fetch
<1>5. CASE CheckLocal
  BY <1>5 DEF CheckLocal
<1>6. CASE SkipConfig
  BY <1>6 DEF SkipConfig, NamesKnown
<1>7. CASE FetchConfig
  BY <1>7 DEF FetchConfig, Refetched, NamedBy, NamesKnown, Fail, Emit, Land
<1>8. CASE ConfigOffline
  BY <1>8 DEF ConfigOffline, NamedBy, NamesKnown, Fail, Emit
<1>9. CASE List
  <2> DEFINE done == {x \in counted' : blobs'[x] = "full"}
  <2>1. done \in SUBSET BlobIds
    BY <1>9, FileFacts DEF List
  <2>2. FinishedFiles' \in Nat
    BY <2>1, Countable DEF FinishedFiles
  <2>3. QED
    BY <1>9, <2>2 DEF List
<1>10. CASE ListFails
  BY <1>10 DEF ListFails, Fail, Emit
<1>11. CASE Resolve
  BY <1>11, FinishedGrow DEF Resolve, Refetched
<1>12. CASE ResolveOffline
  BY <1>12, FinishedGrow DEF ResolveOffline, Fail, Emit, StopReporter
<1>13. CASE LoadFails
  BY <1>13 DEF LoadFails, Fail, Emit, StopReporter
<1>14. CASE Downloaded
  BY <1>14, FinishedGrow DEF Downloaded, StopReporter
<1>15. CASE LastProgress
  BY <1>15 DEF LastProgress
<1>16. CASE Done
  BY <1>16 DEF Done, Emit
<1>17. CASE Incomplete
  BY <1>17 DEF Incomplete, Fail, Emit
<1>18. CASE Killed
  BY <1>18 DEF Killed
<1>19. CASE Measure
  BY <1>19, FinishedGrow DEF Measure
<1>20. CASE Progress
  BY <1>20, FinishedGrow DEF Progress
<1>21. CASE \E f \in Files : LoadPart(f)
  BY <1>21, FinishedGrow DEF LoadPart
<1>22. CASE \E f \in Files : LoadFile(f)
  BY <1>22, FinishedGrow DEF LoadFile, Land
<1>23. CASE UNCHANGED pfVars
  BY <1>23, FinishedGrow DEF pfVars
<1>24. QED
  BY <1>1, <1>2, <1>3, <1>4, <1>5, <1>6, <1>7, <1>8, <1>9, <1>10, <1>11, <1>12,
     <1>13, <1>14, <1>15, <1>16, <1>17, <1>18, <1>19, <1>20, <1>21, <1>22, <1>23
     DEF PrefetchNext

\* CacheClaimsHold is preserved: the cache only loses what it offered when another
\* commit becomes its main, and a run that is "complete" has checked its files.
LEMMA ClaimStep ==
    ASSUME PrefetchInv, [PrefetchNext]_pfVars PROVE CacheClaimsHold'
<1> USE DEF PrefetchInv, PrefetchTypeOK, CacheClaimsHold, hubVars, cacheVars,
           runVars, channelVars, reportVars, promiseVars
<1>1. CASE UNCHANGED <<kind, ref, promise, verdict>> /\ links \subseteq links'
  <2>1. Here' = Here
    BY <1>1 DEF Here, Local
  <2>2. Loadable => Loadable'
    BY <1>1, <2>1, LoadableKept
  <2>3. QED
    BY <1>1, <2>2
<1>2. CASE Check
  <2>1. Loadable' <=> Loadable
    BY <1>2 DEF Check, Loadable, Here, Local, Readable, Complete, Required, Folder,
       Fixed
  <2>2. QED
    BY <1>2, <2>1 DEF Check
<1>3. CASE Fetch
  <2>1. Loadable' <=> Loadable
    BY <1>3 DEF Fetch, Loadable, Here, Local, Readable, Complete, Required, Folder,
       Fixed
  <2>2. QED
    BY <1>3, <2>1 DEF Fetch
<1>4. CASE FetchConfig \/ Resolve
  <2>1. /\ kind' = kind /\ ~Local /\ verdict' = "none" /\ links \subseteq links'
        /\ promise' = (promise /\ ref \in {0, ref'})
    BY <1>4 DEF FetchConfig, Resolve, Refetched, Land, Local, RunExact
  <2>2. CASE promise'
    <3>1. Loadable /\ ref = ref'
      BY <2>1, <2>2 DEF Loadable, Here, Local
    <3>2. Here' = Here
      BY <2>1, <3>1 DEF Here, Local
    <3>3. QED
      BY <2>1, <3>1, <3>2, LoadableKept
  <2>3. CASE ~promise'
    BY <2>1, <2>3
  <2>4. QED
    BY <2>2, <2>3
<1>5. CASE Done
  <2>1. UNCHANGED <<kind, ref, links, verdict>> /\ verdict = "none" /\ stage = "done"
    BY <1>5 DEF Done, RunExact
  <2>2. CASE promise' = promise
    BY <1>1, <2>1, <2>2
  <2>3. CASE promise' = (source \in {0, at})
    <3>1. at = Here /\ Here \in Commits /\ Complete(Here, picked)
      BY <2>1 DEF RunExact
    <3>2. ASSUME source \in {0, at} PROVE picked = Required(Here) /\ Readable(Here)
      <4>1. CASE kind = "named"
        <5>1. source = Here /\ Usable(Here) /\ picked = Required(Here)
          BY <2>1, <3>1, <3>2, <4>1, FileFacts DEF RunExact
        <5>2. "config" \in Folder(Here)
          BY <3>1, <4>1, <5>1 DEF Complete, Required
        <5>3. QED
          BY <5>1, <5>2 DEF Readable
      <4>2. CASE kind # "named"
        BY <2>1, <4>2 DEF RunExact, Required, Readable
      <4>3. QED
        BY <4>1, <4>2
    <3>3. source \in {0, at} => Loadable
      BY <3>1, <3>2, FileFacts DEF Loadable
    <3>4. Here' = Here
      BY <2>1 DEF Here, Local
    <3>5. Loadable => Loadable'
      BY <2>1, <3>4, LoadableKept
    <3>6. QED
      BY <2>1, <2>3, <3>3, <3>5
  <2>4. QED
    BY <1>5, <2>2, <2>3 DEF Done
<1>6. CASE \E f \in Files : LoadFile(f)
  BY <1>1, <1>6 DEF LoadFile, Land
<1>7. CASE MainMoves \/ NetworkChanges
  BY <1>1, <1>7 DEF MainMoves, NetworkChanges
<1>8. CASE CheckLocal \/ SkipConfig \/ ConfigOffline \/ List \/ ListFails
  BY <1>1, <1>8 DEF CheckLocal, SkipConfig, ConfigOffline, List, ListFails
<1>9. CASE ResolveOffline \/ LoadFails \/ Downloaded \/ LastProgress \/ Incomplete \/ Killed
  BY <1>1, <1>9 DEF ResolveOffline, LoadFails, Downloaded, LastProgress, Incomplete,
     Killed
<1>10. CASE Measure \/ Progress \/ (\E f \in Files : LoadPart(f)) \/ UNCHANGED pfVars
  BY <1>1, <1>10 DEF Measure, Progress, LoadPart, pfVars
<1>11. QED
  BY <1>2, <1>3, <1>4, <1>5, <1>6, <1>7, <1>8, <1>9, <1>10 DEF PrefetchNext

\* ... is preserved by every step ...
LEMMA NextPrefetchInv == PrefetchInv /\ [PrefetchNext]_pfVars => PrefetchInv'
BY TypeStep, RunStep, EventStep, ReporterStep, ClaimStep DEF PrefetchInv

\* ... and so holds throughout.
LEMMA SpecPrefetchInv == PrefetchSpec => []PrefetchInv
BY InitPrefetchInv, NextPrefetchInv, PTL DEF PrefetchSpec

-----------------------------------------------------------------------------
\* Every variable keeps its type.
THEOREM PrefetchTypeCorrect == PrefetchSpec => []PrefetchTypeOK
<1>1. PrefetchInv => PrefetchTypeOK
  BY DEF PrefetchInv
<1>2. QED
  BY SpecPrefetchInv, <1>1, PTL

\* After "complete", and after a --check that said so, the model loads without the
\* network, whatever was killed or fell back to a partial folder before and since.
THEOREM ClaimsTrue == PrefetchSpec => []CacheClaimsHold
<1>1. PrefetchInv => CacheClaimsHold
  BY DEF PrefetchInv
<1>2. QED
  BY SpecPrefetchInv, <1>1, PTL

-----------------------------------------------------------------------------
(* The order of the events.                                                *)

EventOrder ==
    runs' = runs /\ last # "none" =>
        /\ last' # last =>
             /\ Phase(last') > Phase(last)
             /\ last' = "done" => last = IF Local THEN "start" ELSE "final"
        /\ last' = "complete" => last \in {"done", "complete"}
        /\ last \in {"complete", "download", "invalid"} => last' = last
        /\ last' = "progress" => shown' >= shown
        /\ late' <= 1

\* Each step keeps the events in order.
LEMMA OrderStep ==
    ASSUME PrefetchInv, [PrefetchNext]_pfVars PROVE EventOrder
<1> USE DEF PrefetchInv, PrefetchTypeOK, EventExact, ReporterExact, EventOrder,
           Phase, Local, hubVars, cacheVars, runVars, channelVars, reportVars,
           promiseVars
<1>1. CASE MainMoves
  BY <1>1 DEF MainMoves
<1>2. CASE NetworkChanges
  BY <1>2 DEF NetworkChanges
<1>3. CASE Check
  BY <1>3 DEF Check
<1>4. CASE Fetch
  BY <1>4 DEF Fetch
<1>5. CASE CheckLocal
  BY <1>5 DEF CheckLocal
<1>6. CASE SkipConfig
  BY <1>6 DEF SkipConfig, NamesKnown
<1>7. CASE FetchConfig
  BY <1>7 DEF FetchConfig, Refetched, NamedBy, NamesKnown, Fail, Emit, Land
<1>8. CASE ConfigOffline
  BY <1>8 DEF ConfigOffline, NamedBy, NamesKnown, Fail, Emit
<1>9. CASE List
  BY <1>9 DEF List
<1>10. CASE ListFails
  BY <1>10 DEF ListFails, Fail, Emit
<1>11. CASE Resolve
  BY <1>11 DEF Resolve, Refetched
<1>12. CASE ResolveOffline
  BY <1>12 DEF ResolveOffline, Fail, Emit, StopReporter
<1>13. CASE LoadFails
  BY <1>13 DEF LoadFails, Fail, Emit, StopReporter
<1>14. CASE Downloaded
  BY <1>14 DEF Downloaded, StopReporter
<1>15. CASE LastProgress
  BY <1>15 DEF LastProgress
<1>16. CASE Done
  BY <1>16 DEF Done, Emit
<1>17. CASE Incomplete
  BY <1>17 DEF Incomplete, Fail, Emit
<1>18. CASE Killed
  BY <1>18 DEF Killed
<1>19. CASE Measure
  BY <1>19 DEF Measure
<1>20. CASE Progress
  BY <1>20 DEF Progress
<1>21. CASE \E f \in Files : LoadPart(f)
  BY <1>21 DEF LoadPart
<1>22. CASE \E f \in Files : LoadFile(f)
  BY <1>22 DEF LoadFile, Land
<1>23. CASE UNCHANGED pfVars
  BY <1>23 DEF pfVars
<1>24. QED
  BY <1>1, <1>2, <1>3, <1>4, <1>5, <1>6, <1>7, <1>8, <1>9, <1>10, <1>11, <1>12,
     <1>13, <1>14, <1>15, <1>16, <1>17, <1>18, <1>19, <1>20, <1>21, <1>22, <1>23
     DEF PrefetchNext

\* One run's events come in the documented order, whatever the progress thread
\* does: at most one event of its own after the command stopped waiting for it.
THEOREM EventsRight == PrefetchSpec => EventsInOrder
<1>1. PrefetchInv /\ [PrefetchNext]_pfVars => EventOrder
  BY OrderStep
<1>2. PrefetchSpec => [][EventOrder]_pfVars
  BY <1>1, SpecPrefetchInv, PTL DEF PrefetchSpec
<1>3. QED
  BY <1>2 DEF EventOrder, EventsInOrder

=============================================================================
