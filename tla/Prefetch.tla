------------------------------- MODULE Prefetch -------------------------------
(***************************************************************************)
(* "stt_server prefetch" (src/stt_server/prefetch.py, snapshot.py and the  *)
(* backends' prefetch_specs): runs of the command, killed anywhere and run *)
(* again, over one Hugging Face cache and a hub whose main branch moves    *)
(* and which may be out of reach.  huggingface_hub is modelled by what the *)
(* command relies on: finished blobs stay, partial ones are resumed, a     *)
(* file enters a snapshot when its blob is finished, and a hub out of      *)
(* reach means the local snapshot folder, which may lack files.            *)
(***************************************************************************)
EXTENDS Naturals, Sequences, FiniteSets

CONSTANTS
    Kinds,       \* the kinds of spec: a subset of AllKinds
    Weights,     \* weight files
    Names,       \* the weights each commit's config.json names; {}: unusable
    MaxRuns      \* bound: how often the command is run

\* A pinned revision; main with fixed file names (parakeet, nemotron, mlx); main
\* with names from config.json (kyutai's resolve); a local directory.
AllKinds == {"pinned", "main", "named", "local"}
Commits  == DOMAIN Names

ASSUME PrefetchAssumption ==
    /\ Kinds \subseteq AllKinds
    /\ IsFiniteSet(Weights) /\ "config" \notin Weights
    /\ Names \in Seq(SUBSET Weights) /\ Names # <<>>
    /\ MaxRuns \in Nat

VARIABLES
    kind,      \* which spec is fetched
    online,    \* the hub can be reached
    head,      \* the hub's main
    ref,       \* the commit the cache knows as main (0: none)
    blobs,     \* the cache's blobs
    links,     \* the files of each snapshot folder
    stage,     \* where the running command stands; "rest": no command is ever run
    json,      \* --json
    picked,    \* the files this run fetches and requires
    at,        \* the commit of the snapshot this run got
    counted,   \* the blobs its progress counts
    reporter,  \* the progress thread: "off", "waits", "measured", or busy
               \* with a last event when the command stopped waiting: "stopping"
    seen,      \* the finished files it measured
    last,      \* the last event
    shown,     \* the finished files in the last progress event
    late,      \* history: progress events after the final one, or after an error
    source,    \* history: the commit whose config.json named them (0: the backend)
    promise,   \* history: a run completed, and no other commit was fetched since
    verdict,   \* history: what --check said since the last fetch
    runs       \* history: runs so far

hubVars == <<online, head>>
cacheVars == <<ref, blobs, links>>
runVars == <<json, picked, source, at, counted>>
channelVars == <<last, shown, late>>
reportVars == <<reporter, seen>>
promiseVars == <<promise, verdict>>
pfVars == <<kind, hubVars, cacheVars, stage, runVars, reportVars, channelVars,
            promiseVars, runs>>

-----------------------------------------------------------------------------
Files == Weights \cup {"config"}

\* A commit has its own config.json; the weights are the same blobs in all.
Blob(f, c) == <<f, IF f = "config" THEN c ELSE 0>>
BlobIds == {Blob(f, c) : f \in Files, c \in Commits}

Local == kind = "local"
Fixed == {"config"} \cup Names[1]     \* the names a backend knows itself

\* What the spec, or _resolved, requires of the snapshot of commit c.
Required(c) == IF kind = "named" THEN {"config"} \cup Names[c] ELSE Fixed

Folder(c) == {f \in Files : <<c, f>> \in links}
Complete(c, required) == required \subseteq Folder(c)

\* The snapshot the cache, or the user's directory, offers without the network.
Here == IF Local THEN 1 ELSE ref

\* Every name in the commit's config.json is there and a plain file name.
Usable(c) == Names[c] # {}

\* config.json is there and names its files.
Readable(c) == kind # "named" \/ ("config" \in Folder(c) /\ Usable(c))

\* The backend's loader finds every file it opens (_get_model, _model_path).
Loadable == Here # 0 /\ Readable(Here) /\ Complete(Here, Required(Here))

PrefetchTypeOK ==
    /\ kind \in AllKinds /\ online \in BOOLEAN /\ head \in Commits
    /\ ref \in Commits \cup {0} /\ at \in Commits \cup {0}
    /\ blobs \in [BlobIds -> {"none", "part", "full"}]
    /\ links \subseteq Commits \X Files
    /\ stage \in {"rest", "idle", "start", "list", "fetch", "load", "check", "done"}
    /\ json \in BOOLEAN /\ picked \subseteq Files /\ counted \subseteq BlobIds
    /\ reporter \in {"off", "waits", "measured", "stopping"}
    /\ seen \in Nat /\ shown \in Nat /\ late \in Nat /\ runs \in Nat
    /\ last \in {"none", "start", "progress", "final", "done", "complete",
                 "download", "invalid"}
    /\ source \in Commits \cup {0} /\ promise \in BOOLEAN
    /\ verdict \in {"none", "cached", "missing"}

NoRun(where) ==
    /\ head = 1 /\ ref = 0 /\ blobs = [b \in BlobIds |-> "none"]
    /\ stage = where /\ json = FALSE /\ picked = {} /\ source = 0 /\ at = 0
    /\ counted = {} /\ reporter = "off" /\ seen = 0 /\ last = "none" /\ shown = 0
    /\ late = 0 /\ promise = FALSE /\ verdict = "none" /\ runs = 0

\* A local directory holds what it holds; the cache starts empty.
PrefetchInit ==
    /\ kind \in Kinds /\ online \in BOOLEAN
    /\ links \in IF Local THEN SUBSET ({1} \X Files) ELSE {{}}
    /\ NoRun("idle")

\* The command is never run.
PrefetchRest == kind = "local" /\ online = FALSE /\ links = {} /\ NoRun("rest")

-----------------------------------------------------------------------------
(* Events.  Without --json nothing is emitted.                             *)

Emit(event) ==
    IF json THEN last' = event ELSE UNCHANGED last

\* _run_fetch raises, run_prefetch reports and exits 1.
Fail(code) ==
    /\ stage' = "idle" /\ Emit(code)
    /\ UNCHANGED shown

-----------------------------------------------------------------------------
(* The hub and the cache (external).                                       *)

MainMoves ==
    /\ stage # "rest" /\ kind \in {"main", "named"} /\ head + 1 \in Commits
    /\ head' = head + 1
    /\ UNCHANGED <<kind, online, cacheVars, stage, runVars, reportVars, channelVars,
                   promiseVars, runs>>

NetworkChanges ==
    /\ stage # "rest"
    /\ online' = ~online
    /\ UNCHANGED <<kind, head, cacheVars, stage, runVars, reportVars, channelVars,
                   promiseVars, runs>>

\* The blob of f is finished and linked into the snapshot of c.
Land(f, c) ==
    /\ blobs' = [blobs EXCEPT ![Blob(f, c)] = "full"]
    /\ links' = links \cup {<<c, f>>}

-----------------------------------------------------------------------------
(* The command.                                                            *)

\* --check: the spec is resolved from the snapshot on disk, never from the hub.
Check ==
    /\ stage = "idle" /\ runs < MaxRuns
    /\ runs' = runs + 1 /\ verdict' = IF Loadable THEN "cached" ELSE "missing"
    /\ UNCHANGED <<kind, hubVars, cacheVars, stage, runVars, reportVars, channelVars,
                   promise>>

\* fetch_spec begins; only now is a verdict out of date.
Fetch ==
    /\ stage = "idle" /\ runs < MaxRuns
    /\ runs' = runs + 1 /\ stage' = "start" /\ json' \in BOOLEAN
    /\ picked' = Fixed /\ source' = 0 /\ at' = Here /\ counted' = {}
    /\ reporter' = "off" /\ seen' = 0
    /\ last' = IF json' THEN "start" ELSE "none"
    /\ shown' = 0 /\ late' = 0 /\ verdict' = "none"
    /\ UNCHANGED <<kind, hubVars, cacheVars, promise>>

\* A local directory is only validated.
CheckLocal ==
    /\ stage = "start" /\ Local
    /\ stage' = "check"
    /\ UNCHANGED <<kind, hubVars, cacheVars, runVars, reportVars, channelVars,
                   promiseVars, runs>>

\* The names are known: go on to the list of files, or to the download.
NamesKnown == stage' = IF json THEN "list" ELSE "fetch"

SkipConfig ==
    /\ stage = "start" /\ kind \in {"pinned", "main"}
    /\ NamesKnown
    /\ UNCHANGED <<kind, hubVars, cacheVars, runVars, reportVars, channelVars,
                   promiseVars, runs>>

NamedBy(c) == picked' = Required(c) /\ source' = c

\* The cache's main may become another commit, which need not be complete.
Refetched == promise' = (promise /\ ref \in {0, ref'})

\* config.json first: from the hub's main, which becomes the cache's.
FetchConfig ==
    /\ stage = "start" /\ kind = "named" /\ online
    /\ ref' = head /\ Land("config", head) /\ Refetched
    /\ IF Usable(head)
       THEN NamesKnown /\ NamedBy(head) /\ UNCHANGED <<last, shown>>
       ELSE Fail("invalid") /\ UNCHANGED <<picked, source>>
    /\ UNCHANGED <<kind, hubVars, json, at, counted, reportVars, late, verdict, runs>>

\* Out of reach: the snapshot folder on disk, if there is one.
ConfigOffline ==
    /\ stage = "start" /\ kind = "named" /\ ~online
    /\ CASE ref = 0 \/ Folder(ref) = {} -> Fail("download") /\ UNCHANGED <<picked, source>>
         [] ref # 0 /\ Folder(ref) # {} /\ ~Readable(ref) ->
                Fail("invalid") /\ UNCHANGED <<picked, source>>
         [] OTHER -> NamesKnown /\ NamedBy(ref) /\ UNCHANGED <<last, shown>>
    /\ UNCHANGED <<kind, hubVars, cacheVars, json, at, counted, reportVars, late,
                   promiseVars, runs>>

\* _remote_files and the blobs still to come; the progress thread starts.
List ==
    /\ stage = "list" /\ online
    /\ counted' = {Blob(f, head) : f \in {g \in picked : blobs[Blob(g, head)] # "full"}}
    /\ reporter' = "waits" /\ stage' = "fetch"
    /\ UNCHANGED <<kind, hubVars, cacheVars, json, picked, source, at, seen, channelVars,
                   promiseVars, runs>>

ListFails ==
    /\ stage = "list" /\ ~online
    /\ Fail("download")
    /\ UNCHANGED <<kind, hubVars, cacheVars, runVars, reportVars, late,
                   promiseVars, runs>>

\* snapshot_download resolves main once more.
Resolve ==
    /\ stage = "fetch" /\ online
    /\ ref' = head /\ at' = head /\ stage' = "load" /\ Refetched
    /\ UNCHANGED <<kind, hubVars, blobs, links, json, picked, source, counted,
                   reportVars, channelVars, verdict, runs>>

\* Mutant: nobody tells the progress thread that the download is over.
StopReporter_Forget == reporter' = reporter

\* The reporter is told to stop and joined for a second: it is gone, unless it
\* is still busy with an event then.
StopReporter == reporter' = IF reporter = "measured" THEN "stopping" ELSE "off"

\* Out of reach: the local folder is taken as it is, or there is none.
ResolveOffline ==
    /\ stage = "fetch" /\ ~online
    /\ StopReporter
    /\ IF ref = 0 \/ Folder(ref) = {}
       THEN Fail("download") /\ UNCHANGED at
       ELSE stage' = "check" /\ at' = ref /\ UNCHANGED <<last, shown>>
    /\ UNCHANGED <<kind, hubVars, cacheVars, json, picked, source, counted, seen, late,
                   promiseVars, runs>>

\* Some bytes of a file arrive.
LoadPart(f) ==
    /\ stage = "load" /\ online /\ f \in picked /\ blobs[Blob(f, at)] = "none"
    /\ blobs' = [blobs EXCEPT ![Blob(f, at)] = "part"]
    /\ UNCHANGED <<kind, hubVars, ref, links, stage, runVars, reportVars, channelVars,
                   promiseVars, runs>>

\* A file is finished, or was there already.
LoadFile(f) ==
    /\ stage = "load" /\ f \in picked \ Folder(at)
    /\ online \/ blobs[Blob(f, at)] = "full"
    /\ Land(f, at)
    /\ UNCHANGED <<kind, hubVars, ref, stage, runVars, reportVars, channelVars,
                   promiseVars, runs>>

LoadFails ==
    /\ stage = "load" /\ ~online /\ ~Complete(at, picked)
    /\ StopReporter /\ Fail("download")
    /\ UNCHANGED <<kind, hubVars, cacheVars, runVars, seen, late, promiseVars, runs>>

\* Every file the patterns match is there.
Downloaded ==
    /\ stage = "load" /\ Complete(at, picked)
    /\ StopReporter /\ stage' = "check"
    /\ UNCHANGED <<kind, hubVars, cacheVars, runVars, seen, channelVars, promiseVars, runs>>

\* Mutant: whatever folder the hub returned is believed.
Validated_Trust == TRUE

Validated == Here # 0 /\ Complete(at, picked)

\* The final progress event (100%; none for a local directory) ...
LastProgress ==
    /\ stage = "check" /\ Validated
    /\ stage' = "done"
    /\ last' = IF json /\ ~Local THEN "final" ELSE last
    /\ shown' = Cardinality(counted) /\ late' = 0
    /\ UNCHANGED <<kind, hubVars, cacheVars, runVars, reportVars, promiseVars, runs>>

\* ... then done, complete, and exit status 0.
Done ==
    /\ stage = "done"
    /\ IF json /\ last # "done"
       THEN last' = "done" /\ UNCHANGED <<stage, promise>>
       ELSE stage' = "idle" /\ Emit("complete") /\ promise' = (source \in {0, at})
    /\ UNCHANGED <<kind, hubVars, cacheVars, runVars, reportVars, shown, late, verdict,
                   runs>>

Incomplete ==
    /\ stage = "check" /\ ~Validated
    /\ Fail("invalid")
    /\ UNCHANGED <<kind, hubVars, cacheVars, runVars, reportVars, late,
                   promiseVars, runs>>

\* The process is killed, or ends with a busy progress thread (a daemon).
Killed ==
    /\ stage \notin {"rest", "idle"} \/ (stage = "idle" /\ reporter # "off")
    /\ stage' = "idle" /\ reporter' = "off"
    /\ UNCHANGED <<kind, hubVars, cacheVars, runVars, seen, channelVars, promiseVars, runs>>

-----------------------------------------------------------------------------
(* The progress thread.                                                    *)

FinishedFiles == Cardinality({b \in counted : blobs[b] = "full"})

Measure ==
    /\ reporter = "waits"
    /\ reporter' = "measured" /\ seen' = FinishedFiles
    /\ UNCHANGED <<kind, hubVars, cacheVars, stage, runVars, channelVars, promiseVars, runs>>

\* Its event; afterwards it looks whether the download is over.
Progress ==
    /\ reporter \in {"measured", "stopping"}
    /\ reporter' = IF reporter = "measured" THEN "waits" ELSE "off"
    /\ shown' = seen
    /\ IF stage \in {"fetch", "load"}
       THEN last' = "progress" /\ UNCHANGED late
       ELSE late' = late + 1 /\ UNCHANGED last
    /\ UNCHANGED <<kind, hubVars, cacheVars, stage, runVars, seen, promiseVars, runs>>

PrefetchNext ==
    \/ MainMoves \/ NetworkChanges \/ Check \/ Fetch \/ CheckLocal \/ SkipConfig
    \/ FetchConfig \/ ConfigOffline \/ List \/ ListFails \/ Resolve \/ ResolveOffline
    \/ LoadFails \/ Downloaded \/ LastProgress \/ Done \/ Incomplete \/ Killed
    \/ Measure \/ Progress
    \/ \E f \in Files : LoadPart(f) \/ LoadFile(f)

PrefetchSpec == PrefetchInit /\ [][PrefetchNext]_pfVars

-----------------------------------------------------------------------------
(* Properties.                                                             *)

\* What the command said of the cache is so: after "complete", and after a --check
\* that said cached, the loader finds every file it opens without the network,
\* and a --check after "complete" says cached; whatever was killed, failed
\* half-way, fell back to a partial folder or ran offline since, until a later run
\* fetches another commit.  (With a config.json of one commit and a snapshot of
\* another the command promises too much.)
CacheClaimsHold ==
    /\ promise \/ verdict = "cached" => Loadable
    /\ promise => verdict # "missing"

Phase(event) ==
    CASE event = "start" -> 0 [] event = "progress" -> 1 [] event = "final" -> 2
      [] event = "done" -> 3 [] event = "complete" -> 4 [] OTHER -> 5

\* One run's events: start, progress, the final progress, done, complete, or an
\* error in place of the last three; the files done never go back; and the
\* progress thread adds at most one event after the command stopped waiting for it.
EventsInOrder ==
    [][ runs' = runs /\ last # "none" =>
        /\ last' # last =>
             /\ Phase(last') > Phase(last)
             /\ last' = "done" => last = IF Local THEN "start" ELSE "final"
        /\ last' = "complete" => last \in {"done", "complete"}
        /\ last \in {"complete", "download", "invalid"} => last' = last
        /\ last' = "progress" => shown' >= shown
        /\ late' <= 1 ]_pfVars

=============================================================================
