------------------------- MODULE TranscodePipeline --------------------------
(***************************************************************************)
(* Upload, background transcoding and stream resolution: the API process   *)
(* (internal/httpapi/server.go), the worker processes                      *)
(* (cmd/hexsonic-worker/main.go), ffmpeg (internal/media) and the tables   *)
(* and directories they share.                                             *)
(*                                                                         *)
(* One upload is one HTTP request; its steps interleave with the steps of  *)
(* the other uploads, of the workers and of the processDerived goroutines. *)
(* A content is identified by its blake3 hash, a track by its UUID; the    *)
(* single transcode_jobs and track_files row of a track is identified by   *)
(* the track.  Artists and albums are the business of module Catalog.      *)
(***************************************************************************)
EXTENDS Integers

CONSTANTS
    Hashes,       \* contents that may be uploaded
    Tracks,       \* track UUIDs that may be drawn
    Uploads,      \* concurrent upload requests
    Workers,      \* worker processes
    NoHash,       \* no track_files row
    NoTrack,      \* an upload or worker that has no track yet
    DerivedSync,  \* HEXSONIC_ENABLE_DERIVED_SYNC
    MaxStamp,     \* bound: distinct transaction start times in use
    MaxFaults     \* bound: crashes and unacknowledged database writes

ASSUME ConstantsAssumption ==
    /\ NoHash \notin Hashes
    /\ NoTrack \notin Tracks
    /\ DerivedSync \in BOOLEAN
    /\ MaxStamp \in Nat
    /\ MaxFaults \in Nat

\* The files processJob writes, in its order: 320.mp3, mobile.m4a,
\* opus160.opus and waveform.json.  All but the last can be streamed.
Stages == 1..4
Streamable == 1..3
\* The phases of a worker that knows it has a job.
Holding == {"ready", "writing", "failing"}
FileStates == {"absent", "partial", "mixed", "complete"}

VARIABLES
    used,       \* UUIDs of the tracks ever committed
    fileHash,   \* track_files.file_hash of a live track, NoHash without row
    job,        \* transcode_jobs.status, "none" without row
    attempts,   \* transcode_jobs.attempts
    created,    \* transcode_jobs.created_at, the start of the upload's tx
    originals,  \* contents stored below originals/
    derived,    \* state of each file below derived/<track>/
    upload,     \* the upload requests in progress
    worker,     \* the job each worker holds and how far it is
    sync,       \* the processDerived goroutine of each track
    faults      \* faults so far

db == <<used, fileHash, job, attempts, created>>
vars == <<used, fileHash, job, attempts, created, originals, derived,
          upload, worker, sync, faults>>

IdleUpload == [pc |-> "idle", hash |-> NoHash, track |-> NoTrack, stamp |-> 0]
IdleWorker == [phase |-> "idle", track |-> NoTrack, stage |-> 1]
IdleSync   == [phase |-> "idle", stage |-> 1]

UploadStates ==
    [pc : {"idle", "hashed", "missing", "moved", "inserted"},
     hash : Hashes \cup {NoHash}, track : Tracks \cup {NoTrack}, stamp : Nat]
WorkerStates ==
    [phase : {"idle", "claiming", "ready", "writing", "failing"},
     track : Tracks \cup {NoTrack}, stage : 1..5]
SyncStates == [phase : {"idle", "ready", "writing"}, stage : Stages]

TypeOK ==
    /\ used \in SUBSET Tracks
    /\ fileHash \in [Tracks -> Hashes \cup {NoHash}]
    /\ job \in [Tracks -> {"none", "queued", "processing", "done", "failed"}]
    /\ attempts \in [Tracks -> Nat]
    /\ created \in [Tracks -> Nat]
    /\ originals \in SUBSET Hashes
    /\ derived \in [Tracks -> [Stages -> FileStates]]
    /\ upload \in [Uploads -> UploadStates]
    /\ worker \in [Workers -> WorkerStates]
    /\ sync \in [Tracks -> SyncStates]
    /\ faults \in Nat

Init ==
    /\ used = {}
    /\ fileHash = [t \in Tracks |-> NoHash]
    /\ job = [t \in Tracks |-> "none"]
    /\ attempts = [t \in Tracks |-> 0]
    /\ created = [t \in Tracks |-> 0]
    /\ originals = {}
    /\ derived = [t \in Tracks |-> [s \in Stages |-> "absent"]]
    /\ upload = [u \in Uploads |-> IdleUpload]
    /\ worker = [w \in Workers |-> IdleWorker]
    /\ sync = [t \in Tracks |-> IdleSync]
    /\ faults = 0

Live(t) == fileHash[t] # NoHash

-----------------------------------------------------------------------------
(* importSingleTrack                                                       *)

\* The start times in use: those of the open transactions and of the rows.
Stamps == {upload[u].stamp : u \in Uploads} \cup {created[t] : t \in Tracks}

\* n is the time now: the first one after every start time in use.
Now(n) == (\A m \in Stamps : m < n) /\ n - 1 \in Stamps

\* writeTempAndHash has copied the body to a temporary file and ffprobe has
\* accepted it.
ReceiveUpload(u, h) ==
    /\ upload[u].pc = "idle"
    /\ upload' = [upload EXCEPT ![u] =
           [pc |-> "hashed", hash |-> h, track |-> NoTrack, stamp |-> 0]]
    /\ UNCHANGED <<db, originals, derived, worker, sync, faults>>

\* The transaction begins and the hash is looked up.  A known content ends
\* the request as "deduplicated", ...
Deduplicate(u) ==
    /\ upload[u].pc = "hashed"
    /\ \E t \in Tracks : fileHash[t] = upload[u].hash
    /\ upload' = [upload EXCEPT ![u] = IdleUpload]
    /\ UNCHANGED <<db, originals, derived, worker, sync, faults>>

\* ... a new one goes on in the transaction that began now.
MissHash(u, now) ==
    /\ upload[u].pc = "hashed"
    /\ \A t \in Tracks : fileHash[t] # upload[u].hash
    /\ Now(now)
    /\ upload' = [upload EXCEPT ![u].pc = "missing", ![u].stamp = now]
    /\ UNCHANGED <<db, originals, derived, worker, sync, faults>>

\* Mutant: the rename is forgotten.
MoveOriginalSkipped(u) ==
    /\ upload[u].pc = "missing"
    /\ upload' = [upload EXCEPT ![u].pc = "moved"]
    /\ UNCHANGED <<db, originals, derived, worker, sync, faults>>

\* Rename the temporary file unless the original is already there.
MoveOriginal(u) ==
    /\ upload[u].pc = "missing"
    /\ originals' = originals \cup {upload[u].hash}
    /\ upload' = [upload EXCEPT ![u].pc = "moved"]
    /\ UNCHANGED <<db, derived, worker, sync, faults>>

\* Mutant: without the UNIQUE constraint, the lookup is the only check.
HashFreeUnchecked(h) == h \in Hashes

\* track_files.file_hash is UNIQUE: the INSERT waits for another transaction
\* that has inserted the same hash, and fails if a committed row has it.
HashFree(h) ==
    /\ \A t \in Tracks : fileHash[t] # h
    /\ \A v \in Uploads : ~(upload[v].pc = "inserted" /\ upload[v].hash = h)

\* Insert the tracks, track_files and transcode_jobs rows, uncommitted.
InsertRows(u, t) ==
    /\ upload[u].pc = "moved"
    /\ HashFree(upload[u].hash)
    /\ t \notin used
    /\ \A v \in Uploads : upload[v].track # t
    /\ upload' = [upload EXCEPT ![u].pc = "inserted", ![u].track = t]
    /\ UNCHANGED <<db, originals, derived, worker, sync, faults>>

CommitUpload(u) ==
    LET t == upload[u].track IN
    /\ upload[u].pc = "inserted"
    /\ used' = used \cup {t}
    /\ fileHash' = [fileHash EXCEPT ![t] = upload[u].hash]
    /\ job' = [job EXCEPT ![t] = "queued"]
    /\ created' = [created EXCEPT ![t] = upload[u].stamp]
    /\ sync' = IF DerivedSync
               THEN [sync EXCEPT ![t] = [IdleSync EXCEPT !.phase = "ready"]]
               ELSE sync
    /\ upload' = [upload EXCEPT ![u] = IdleUpload]
    /\ UNCHANGED <<attempts, originals, derived, worker, faults>>

\* Any error return: the transaction rolls back and the temporary file goes;
\* an original that has been moved stays.
AbortUpload(u) ==
    /\ upload[u].pc # "idle"
    /\ upload' = [upload EXCEPT ![u] = IdleUpload]
    /\ UNCHANGED <<db, originals, derived, worker, sync, faults>>

\* The job row is locked by a worker's open claim.
Locked(t) == \E w \in Workers : worker[w].phase = "claiming" /\ worker[w].track = t

\* manageDeleteTrack and adminDeleteTrack: the row goes and the foreign keys
\* take the file and job rows with it, when no claim has locked them; no file
\* is deleted.
DeleteTrack(t) ==
    /\ Live(t)
    /\ ~Locked(t)
    /\ fileHash' = [fileHash EXCEPT ![t] = NoHash]
    /\ job' = [job EXCEPT ![t] = "none"]
    /\ attempts' = [attempts EXCEPT ![t] = 0]
    /\ created' = [created EXCEPT ![t] = 0]
    /\ UNCHANGED <<used, originals, derived, upload, worker, sync, faults>>

\* The API process dies: its transactions roll back, its goroutines stop.
ApiCrash ==
    /\ faults < MaxFaults
    /\ faults' = faults + 1
    /\ upload' = [u \in Uploads |-> IdleUpload]
    /\ sync' = [t \in Tracks |-> IdleSync]
    /\ UNCHANGED <<db, originals, derived, worker>>

-----------------------------------------------------------------------------
(* Files written by ffmpeg -y (package media) and by BuildWaveform         *)

WorkerWriting(t, s) ==
    \E w \in Workers : worker[w] = [phase |-> "writing", track |-> t,
                                    stage |-> s]

\* Opening truncates; a file that somebody is writing gets mixed content.
Opened(t, s, otherWriter) ==
    [derived EXCEPT ![t][s] = IF otherWriter THEN "mixed" ELSE "partial"]

\* The states a file can be in once its writer has finished.
Closed(state) == IF state = "mixed" THEN {"mixed", "complete"} ELSE {"complete"}

-----------------------------------------------------------------------------
(* The worker                                                              *)

\* Mutant: the query without FOR UPDATE.
ClaimableUnlocked(t) ==
    /\ job[t] = "queued"
    /\ \A v \in Tracks : job[v] = "queued" => created[t] <= created[v]

\* Mutant: a query that only takes a job older than every other one, whatever
\* the status of those is.
ClaimableFirstOnly(t) ==
    /\ job[t] = "queued"
    /\ ~Locked(t)
    /\ \A v \in Tracks : job[v] # "none" => created[t] <= created[v]

\* claimJob's query: the oldest queued job that FOR UPDATE SKIP LOCKED does
\* not skip.
Claimable(t) ==
    /\ job[t] = "queued"
    /\ ~Locked(t)
    /\ \A v \in Tracks : job[v] = "queued" /\ ~Locked(v) => created[t] <= created[v]

\* claimJob begins its transaction and locks a job.
LockJob(w, t) ==
    /\ worker[w].phase = "idle"
    /\ Claimable(t)
    /\ worker' = [worker EXCEPT ![w] = [phase |-> "claiming", track |-> t,
                                        stage |-> 1]]
    /\ UNCHANGED <<db, originals, derived, upload, sync, faults>>

\* The UPDATE of claimJob, committed.
TakeJob(w) ==
    LET t == worker[w].track IN
    /\ worker[w].phase = "claiming"
    /\ job' = [job EXCEPT ![t] = "processing"]
    /\ attempts' = [attempts EXCEPT ![t] = @ + 1]
    /\ UNCHANGED <<used, fileHash, created, originals, derived, upload, sync>>

CommitClaim(w) ==
    /\ TakeJob(w)
    /\ worker' = [worker EXCEPT ![w].phase = "ready"]
    /\ UNCHANGED faults

\* The claim commits but the worker does not learn it: claimJob reports an
\* error and main goes on with another job.
CommitUnacknowledged(w) ==
    /\ TakeJob(w)
    /\ faults < MaxFaults
    /\ faults' = faults + 1
    /\ worker' = [worker EXCEPT ![w] = IdleWorker]

\* The claim rolls back.
ClaimError(w) ==
    /\ worker[w].phase = "claiming"
    /\ faults < MaxFaults
    /\ faults' = faults + 1
    /\ worker' = [worker EXCEPT ![w] = IdleWorker]
    /\ UNCHANGED <<db, originals, derived, upload, sync>>

\* processJob opens its next target.
BeginStage(w) ==
    LET t == worker[w].track
        s == worker[w].stage
    IN  /\ worker[w].phase = "ready"
        /\ s \in Stages
        /\ derived' = Opened(t, s, sync[t] = [phase |-> "writing", stage |-> s])
        /\ worker' = [worker EXCEPT ![w].phase = "writing"]
        /\ UNCHANGED <<db, originals, upload, sync, faults>>

FinishStage(w) ==
    LET t == worker[w].track
        s == worker[w].stage
    IN  /\ worker[w].phase = "writing"
        /\ \E state \in Closed(derived[t][s]) :
              derived' = [derived EXCEPT ![t][s] = state]
        /\ worker' = [worker EXCEPT ![w].phase = "ready", ![w].stage = s + 1]
        /\ UNCHANGED <<db, originals, upload, sync, faults>>

\* ffmpeg or BuildWaveform fails, before or after the target was opened, or
\* the two hours are over; processJob returns the error.
FailStage(w) ==
    /\ worker[w].phase \in {"ready", "writing"}
    /\ worker[w].stage \in Stages
    /\ worker' = [worker EXCEPT ![w].phase = "failing"]
    /\ UNCHANGED <<db, originals, derived, upload, sync, faults>>

\* Mutant: a status the CHECK constraint of transcode_jobs does not list.
MarkUnlisted(t, status) ==
    job' = [job EXCEPT ![t] = IF @ = "none" THEN @ ELSE "error"]

\* Mutant: the UPDATE finds no row.
MarkForgotten(t, status) == UNCHANGED job

\* The UPDATE of markJobDone and markJobFailed, by job id: no row, no effect.
Mark(t, status) ==
    job' = [job EXCEPT ![t] = IF @ = "none" THEN @ ELSE status]

\* Mutant: the error of the waveform stage is ignored.
ProcessedEarly(w) == worker[w].phase = "ready" /\ worker[w].stage >= 4

\* All stages returned without error.
Processed(w) == worker[w].phase = "ready" /\ worker[w].stage = 5

MarkJobDone(w) ==
    /\ Processed(w)
    /\ Mark(worker[w].track, "done")
    /\ worker' = [worker EXCEPT ![w] = IdleWorker]
    /\ UNCHANGED <<used, fileHash, attempts, created, originals, derived,
                   upload, sync, faults>>

\* Mutant: a failed job is queued again.
MarkJobFailedRequeue(w) ==
    /\ worker[w].phase = "failing"
    /\ Mark(worker[w].track, "queued")
    /\ worker' = [worker EXCEPT ![w] = IdleWorker]
    /\ UNCHANGED <<used, fileHash, attempts, created, originals, derived,
                   upload, sync, faults>>

MarkJobFailed(w) ==
    /\ worker[w].phase = "failing"
    /\ Mark(worker[w].track, "failed")
    /\ worker' = [worker EXCEPT ![w] = IdleWorker]
    /\ UNCHANGED <<used, fileHash, attempts, created, originals, derived,
                   upload, sync, faults>>

\* markJobDone or markJobFailed reports an error: main logs it and goes on
\* to the next job.
MarkError(w) ==
    /\ Processed(w) \/ worker[w].phase = "failing"
    /\ faults < MaxFaults
    /\ faults' = faults + 1
    /\ worker' = [worker EXCEPT ![w] = IdleWorker]
    /\ UNCHANGED <<db, originals, derived, upload, sync>>

\* The worker dies and is restarted: it remembers nothing, and the database
\* rolls an open claim back.
WorkerCrash(w) ==
    /\ worker[w].phase # "idle"
    /\ faults < MaxFaults
    /\ faults' = faults + 1
    /\ worker' = [worker EXCEPT ![w] = IdleWorker]
    /\ UNCHANGED <<db, originals, derived, upload, sync>>

-----------------------------------------------------------------------------
(* processDerived: the same files, written by the API without a job        *)

\* Errors are ignored: whatever became of a file, the next one follows.
AfterSyncStage(t) ==
    sync' = [sync EXCEPT ![t] = IF @.stage = 4 THEN IdleSync
                                ELSE [phase |-> "ready", stage |-> @.stage + 1]]

SyncBegin(t) ==
    LET s == sync[t].stage IN
    /\ sync[t].phase = "ready"
    /\ derived' = Opened(t, s, WorkerWriting(t, s))
    /\ sync' = [sync EXCEPT ![t].phase = "writing"]
    /\ UNCHANGED <<db, originals, upload, worker, faults>>

SyncFinish(t) ==
    LET s == sync[t].stage IN
    /\ sync[t].phase = "writing"
    /\ \E state \in Closed(derived[t][s]) :
          derived' = [derived EXCEPT ![t][s] = state]
    /\ AfterSyncStage(t)
    /\ UNCHANGED <<db, originals, upload, worker, faults>>

SyncFail(t) ==
    /\ sync[t].phase \in {"ready", "writing"}
    /\ AfterSyncStage(t)
    /\ UNCHANGED <<db, originals, derived, upload, worker, faults>>

-----------------------------------------------------------------------------
UploadStep(u) ==
    \/ \E h \in Hashes : ReceiveUpload(u, h)
    \/ Deduplicate(u)
    \/ \E now \in 1..MaxStamp : MissHash(u, now)
    \/ MoveOriginal(u)
    \/ \E t \in Tracks : InsertRows(u, t)
    \/ CommitUpload(u)
    \/ AbortUpload(u)

WorkerStep(w) ==
    \/ \E t \in Tracks : LockJob(w, t)
    \/ CommitClaim(w)
    \/ BeginStage(w)
    \/ FinishStage(w)
    \/ FailStage(w)
    \/ MarkJobDone(w)
    \/ MarkJobFailed(w)

WorkerFault(w) ==
    \/ CommitUnacknowledged(w)
    \/ ClaimError(w)
    \/ MarkError(w)
    \/ WorkerCrash(w)

SyncStep(t) == SyncBegin(t) \/ SyncFinish(t) \/ SyncFail(t)

Next ==
    \/ \E u \in Uploads : UploadStep(u)
    \/ \E t \in Tracks : DeleteTrack(t)
    \/ ApiCrash
    \/ \E w \in Workers : WorkerStep(w)
    \/ \E w \in Workers : WorkerFault(w)
    \/ \E t \in Tracks : SyncStep(t)

Spec == Init /\ [][Next]_vars

\* main's loop never stops and ffmpeg runs under a deadline: a worker that
\* can take a step takes one.  Uploads, deletions and faults need not happen.
FairSpec == Spec /\ \A w \in Workers : WF_vars(WorkerStep(w))

-----------------------------------------------------------------------------
(* Stream resolution                                                       *)

\* resolveStreamPath for one of the derived formats: the derived file if
\* os.Stat finds one, else the original; "not found" without a row.
ResolveStream(t, s) ==
    IF derived[t][s] # "absent" THEN "derived"
    ELSE IF Live(t) THEN "original" ELSE "not found"

-----------------------------------------------------------------------------
(* Properties                                                              *)

\* importSingleTrack deduplicates by content: however uploads interleave, no
\* two live tracks, nor a live track and an uncommitted one, share a content.
OneTrackPerContent ==
    /\ \A t1, t2 \in Tracks : Live(t1) /\ fileHash[t1] = fileHash[t2] => t1 = t2
    /\ \A u \in Uploads, t \in Tracks :
          upload[u].pc = "inserted" => fileHash[t] # upload[u].hash

\* Every stream request for a live track finds a file to serve: the original
\* of a committed row is on disk, through aborts, crashes and deletions of
\* other tracks.
LiveTrackHasOriginal ==
    \A t \in Tracks : Live(t) => fileHash[t] \in originals

\* No two workers ever hold or claim the same job, so their ffmpeg runs never
\* write the same file.
ClaimIsExclusive ==
    \A w1, w2 \in Workers :
        /\ worker[w1].phase # "idle" /\ worker[w2].phase # "idle"
        /\ worker[w1].track = worker[w2].track
        => w1 = w2

\* A job that left the queue was claimed exactly once: the attempts column
\* never exceeds 1, because nothing puts a job back.
ClaimedAtMostOnce ==
    \A t \in Tracks : attempts[t] = IF job[t] \in {"none", "queued"} THEN 0 ELSE 1

\* With HEXSONIC_ENABLE_DERIVED_SYNC off (the default), a job is marked done
\* only when every derived file is whole, and stays so.
DoneMeansDerived ==
    \A t \in Tracks : job[t] = "done" =>
        \A s \in Stages : derived[t][s] = "complete"

\* With it on, processDerived may rewrite the files of a done job and leave one
\* unfinished, but a stream of a done job still never falls back to the
\* original: each of its files exists.
DoneMeansPresent ==
    \A t \in Tracks : job[t] = "done" =>
        \A s \in Stages : derived[t][s] # "absent"

\* "Fallback to original source if derived file does not exist yet"
\* (server.go:7859): a derived format is served only from a whole file.
StreamIsComplete ==
    \A t \in Tracks, s \in Streamable :
        ResolveStream(t, s) = "derived" => derived[t][s] = "complete"

\* Whatever faults happen, a queued job is eventually taken (or its track
\* deleted): a claim that comes to nothing, and one that passes over a locked
\* job, leave it to a later claim.
QueuedJobIsTaken ==
    \A t \in Tracks : (job[t] = "queued") ~> (job[t] # "queued")

\* Unless a fault strikes, every queued job is eventually marked done or
\* failed (or its track deleted).
EveryJobSettles ==
    \A t \in Tracks :
        (job[t] = "queued") ~> (faults > 0 \/ job[t] \in {"none", "done", "failed"})

-----------------------------------------------------------------------------
(* The inductive invariant behind the safety properties                    *)

\* A track has its file row exactly while it has its job row, and a UUID is
\* never drawn twice.
RowsAgree ==
    \A t \in Tracks : /\ Live(t) <=> job[t] # "none"
                      /\ Live(t) => t \in used

UploadsSound ==
    /\ \A u \in Uploads :
          /\ upload[u].pc # "idle" => upload[u].hash \in Hashes
          /\ upload[u].pc \in {"moved", "inserted"} =>
                upload[u].hash \in originals
          /\ upload[u].pc = "inserted" => upload[u].track \in Tracks \ used
    /\ \A u, v \in Uploads :
          /\ upload[u].pc = "inserted" /\ upload[v].pc = "inserted"
          /\ \/ upload[u].hash = upload[v].hash
             \/ upload[u].track = upload[v].track
          => u = v

\* A job being claimed is queued; a held job is still processing, unless its
\* track has been deleted; a file is written only in one of the four stages.
HoldersSound ==
    \A w \in Workers :
        /\ worker[w].phase # "idle" => worker[w].track \in used
        /\ worker[w].phase = "claiming" =>
              job[worker[w].track] = "queued" /\ worker[w].stage = 1
        /\ worker[w].phase \in Holding =>
              job[worker[w].track] \in {"none", "processing"}
        /\ worker[w].phase = "writing" => worker[w].stage \in Stages

\* Only processDerived disturbs the files a worker has finished.
StagesSound ==
    ~DerivedSync =>
        /\ \A t \in Tracks : sync[t].phase = "idle"
        /\ \A w \in Workers : worker[w].phase \in {"ready", "writing"} =>
              \A s \in Stages : s < worker[w].stage =>
                  derived[worker[w].track][s] = "complete"
        /\ \A w \in Workers : worker[w].phase = "writing" =>
              derived[worker[w].track][worker[w].stage] = "partial"
        /\ DoneMeansDerived

\* The invariant that proves the others: it is preserved by every step.
IInv ==
    /\ TypeOK
    /\ RowsAgree
    /\ UploadsSound
    /\ HoldersSound
    /\ StagesSound
    /\ OneTrackPerContent
    /\ LiveTrackHasOriginal
    /\ ClaimIsExclusive
    /\ ClaimedAtMostOnce

-----------------------------------------------------------------------------
(* Refinement of JobLifecycle                                              *)

Held(t) == \E w \in Workers : worker[w].phase \in Holding /\ worker[w].track = t

PhaseOf(t) ==
    CASE job[t] = "none" -> IF t \in used THEN "removed" ELSE "absent"
      [] job[t] = "queued" -> "waiting"
      [] job[t] = "processing" -> IF Held(t) THEN "working" ELSE "abandoned"
      [] OTHER -> "settled"

Lifecycle == INSTANCE JobLifecycle WITH
    Jobs <- Tracks, phase <- [t \in Tracks |-> PhaseOf(t)]

\* Each job goes through the lifecycle of JobLifecycle: in particular, a job
\* whose worker died is never taken up again.
ImplementsLifecycle == Lifecycle!Spec
=============================================================================
