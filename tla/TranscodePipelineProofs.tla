----------------------- MODULE TranscodePipelineProofs ----------------------
(***************************************************************************)
(* Proofs about TranscodePipeline, for any number of contents, tracks,     *)
(* upload requests and workers and any bounds.  IInv is shown to hold      *)
(* initially and to be preserved by each action, one lemma per action; the *)
(* safety properties follow, and with them the refinement of JobLifecycle. *)
(***************************************************************************)
EXTENDS TranscodePipeline, TLAPS

-----------------------------------------------------------------------------
(* The initial state and stuttering                                        *)

LEMMA InitInv == Init => IInv
<1> SUFFICES ASSUME Init PROVE IInv
  OBVIOUS
<1> USE ConstantsAssumption
<1>1. TypeOK
  BY DEF Init, TypeOK, UploadStates, WorkerStates, SyncStates, IdleUpload, IdleWorker, IdleSync,
     Stages, FileStates
<1>2. RowsAgree /\ OneTrackPerContent /\ LiveTrackHasOriginal
  BY DEF Init, RowsAgree, OneTrackPerContent, LiveTrackHasOriginal, Live,
         IdleUpload
<1>3. UploadsSound /\ HoldersSound /\ ClaimIsExclusive /\ ClaimedAtMostOnce
  BY DEF Init, UploadsSound, HoldersSound, Holding, ClaimIsExclusive,
         ClaimedAtMostOnce, IdleUpload, IdleWorker
<1>4. StagesSound
  BY DEF Init, StagesSound, DoneMeansDerived, IdleWorker, IdleSync
<1> QED
  BY <1>1, <1>2, <1>3, <1>4 DEF IInv

LEMMA StutterInv == IInv /\ UNCHANGED vars => IInv'
  BY DEF IInv, vars, db, TypeOK, RowsAgree, UploadsSound, HoldersSound,
         StagesSound, DoneMeansDerived, OneTrackPerContent,
         LiveTrackHasOriginal, ClaimIsExclusive, ClaimedAtMostOnce, Live

-----------------------------------------------------------------------------
(* The upload request                                                      *)

LEMMA ReceiveUploadInv ==
  ASSUME IInv, NEW u \in Uploads, NEW h \in Hashes, ReceiveUpload(u, h)
  PROVE  IInv'
<1> USE DEF IInv, ReceiveUpload, db
<1>1. TypeOK'
  BY DEF TypeOK, UploadStates, IdleUpload
<1>2. UploadsSound'
  BY DEF TypeOK, UploadsSound, IdleUpload
<1>3. OneTrackPerContent'
  BY DEF TypeOK, OneTrackPerContent, Live, IdleUpload
<1>4. (RowsAgree /\ LiveTrackHasOriginal)'
  BY DEF RowsAgree, LiveTrackHasOriginal, Live
<1>5. (HoldersSound /\ StagesSound /\ ClaimIsExclusive /\ ClaimedAtMostOnce)'
  BY DEF HoldersSound, StagesSound, DoneMeansDerived, ClaimIsExclusive,
         ClaimedAtMostOnce
<1> QED
  BY <1>1, <1>2, <1>3, <1>4, <1>5

LEMMA DeduplicateInv ==
  ASSUME IInv, NEW u \in Uploads, Deduplicate(u)
  PROVE  IInv'
<1> USE DEF IInv, Deduplicate, db
<1>1. TypeOK'
  BY DEF TypeOK, UploadStates, IdleUpload
<1>2. UploadsSound'
  BY DEF TypeOK, UploadsSound, IdleUpload
<1>3. OneTrackPerContent'
  BY DEF TypeOK, OneTrackPerContent, Live, IdleUpload
<1>4. (RowsAgree /\ LiveTrackHasOriginal)'
  BY DEF RowsAgree, LiveTrackHasOriginal, Live
<1>5. (HoldersSound /\ StagesSound /\ ClaimIsExclusive /\ ClaimedAtMostOnce)'
  BY DEF HoldersSound, StagesSound, DoneMeansDerived, ClaimIsExclusive,
         ClaimedAtMostOnce
<1> QED
  BY <1>1, <1>2, <1>3, <1>4, <1>5

LEMMA MissHashInv ==
  ASSUME IInv, NEW u \in Uploads, NEW now \in 1..MaxStamp, MissHash(u, now)
  PROVE  IInv'
<1> USE DEF IInv, db
<1>1. TypeOK'
  <2>1. TypeOK
    OBVIOUS
  <2>2. upload' = [upload EXCEPT ![u].pc = "missing", ![u].stamp = now]
    BY DEF MissHash
  <2>3. upload' \in [Uploads -> UploadStates]
    <3>1. now \in Nat
      BY ConstantsAssumption
    <3>2. upload[u] \in UploadStates
      BY <2>1 DEF TypeOK
    <3>3. [upload[u] EXCEPT !.pc = "missing", !.stamp = now] \in UploadStates
      BY ONLY <3>1, <3>2 DEF UploadStates
    <3>4. upload' = [upload EXCEPT ![u] =
                        [upload[u] EXCEPT !.pc = "missing", !.stamp = now]]
      BY <2>2
    <3> QED
      BY <2>1, <3>3, <3>4 DEF TypeOK
  <2> QED
    BY <2>1, <2>3 DEF TypeOK, MissHash
<1> USE DEF MissHash
<1>2. UploadsSound'
  BY DEF TypeOK, UploadsSound
<1>3. OneTrackPerContent'
  BY DEF TypeOK, OneTrackPerContent, Live
<1>4. (RowsAgree /\ LiveTrackHasOriginal)'
  BY DEF RowsAgree, LiveTrackHasOriginal, Live
<1>5. (HoldersSound /\ StagesSound /\ ClaimIsExclusive /\ ClaimedAtMostOnce)'
  BY DEF HoldersSound, StagesSound, DoneMeansDerived, ClaimIsExclusive,
         ClaimedAtMostOnce
<1> QED
  BY <1>1, <1>2, <1>3, <1>4, <1>5

LEMMA MoveOriginalInv ==
  ASSUME IInv, NEW u \in Uploads, MoveOriginal(u)
  PROVE  IInv'
<1> USE DEF IInv, MoveOriginal, db
<1>1. TypeOK'
  <2>1. upload[u].hash \in Hashes
    BY DEF UploadsSound
  <2> QED
    BY <2>1, ZenonT(40) DEF TypeOK, UploadStates
<1>2. UploadsSound'
  BY DEF TypeOK, UploadsSound
<1>3. OneTrackPerContent'
  BY DEF TypeOK, OneTrackPerContent, Live
<1>4. (RowsAgree /\ LiveTrackHasOriginal)'
  BY DEF RowsAgree, LiveTrackHasOriginal, Live
<1>5. (HoldersSound /\ StagesSound /\ ClaimIsExclusive /\ ClaimedAtMostOnce)'
  BY DEF HoldersSound, StagesSound, DoneMeansDerived, ClaimIsExclusive,
         ClaimedAtMostOnce
<1> QED
  BY <1>1, <1>2, <1>3, <1>4, <1>5

\* The UNIQUE constraint is what keeps two uncommitted uploads apart.
LEMMA InsertRowsInv ==
  ASSUME IInv, NEW u \in Uploads, NEW t \in Tracks, InsertRows(u, t)
  PROVE  IInv'
<1> USE DEF IInv, InsertRows, db
<1>1. TypeOK'
  BY DEF TypeOK, UploadStates
<1>2. UploadsSound'
  BY DEF TypeOK, UploadsSound, HashFree
<1>3. OneTrackPerContent'
  BY DEF TypeOK, OneTrackPerContent, Live, HashFree
<1>4. (RowsAgree /\ LiveTrackHasOriginal)'
  BY DEF RowsAgree, LiveTrackHasOriginal, Live
<1>5. (HoldersSound /\ StagesSound /\ ClaimIsExclusive /\ ClaimedAtMostOnce)'
  BY DEF HoldersSound, StagesSound, DoneMeansDerived, ClaimIsExclusive,
         ClaimedAtMostOnce
<1> QED
  BY <1>1, <1>2, <1>3, <1>4, <1>5

\* The committed track is fresh, so no row and no worker refers to it yet.
LEMMA CommitUploadInv ==
  ASSUME IInv, NEW u \in Uploads, CommitUpload(u)
  PROVE  IInv'
<1> DEFINE t == upload[u].track
           h == upload[u].hash
<1> USE DEF IInv, CommitUpload, db
<1>0. /\ t \in Tracks \ used /\ h \in Hashes /\ h \in originals
      /\ job[t] = "none" /\ ~Live(t) /\ h # NoHash
  BY ConstantsAssumption DEF TypeOK, UploadsSound, RowsAgree
<1>1. TypeOK'
  BY <1>0, ConstantsAssumption
  DEF TypeOK, UploadStates, WorkerStates, SyncStates, IdleUpload, IdleSync, Stages
<1>2. RowsAgree'
  BY <1>0 DEF TypeOK, RowsAgree, Live
<1>3. UploadsSound'
  BY <1>0 DEF TypeOK, UploadsSound, IdleUpload
<1>4. OneTrackPerContent'
  BY <1>0 DEF TypeOK, UploadsSound, OneTrackPerContent, Live, IdleUpload
<1>5. LiveTrackHasOriginal'
  BY <1>0 DEF TypeOK, LiveTrackHasOriginal, Live
<1>6. HoldersSound'
  BY <1>0 DEF TypeOK, HoldersSound, Holding
<1>7. StagesSound'
  BY <1>0 DEF TypeOK, StagesSound, DoneMeansDerived
<1>8. ClaimIsExclusive' /\ ClaimedAtMostOnce'
  BY <1>0 DEF TypeOK, ClaimIsExclusive, ClaimedAtMostOnce
<1> QED
  BY <1>1, <1>2, <1>3, <1>4, <1>5, <1>6, <1>7, <1>8

LEMMA AbortUploadInv ==
  ASSUME IInv, NEW u \in Uploads, AbortUpload(u)
  PROVE  IInv'
<1> USE DEF IInv, AbortUpload, db
<1>1. TypeOK'
  BY DEF TypeOK, UploadStates, IdleUpload
<1>2. UploadsSound'
  BY DEF TypeOK, UploadsSound, IdleUpload
<1>3. OneTrackPerContent'
  BY DEF TypeOK, OneTrackPerContent, Live, IdleUpload
<1>4. (RowsAgree /\ LiveTrackHasOriginal)'
  BY DEF RowsAgree, LiveTrackHasOriginal, Live
<1>5. (HoldersSound /\ StagesSound /\ ClaimIsExclusive /\ ClaimedAtMostOnce)'
  BY DEF HoldersSound, StagesSound, DoneMeansDerived, ClaimIsExclusive,
         ClaimedAtMostOnce
<1> QED
  BY <1>1, <1>2, <1>3, <1>4, <1>5

LEMMA DeleteTrackInv ==
  ASSUME IInv, NEW t \in Tracks, DeleteTrack(t)
  PROVE  IInv'
<1> USE DEF IInv, DeleteTrack
<1>1. TypeOK'
  BY DEF TypeOK
<1>2. RowsAgree'
  BY DEF TypeOK, RowsAgree, Live
<1>3. UploadsSound'
  BY DEF UploadsSound
<1>4. OneTrackPerContent'
  BY ConstantsAssumption DEF TypeOK, UploadsSound, OneTrackPerContent, Live
<1>5. LiveTrackHasOriginal'
  BY DEF TypeOK, LiveTrackHasOriginal, Live
<1>6. HoldersSound'
  BY DEF TypeOK, HoldersSound, Holding, Locked
<1>7. StagesSound'
  BY DEF TypeOK, StagesSound, DoneMeansDerived
<1>8. ClaimIsExclusive' /\ ClaimedAtMostOnce'
  BY DEF TypeOK, ClaimIsExclusive, ClaimedAtMostOnce
<1> QED
  BY <1>1, <1>2, <1>3, <1>4, <1>5, <1>6, <1>7, <1>8

LEMMA ApiCrashInv == ASSUME IInv, ApiCrash PROVE IInv'
<1> USE DEF IInv, ApiCrash, db
<1>1. TypeOK'
  BY DEF TypeOK, UploadStates, WorkerStates, SyncStates, IdleUpload, IdleSync, Stages
<1>2. (UploadsSound /\ OneTrackPerContent)'
  BY DEF UploadsSound, OneTrackPerContent, Live, IdleUpload
<1>3. StagesSound'
  BY DEF StagesSound, DoneMeansDerived, IdleSync
<1>4. (RowsAgree /\ LiveTrackHasOriginal)'
  BY DEF RowsAgree, LiveTrackHasOriginal, Live
<1>5. (HoldersSound /\ ClaimIsExclusive /\ ClaimedAtMostOnce)'
  BY DEF HoldersSound, ClaimIsExclusive, ClaimedAtMostOnce
<1> QED
  BY <1>1, <1>2, <1>3, <1>4, <1>5

-----------------------------------------------------------------------------
(* The worker                                                              *)

\* The parts of IInv that do not read the derived files, the workers or the
\* processDerived goroutines.
LEMMA FileStepInv ==
  ASSUME IInv, UNCHANGED <<db, originals, upload>>
  PROVE  /\ (RowsAgree /\ UploadsSound /\ OneTrackPerContent)'
         /\ (LiveTrackHasOriginal /\ ClaimedAtMostOnce)'
<1> USE DEF IInv, db
<1>1. (RowsAgree /\ UploadsSound /\ OneTrackPerContent)'
  BY DEF RowsAgree, UploadsSound, OneTrackPerContent, Live
<1>2. (LiveTrackHasOriginal /\ ClaimedAtMostOnce)'
  BY DEF LiveTrackHasOriginal, ClaimedAtMostOnce, Live
<1> QED
  BY <1>1, <1>2

\* Nobody else holds or claims a job that is not locked.
LEMMA LockJobInv ==
  ASSUME IInv, NEW w \in Workers, NEW t \in Tracks, LockJob(w, t)
  PROVE  IInv'
<1> USE DEF IInv
<1>1. /\ worker[w].phase = "idle"
      /\ worker' = [worker EXCEPT ![w] = [phase |-> "claiming", track |-> t,
                                          stage |-> 1]]
      /\ UNCHANGED <<db, originals, derived, upload, sync, faults>>
      /\ job[t] = "queued" /\ t \in used
  BY DEF LockJob, Claimable, RowsAgree
<1>2. \A v \in Workers : worker[v].phase # "idle" => worker[v].track # t
  BY <1>1 DEF LockJob, Claimable, Locked, TypeOK, WorkerStates, HoldersSound,
              Holding
<1>3. (RowsAgree /\ UploadsSound /\ OneTrackPerContent
        /\ LiveTrackHasOriginal /\ ClaimedAtMostOnce)'
  BY <1>1, FileStepInv
<1>4. TypeOK'
  BY <1>1 DEF TypeOK, WorkerStates, db
<1>5. HoldersSound' /\ ClaimIsExclusive'
  BY <1>1, <1>2 DEF TypeOK, HoldersSound, ClaimIsExclusive, Holding, db
<1>6. StagesSound'
  BY <1>1 DEF TypeOK, StagesSound, DoneMeansDerived, db
<1> QED
  BY <1>3, <1>4, <1>5, <1>6

\* What the UPDATE of a claim does to a job that nobody else holds.
LEMMA TakeJobInv ==
  ASSUME IInv, NEW w \in Workers, TakeJob(w), NEW t, t = worker[w].track
  PROVE  /\ t \in Tracks /\ job[t] = "queued" /\ worker[w].phase = "claiming"
         /\ \A v \in Workers \ {w} : worker[v].phase # "idle" => worker[v].track # t
         /\ job' = [job EXCEPT ![t] = "processing"]
         /\ (RowsAgree /\ ClaimedAtMostOnce /\ LiveTrackHasOriginal)'
         /\ (UploadsSound /\ OneTrackPerContent)'
         /\ DoneMeansDerived => DoneMeansDerived'
<1> USE DEF IInv, TakeJob
<1>1. /\ t \in Tracks /\ job[t] = "queued"
      /\ \A v \in Workers \ {w} : worker[v].phase # "idle" => worker[v].track # t
  BY DEF TypeOK, HoldersSound, ClaimIsExclusive
<1>2. (RowsAgree /\ ClaimedAtMostOnce /\ LiveTrackHasOriginal)'
  BY <1>1 DEF TypeOK, RowsAgree, ClaimedAtMostOnce, LiveTrackHasOriginal, Live
<1>3. (UploadsSound /\ OneTrackPerContent)'
  BY DEF UploadsSound, OneTrackPerContent, Live
<1>4. DoneMeansDerived => DoneMeansDerived'
  BY <1>1 DEF TypeOK, DoneMeansDerived
<1> QED
  BY <1>1, <1>2, <1>3, <1>4

LEMMA CommitClaimInv ==
  ASSUME IInv, NEW w \in Workers, CommitClaim(w)
  PROVE  IInv'
<1> PICK t : t = worker[w].track
  OBVIOUS
<1>1. /\ TakeJob(w)
      /\ worker' = [worker EXCEPT ![w].phase = "ready"]
      /\ attempts' = [attempts EXCEPT ![t] = @ + 1]
      /\ UNCHANGED <<used, fileHash, created, originals, derived, upload, sync,
                     faults>>
  BY DEF CommitClaim, TakeJob
<1>2. /\ t \in Tracks /\ job[t] = "queued" /\ worker[w].phase = "claiming"
      /\ \A v \in Workers \ {w} : worker[v].phase # "idle" => worker[v].track # t
      /\ job' = [job EXCEPT ![t] = "processing"]
      /\ DoneMeansDerived => DoneMeansDerived'
  BY <1>1, TakeJobInv
<1>3. (RowsAgree /\ ClaimedAtMostOnce /\ LiveTrackHasOriginal
        /\ UploadsSound /\ OneTrackPerContent)'
  BY <1>1, TakeJobInv
<1> USE DEF IInv
<1>4. TypeOK'
  <2>1. attempts' \in [Tracks -> Nat]
    BY <1>1, <1>2 DEF TypeOK
  <2>2. worker' \in [Workers -> WorkerStates]
    BY <1>1 DEF TypeOK, WorkerStates
  <2> QED
    BY <1>1, <1>2, <2>1, <2>2 DEF TypeOK
<1>5. HoldersSound'
  BY <1>1, <1>2 DEF TypeOK, WorkerStates, HoldersSound, Holding
<1>6. StagesSound'
  BY <1>1, <1>2 DEF TypeOK, WorkerStates, StagesSound, HoldersSound, Stages
<1>7. ClaimIsExclusive'
  BY <1>1, <1>2 DEF TypeOK, WorkerStates, ClaimIsExclusive
<1> QED
  BY <1>3, <1>4, <1>5, <1>6, <1>7

LEMMA CommitUnacknowledgedInv ==
  ASSUME IInv, NEW w \in Workers, CommitUnacknowledged(w)
  PROVE  IInv'
<1> PICK t : t = worker[w].track
  OBVIOUS
<1>1. /\ TakeJob(w)
      /\ worker' = [worker EXCEPT ![w] = IdleWorker]
      /\ attempts' = [attempts EXCEPT ![t] = @ + 1]
      /\ faults' = faults + 1
      /\ UNCHANGED <<used, fileHash, created, originals, derived, upload, sync>>
  BY DEF CommitUnacknowledged, TakeJob
<1>2. /\ t \in Tracks
      /\ \A v \in Workers \ {w} : worker[v].phase # "idle" => worker[v].track # t
      /\ job' = [job EXCEPT ![t] = "processing"]
      /\ DoneMeansDerived => DoneMeansDerived'
  BY <1>1, TakeJobInv
<1>3. (RowsAgree /\ ClaimedAtMostOnce /\ LiveTrackHasOriginal
        /\ UploadsSound /\ OneTrackPerContent)'
  BY <1>1, TakeJobInv
<1> USE DEF IInv
<1>4. TypeOK'
  BY <1>1, <1>2 DEF TypeOK, WorkerStates, IdleWorker
<1>5. HoldersSound' /\ ClaimIsExclusive'
  BY <1>1, <1>2 DEF TypeOK, HoldersSound, ClaimIsExclusive, Holding, IdleWorker
<1>6. StagesSound'
  BY <1>1, <1>2 DEF TypeOK, StagesSound, IdleWorker
<1> QED
  BY <1>3, <1>4, <1>5, <1>6

LEMMA BeginStageInv ==
  ASSUME IInv, NEW w \in Workers, BeginStage(w)
  PROVE  IInv'
<1> DEFINE t == worker[w].track
           s == worker[w].stage
<1> USE DEF IInv, BeginStage
<1>0. t \in Tracks /\ s \in Stages
  BY DEF TypeOK, HoldersSound
<1>1. (RowsAgree /\ UploadsSound /\ OneTrackPerContent
        /\ LiveTrackHasOriginal /\ ClaimedAtMostOnce)'
  BY FileStepInv
<1>2. TypeOK'
  BY <1>0 DEF TypeOK, WorkerStates, FileStates, Opened, db
<1>3. HoldersSound' /\ ClaimIsExclusive'
  BY <1>0 DEF TypeOK, WorkerStates, HoldersSound, ClaimIsExclusive, Holding, db
<1>4. StagesSound'
  <2> SUFFICES ASSUME ~DerivedSync
               PROVE  StagesSound'
    BY DEF StagesSound
  <2>1. derived' = [derived EXCEPT ![t][s] = "partial"]
    <3>1. sync[t] # [phase |-> "writing", stage |-> s]
      BY <1>0 DEF StagesSound
    <3> QED
      BY <3>1 DEF Opened
  <2>2. \A v \in Workers : worker[v].phase # "idle" /\ worker[v].track = t
                           => v = w
    BY DEF ClaimIsExclusive
  <2>3. job[t] # "done"
    BY DEF HoldersSound, Holding
  <2>4. /\ worker[w].phase = "ready"
        /\ worker' = [worker EXCEPT ![w].phase = "writing"]
        /\ UNCHANGED <<job, sync>>
    BY DEF db
  <2> HIDE DEF BeginStage
  <2>5. \A v \in Workers : v # w =>
           /\ worker'[v] = worker[v]
           /\ worker[v].phase # "idle" =>
                 derived'[worker[v].track] = derived[worker[v].track]
    BY <1>0, <2>1, <2>2, <2>4 DEF TypeOK, WorkerStates
  <2>6. /\ worker'[w].track = t /\ worker'[w].stage = s
        /\ derived'[t][s] = "partial"
        /\ \A r \in Stages : r < s => derived'[t][r] = derived[t][r]
    BY <1>0, <2>1, <2>4 DEF TypeOK, WorkerStates, Stages
  <2>7. DoneMeansDerived'
    BY <1>0, <2>1, <2>3, <2>4 DEF TypeOK, StagesSound, DoneMeansDerived
  <2> QED
    BY <2>4, <2>5, <2>6, <2>7 DEF StagesSound
<1> QED
  BY <1>1, <1>2, <1>3, <1>4

LEMMA FinishStageInv ==
  ASSUME IInv, NEW w \in Workers, FinishStage(w)
  PROVE  IInv'
<1> DEFINE t == worker[w].track
           s == worker[w].stage
<1> USE DEF IInv
<1>0. /\ t \in Tracks /\ s \in Stages /\ worker[w].phase = "writing"
      /\ UNCHANGED <<db, originals, upload, sync, faults>>
      /\ worker' = [worker EXCEPT ![w].phase = "ready", ![w].stage = s + 1]
  BY DEF TypeOK, HoldersSound, FinishStage
<1>1. PICK state \in Closed(derived[t][s]) :
         derived' = [derived EXCEPT ![t][s] = state]
  BY DEF FinishStage
<1>2. state \in FileStates
  BY DEF Closed, FileStates
<1>3. (RowsAgree /\ UploadsSound /\ OneTrackPerContent
        /\ LiveTrackHasOriginal /\ ClaimedAtMostOnce)'
  BY <1>0, FileStepInv
<1>4. TypeOK'
  BY <1>0, <1>1, <1>2 DEF TypeOK, WorkerStates, Stages, db
<1>5. HoldersSound' /\ ClaimIsExclusive'
  BY <1>0, SMTT(30) DEF TypeOK, WorkerStates, HoldersSound, ClaimIsExclusive, Holding, db
<1>6. StagesSound'
  <2> SUFFICES ASSUME ~DerivedSync
               PROVE  StagesSound'
    BY DEF StagesSound
  <2>1. state = "complete"
    BY <1>0 DEF StagesSound, Closed
  <2>2. \A v \in Workers : worker[v].phase # "idle" /\ worker[v].track = t
                           => v = w
    BY <1>0 DEF ClaimIsExclusive
  <2>3. job[t] # "done"
    BY <1>0 DEF HoldersSound, Holding
  <2>4. /\ worker'[w].phase = "ready" /\ worker'[w].track = t /\ worker'[w].stage = s + 1
        /\ \A v \in Workers : v # w => worker'[v] = worker[v]
        /\ derived'[t] = [derived[t] EXCEPT ![s] = "complete"] /\ derived'[t][s] = "complete"
        /\ \A i \in Stages : i # s => derived'[t][i] = derived[t][i]
        /\ \A x \in Tracks : x # t => derived'[x] = derived[x]
    BY <1>0, <1>1, <2>1 DEF TypeOK, WorkerStates
  <2>5. /\ \A i \in Stages : i < s => derived[t][i] = "complete"
        /\ s \in Nat /\ \A i \in Stages : i < s + 1 => i < s \/ i = s
    BY <1>0 DEF StagesSound, Stages
  <2>6. ASSUME NEW v \in Workers, worker'[v].phase \in {"ready", "writing"},
               NEW i \in Stages, i < worker'[v].stage
        PROVE  derived'[worker'[v].track][i] = "complete"
    <3>1. CASE v = w
      BY <2>4, <2>5, <2>6, <3>1
    <3>2. CASE v # w
      <4>1. worker[v].track \in Tracks /\ worker[v].track # t /\ worker'[v] = worker[v]
        BY <2>2, <2>4, <2>6, <3>2 DEF TypeOK, WorkerStates, HoldersSound
      <4> QED
        BY <2>4, <2>6, <4>1 DEF StagesSound
    <3> QED
      BY <3>1, <3>2
  <2>7. ASSUME NEW v \in Workers, worker'[v].phase = "writing"
        PROVE  derived'[worker'[v].track][worker'[v].stage] = "partial"
    <3>1. v # w /\ worker'[v] = worker[v]
      BY <2>4, <2>7
    <3>2. worker[v].track \in Tracks /\ worker[v].track # t
      BY <2>2, <2>7, <3>1 DEF TypeOK, WorkerStates, HoldersSound
    <3> QED
      BY <2>4, <2>7, <3>1, <3>2 DEF StagesSound
  <2>8. DoneMeansDerived'
    BY <1>0, <2>3, <2>4 DEF StagesSound, DoneMeansDerived, db
  <2> QED
    BY <1>0, <2>6, <2>7, <2>8 DEF StagesSound
<1> QED
  BY <1>3, <1>4, <1>5, <1>6

LEMMA FailStageInv ==
  ASSUME IInv, NEW w \in Workers, FailStage(w)
  PROVE  IInv'
<1> USE DEF IInv
<1>0. /\ worker[w].phase \in {"ready", "writing"}
      /\ worker' = [worker EXCEPT ![w].phase = "failing"]
      /\ UNCHANGED <<db, originals, derived, upload, sync, faults>>
  BY DEF FailStage
<1>1. (RowsAgree /\ UploadsSound /\ OneTrackPerContent
        /\ LiveTrackHasOriginal /\ ClaimedAtMostOnce)'
  BY <1>0, FileStepInv
<1>2. TypeOK'
  BY <1>0 DEF TypeOK, WorkerStates, db
<1>3. HoldersSound' /\ ClaimIsExclusive'
  BY <1>0 DEF TypeOK, WorkerStates, HoldersSound, ClaimIsExclusive, Holding, db
<1>4. StagesSound'
  BY <1>0 DEF TypeOK, WorkerStates, StagesSound, DoneMeansDerived, db
<1> QED
  BY <1>1, <1>2, <1>3, <1>4

\* Forgetting a job, in whatever state its row is, disturbs nothing.
LEMMA ReleaseInv ==
  ASSUME IInv, NEW w \in Workers, faults' \in Nat,
         worker' = [worker EXCEPT ![w] = IdleWorker],
         UNCHANGED <<db, originals, derived, upload, sync>>
  PROVE  IInv'
<1> USE DEF IInv
<1>1. (RowsAgree /\ UploadsSound /\ OneTrackPerContent
        /\ LiveTrackHasOriginal /\ ClaimedAtMostOnce)'
  BY FileStepInv
<1>2. TypeOK'
  BY DEF TypeOK, WorkerStates, IdleWorker, db
<1>3. HoldersSound' /\ ClaimIsExclusive'
  BY DEF TypeOK, HoldersSound, Holding, ClaimIsExclusive, IdleWorker, db
<1>4. StagesSound'
  BY DEF TypeOK, StagesSound, DoneMeansDerived, IdleWorker, db
<1> QED
  BY <1>1, <1>2, <1>3, <1>4

LEMMA MarkErrorInv ==
  ASSUME IInv, NEW w \in Workers, MarkError(w)
  PROVE  IInv'
<1>1. faults' \in Nat
  BY DEF IInv, TypeOK, MarkError
<1> QED
  BY <1>1, ReleaseInv DEF MarkError

LEMMA ClaimErrorInv ==
  ASSUME IInv, NEW w \in Workers, ClaimError(w)
  PROVE  IInv'
<1>1. faults' \in Nat
  BY DEF IInv, TypeOK, ClaimError
<1> QED
  BY <1>1, ReleaseInv DEF ClaimError

LEMMA WorkerCrashInv ==
  ASSUME IInv, NEW w \in Workers, WorkerCrash(w)
  PROVE  IInv'
<1>1. faults' \in Nat
  BY DEF IInv, TypeOK, WorkerCrash
<1> QED
  BY <1>1, ReleaseInv DEF WorkerCrash

\* A final status: the job was processing, or its row is gone.
LEMMA MarkInv ==
  ASSUME IInv, NEW w \in Workers, NEW status \in {"done", "failed"},
         worker[w].phase \in Holding,
         Mark(worker[w].track, status),
         status = "done" => \/ DerivedSync
                            \/ \A s \in Stages :
                                  derived[worker[w].track][s] = "complete",
         worker' = [worker EXCEPT ![w] = IdleWorker],
         UNCHANGED <<used, fileHash, attempts, created, originals, derived,
                     upload, sync, faults>>
  PROVE  IInv'
<1> DEFINE t == worker[w].track
<1> USE DEF IInv
<1>1. /\ t \in Tracks /\ job[t] \in {"none", "processing"}
      /\ \A v \in Workers : worker[v].phase # "idle" /\ worker[v].track = t
                            => v = w
  BY DEF TypeOK, HoldersSound, Holding, ClaimIsExclusive
<1>2. /\ job' \in [Tracks -> {"none", "queued", "processing", "done", "failed"}]
      /\ \A v \in Tracks : v # t => job'[v] = job[v]
      /\ job'[t] = IF job[t] = "none" THEN "none" ELSE status
  BY <1>1 DEF TypeOK, Mark
<1>3. TypeOK'
  BY <1>2 DEF TypeOK, WorkerStates, IdleWorker
<1>4. (RowsAgree /\ ClaimedAtMostOnce)'
  BY <1>1, <1>2 DEF TypeOK, RowsAgree, ClaimedAtMostOnce, Live
<1>5. (UploadsSound /\ OneTrackPerContent /\ LiveTrackHasOriginal)'
  BY DEF UploadsSound, OneTrackPerContent, LiveTrackHasOriginal, Live
<1>6. HoldersSound' /\ ClaimIsExclusive'
  BY <1>1, <1>2 DEF TypeOK, HoldersSound, Holding, ClaimIsExclusive, IdleWorker
<1>7. StagesSound'
  BY <1>1, <1>2 DEF TypeOK, StagesSound, DoneMeansDerived, IdleWorker
<1> QED
  BY <1>3, <1>4, <1>5, <1>6, <1>7

LEMMA MarkJobDoneInv ==
  ASSUME IInv, NEW w \in Workers, MarkJobDone(w)
  PROVE  IInv'
<1>1. ~DerivedSync => \A s \in Stages : derived[worker[w].track][s] = "complete"
  BY DEF IInv, StagesSound, MarkJobDone, Processed, Stages
<1>2. worker[w].phase \in Holding
  BY DEF MarkJobDone, Processed, Holding
<1> QED
  BY <1>1, <1>2, MarkInv DEF MarkJobDone

LEMMA MarkJobFailedInv ==
  ASSUME IInv, NEW w \in Workers, MarkJobFailed(w)
  PROVE  IInv'
BY MarkInv DEF MarkJobFailed, Holding

-----------------------------------------------------------------------------
(* processDerived: it only runs with DerivedSync on, and then StagesSound  *)
(* says nothing                                                            *)

LEMMA SyncFileInv ==
  ASSUME IInv, NEW t \in Tracks, sync[t].phase # "idle",
         sync' \in [Tracks -> SyncStates],
         derived' \in [Tracks -> [Stages -> FileStates]],
         UNCHANGED <<db, originals, upload, worker, faults>>
  PROVE  IInv'
<1> USE DEF IInv
<1>1. (RowsAgree /\ UploadsSound /\ OneTrackPerContent
        /\ LiveTrackHasOriginal /\ ClaimedAtMostOnce)'
  BY FileStepInv
<1>2. TypeOK'
  BY DEF TypeOK, db
<1>3. HoldersSound' /\ ClaimIsExclusive'
  BY DEF HoldersSound, ClaimIsExclusive, Holding, db
<1>4. StagesSound'
  BY DEF StagesSound
<1> QED
  BY <1>1, <1>2, <1>3, <1>4

LEMMA SyncBeginInv ==
  ASSUME IInv, NEW t \in Tracks, SyncBegin(t)
  PROVE  IInv'
<1>1. sync[t].stage \in Stages
  BY DEF IInv, TypeOK, SyncStates
<1>2. sync' \in [Tracks -> SyncStates]
  BY DEF IInv, TypeOK, SyncStates, SyncBegin
<1>3. derived' \in [Tracks -> [Stages -> FileStates]]
  BY <1>1 DEF IInv, TypeOK, SyncBegin, Opened, FileStates
<1> QED
  BY <1>2, <1>3, SyncFileInv DEF SyncBegin

LEMMA AfterSyncStageType ==
  ASSUME TypeOK, NEW t \in Tracks, AfterSyncStage(t)
  PROVE  sync' \in [Tracks -> SyncStates]
<1>1. CASE sync[t].stage = 4
  BY <1>1 DEF TypeOK, SyncStates, AfterSyncStage, IdleSync, Stages
<1>2. CASE sync[t].stage # 4
  <2>1. sync[t].stage + 1 \in Stages
    BY <1>2 DEF TypeOK, SyncStates, Stages
  <2> QED
    BY <1>2, <2>1 DEF TypeOK, SyncStates, AfterSyncStage
<1> QED
  BY <1>1, <1>2

LEMMA SyncFinishInv ==
  ASSUME IInv, NEW t \in Tracks, SyncFinish(t)
  PROVE  IInv'
<1>1. sync[t].stage \in Stages
  BY DEF IInv, TypeOK, SyncStates
<1>2. sync' \in [Tracks -> SyncStates]
  BY AfterSyncStageType DEF IInv, SyncFinish
<1>3. derived' \in [Tracks -> [Stages -> FileStates]]
  BY <1>1 DEF IInv, TypeOK, SyncFinish, Closed, FileStates
<1> QED
  BY <1>2, <1>3, SyncFileInv DEF SyncFinish

LEMMA SyncFailInv ==
  ASSUME IInv, NEW t \in Tracks, SyncFail(t)
  PROVE  IInv'
<1>1. sync' \in [Tracks -> SyncStates]
  BY AfterSyncStageType DEF IInv, SyncFail
<1> QED
  BY <1>1, SyncFileInv DEF IInv, TypeOK, SyncFail

-----------------------------------------------------------------------------
(* The theorems                                                            *)

LEMMA NextInv == IInv /\ [Next]_vars => IInv'
<1> SUFFICES ASSUME IInv, [Next]_vars PROVE IInv'
  OBVIOUS
<1>1. CASE \E u \in Uploads : UploadStep(u)
  BY <1>1, ReceiveUploadInv, DeduplicateInv, MissHashInv, MoveOriginalInv,
     InsertRowsInv, CommitUploadInv, AbortUploadInv DEF UploadStep
<1>2. CASE \E t \in Tracks : DeleteTrack(t)
  BY <1>2, DeleteTrackInv
<1>3. CASE ApiCrash
  BY <1>3, ApiCrashInv
<1>4. CASE \E w \in Workers : WorkerStep(w)
  BY <1>4, LockJobInv, CommitClaimInv, BeginStageInv, FinishStageInv, FailStageInv,
     MarkJobDoneInv, MarkJobFailedInv DEF WorkerStep
<1>5. CASE \E w \in Workers : WorkerFault(w)
  BY <1>5, CommitUnacknowledgedInv, ClaimErrorInv, MarkErrorInv, WorkerCrashInv
  DEF WorkerFault
<1>6. CASE \E t \in Tracks : SyncStep(t)
  BY <1>6, SyncBeginInv, SyncFinishInv, SyncFailInv DEF SyncStep
<1>7. CASE UNCHANGED vars
  BY <1>7, StutterInv
<1> QED
  BY <1>1, <1>2, <1>3, <1>4, <1>5, <1>6, <1>7 DEF Next

\* IInv holds in every reachable state, whatever uploads, workers, deletions
\* and crashes do.
THEOREM Invariance == Spec => []IInv
BY InitInv, NextInv, PTL DEF Spec

\* Every variable keeps its type.
THEOREM TypeCorrect == Spec => []TypeOK
<1>1. IInv => TypeOK
  BY DEF IInv
<1> QED
  BY <1>1, Invariance, PTL

\* Uploads deduplicate by content, however many run at once.
THEOREM ContentIsUnique == Spec => []OneTrackPerContent
<1>1. IInv => OneTrackPerContent
  BY DEF IInv
<1> QED
  BY <1>1, Invariance, PTL

\* The original of a live track is on disk.
THEOREM OriginalIsKept == Spec => []LiveTrackHasOriginal
<1>1. IInv => LiveTrackHasOriginal
  BY DEF IInv
<1> QED
  BY <1>1, Invariance, PTL

\* Two workers never hold one job.
THEOREM ClaimsAreExclusive == Spec => []ClaimIsExclusive
<1>1. IInv => ClaimIsExclusive
  BY DEF IInv
<1> QED
  BY <1>1, Invariance, PTL

\* No job is claimed twice.
THEOREM ClaimsAreSingle == Spec => []ClaimedAtMostOnce
<1>1. IInv => ClaimedAtMostOnce
  BY DEF IInv
<1> QED
  BY <1>1, Invariance, PTL

\* With processDerived off, a done job has whole files.
THEOREM DoneIsDerived == ASSUME ~DerivedSync PROVE Spec => []DoneMeansDerived
<1>1. IInv => DoneMeansDerived
  BY DEF IInv, StagesSound
<1> QED
  BY <1>1, Invariance, PTL

-----------------------------------------------------------------------------
(* The refinement of JobLifecycle                                          *)

\* Steps that change no job, no set of used UUIDs and no holder stutter.
LEMMA LifecycleStutter ==
  ASSUME UNCHANGED <<used, job>>, \A t \in Tracks : Held(t)' = Held(t)
  PROVE  UNCHANGED [t \in Tracks |-> PhaseOf(t)]
BY DEF PhaseOf

\* A step that moves the phase of one job, and of no other, is a Move.
LEMMA LifecycleMove ==
  ASSUME NEW t \in Tracks, NEW from, NEW to,
         PhaseOf(t) \in from, PhaseOf(t)' = to,
         \A v \in Tracks \ {t} : PhaseOf(v)' = PhaseOf(v)
  PROVE  Lifecycle!Move(t, from, to)
BY DEF Lifecycle!Move

LEMMA LifecycleInit == Init => Lifecycle!Init
BY DEF Init, Lifecycle!Init, PhaseOf

LEMMA CommitUploadLifecycle ==
  ASSUME IInv, NEW u \in Uploads, CommitUpload(u)
  PROVE  Lifecycle!Next
<1> PICK t : t = upload[u].track
  OBVIOUS
<1>1. /\ t \in Tracks \ used /\ job[t] = "none"
      /\ used' = used \cup {t}
      /\ job' = [job EXCEPT ![t] = "queued"]
      /\ worker' = worker
  BY DEF IInv, UploadsSound, RowsAgree, CommitUpload
<1>2. PhaseOf(t) = "absent" /\ PhaseOf(t)' = "waiting"
  BY <1>1 DEF IInv, TypeOK, PhaseOf
<1>3. \A v \in Tracks \ {t} : PhaseOf(v)' = PhaseOf(v)
  BY <1>1 DEF IInv, TypeOK, PhaseOf, Held
<1>4. Lifecycle!Enqueue(t)
  BY <1>1, <1>2, <1>3, LifecycleMove DEF Lifecycle!Enqueue
<1> QED
  BY <1>1, <1>4 DEF Lifecycle!Next

LEMMA DeleteTrackLifecycle ==
  ASSUME IInv, NEW t \in Tracks, DeleteTrack(t)
  PROVE  Lifecycle!Next
<1>1. /\ t \in used /\ job[t] # "none"
      /\ used' = used /\ worker' = worker
      /\ job' = [job EXCEPT ![t] = "none"]
  BY DEF IInv, RowsAgree, DeleteTrack
<1>2. /\ PhaseOf(t) \in Lifecycle!Phases \ {"absent", "removed"}
      /\ PhaseOf(t)' = "removed"
  BY <1>1 DEF IInv, TypeOK, PhaseOf, Lifecycle!Phases
<1>3. \A v \in Tracks \ {t} : PhaseOf(v)' = PhaseOf(v)
  BY <1>1 DEF IInv, TypeOK, PhaseOf, Held
<1>4. Lifecycle!Remove(t)
  BY <1>2, <1>3, LifecycleMove DEF Lifecycle!Remove
<1> QED
  BY <1>4 DEF Lifecycle!Next

LEMMA CommitClaimLifecycle ==
  ASSUME IInv, NEW w \in Workers, CommitClaim(w)
  PROVE  Lifecycle!Next
<1> PICK t : t = worker[w].track
  OBVIOUS
<1>1. /\ t \in Tracks /\ job[t] = "queued" /\ worker[w].phase = "claiming"
      /\ used' = used
      /\ job' = [job EXCEPT ![t] = "processing"]
      /\ worker' = [worker EXCEPT ![w].phase = "ready"]
  BY TakeJobInv DEF CommitClaim, TakeJob
<1>2. Held(t)' /\ \A v \in Tracks \ {t} : Held(v)' = Held(v)
  BY <1>1 DEF IInv, TypeOK, WorkerStates, Held, Holding
<1>3. PhaseOf(t) = "waiting" /\ PhaseOf(t)' = "working"
  BY <1>1, <1>2 DEF IInv, TypeOK, PhaseOf
<1>4. \A v \in Tracks \ {t} : PhaseOf(v)' = PhaseOf(v)
  BY <1>1, <1>2 DEF IInv, TypeOK, PhaseOf
<1>5. Lifecycle!Take(t)
  BY <1>1, <1>3, <1>4, LifecycleMove DEF Lifecycle!Take
<1> QED
  BY <1>1, <1>5 DEF Lifecycle!Next

LEMMA CommitUnacknowledgedLifecycle ==
  ASSUME IInv, NEW w \in Workers, CommitUnacknowledged(w)
  PROVE  Lifecycle!Next
<1> PICK t : t = worker[w].track
  OBVIOUS
<1>1. /\ t \in Tracks /\ job[t] = "queued" /\ worker[w].phase = "claiming"
      /\ \A v \in Workers \ {w} : worker[v].phase # "idle" => worker[v].track # t
      /\ used' = used
      /\ job' = [job EXCEPT ![t] = "processing"]
      /\ worker' = [worker EXCEPT ![w] = IdleWorker]
  BY TakeJobInv DEF CommitUnacknowledged, TakeJob
<1>2. ~Held(t)' /\ \A v \in Tracks \ {t} : Held(v)' = Held(v)
  BY <1>1 DEF IInv, TypeOK, Held, Holding, IdleWorker
<1>3. PhaseOf(t) = "waiting" /\ PhaseOf(t)' = "abandoned"
  BY <1>1, <1>2 DEF IInv, TypeOK, PhaseOf
<1>4. \A v \in Tracks \ {t} : PhaseOf(v)' = PhaseOf(v)
  BY <1>1, <1>2 DEF IInv, TypeOK, PhaseOf
<1>5. Lifecycle!Abandon(t)
  BY <1>1, <1>3, <1>4, LifecycleMove DEF Lifecycle!Abandon
<1> QED
  BY <1>1, <1>5 DEF Lifecycle!Next

\* A worker lets its job go: no other worker holds it.
LEMMA ReleaseHeld ==
  ASSUME IInv, NEW w \in Workers, worker[w].phase \in Holding,
         worker' = [worker EXCEPT ![w] = IdleWorker],
         NEW t \in Tracks, t = worker[w].track
  PROVE  /\ Held(t) /\ ~Held(t)'
         /\ \A v \in Tracks \ {t} : Held(v)' = Held(v)
<1>1. Held(t)
  BY DEF Held
<1>2. ~Held(t)'
  BY DEF IInv, TypeOK, ClaimIsExclusive, Held, Holding, IdleWorker
<1>3. \A v \in Tracks \ {t} : Held(v)' = Held(v)
  BY DEF IInv, TypeOK, Held, Holding, IdleWorker
<1> QED
  BY <1>1, <1>2, <1>3

LEMMA ReleaseLifecycle ==
  ASSUME IInv, NEW w \in Workers, worker[w].phase \in Holding,
         worker' = [worker EXCEPT ![w] = IdleWorker],
         UNCHANGED <<used, job>>
  PROVE  Lifecycle!Next \/ UNCHANGED [t \in Tracks |-> PhaseOf(t)]
<1> PICK t : t = worker[w].track
  OBVIOUS
<1>1. t \in Tracks /\ job[t] \in {"none", "processing"}
  BY DEF IInv, TypeOK, HoldersSound, Holding
<1>2. Held(t) /\ ~Held(t)' /\ \A v \in Tracks \ {t} : Held(v)' = Held(v)
  BY <1>1, ReleaseHeld
<1>3. \A v \in Tracks \ {t} : PhaseOf(v)' = PhaseOf(v)
  BY <1>2 DEF PhaseOf
<1>4. CASE job[t] = "none"
  <2>1. PhaseOf(t)' = PhaseOf(t)
    BY <1>4 DEF PhaseOf
  <2> QED
    BY <1>3, <2>1
<1>5. CASE job[t] = "processing"
  <2>1. PhaseOf(t) = "working" /\ PhaseOf(t)' = "abandoned"
    BY <1>2, <1>5 DEF PhaseOf
  <2>2. Lifecycle!Abandon(t)
    BY <1>1, <1>3, <2>1, LifecycleMove DEF Lifecycle!Abandon
  <2> QED
    BY <1>1, <2>2 DEF Lifecycle!Next
<1> QED
  BY <1>1, <1>4, <1>5

LEMMA MarkLifecycle ==
  ASSUME IInv, NEW w \in Workers, NEW status \in {"done", "failed"},
         worker[w].phase \in Holding,
         Mark(worker[w].track, status),
         worker' = [worker EXCEPT ![w] = IdleWorker],
         UNCHANGED used
  PROVE  Lifecycle!Next \/ UNCHANGED [t \in Tracks |-> PhaseOf(t)]
<1> PICK t : t = worker[w].track
  OBVIOUS
<1>1. t \in Tracks /\ job[t] \in {"none", "processing"}
  BY DEF IInv, TypeOK, HoldersSound, Holding
<1>2. Held(t) /\ \A v \in Tracks \ {t} : Held(v)' = Held(v)
  BY <1>1, ReleaseHeld
<1>3. /\ \A v \in Tracks \ {t} : job'[v] = job[v]
      /\ job'[t] = IF job[t] = "none" THEN "none" ELSE status
  BY <1>1 DEF IInv, TypeOK, Mark
<1>4. \A v \in Tracks \ {t} : PhaseOf(v)' = PhaseOf(v)
  BY <1>2, <1>3 DEF PhaseOf
<1>5. CASE job[t] = "none"
  <2>1. PhaseOf(t)' = PhaseOf(t)
    BY <1>3, <1>5 DEF PhaseOf
  <2> QED
    BY <1>4, <2>1
<1>6. CASE job[t] = "processing"
  <2>1. PhaseOf(t) = "working" /\ PhaseOf(t)' = "settled"
    BY <1>2, <1>3, <1>6 DEF PhaseOf
  <2>2. Lifecycle!Settle(t)
    BY <1>1, <1>4, <2>1, LifecycleMove DEF Lifecycle!Settle
  <2> QED
    BY <1>1, <2>2 DEF Lifecycle!Next
<1> QED
  BY <1>1, <1>5, <1>6

LEMMA WorkerStepLifecycle ==
  ASSUME IInv, NEW w \in Workers, WorkerStep(w)
  PROVE  Lifecycle!Next \/ UNCHANGED [t \in Tracks |-> PhaseOf(t)]
<1>1. CASE CommitClaim(w)
  BY <1>1, CommitClaimLifecycle
<1>2. CASE (\E t \in Tracks : LockJob(w, t)) \/ BeginStage(w) \/ FinishStage(w)
             \/ FailStage(w)
  <2>1. UNCHANGED <<used, job>>
    BY <1>2 DEF LockJob, BeginStage, FinishStage, FailStage, db
  <2>2. worker \in [Workers -> WorkerStates]
    BY DEF IInv, TypeOK
  <2>3. \A v \in Workers :
           /\ (worker'[v].phase \in Holding) <=> (worker[v].phase \in Holding)
           /\ worker[v].phase \in Holding => worker'[v].track = worker[v].track
    <3>1. CASE \E t \in Tracks : LockJob(w, t)
      BY <2>2, <3>1 DEF WorkerStates, LockJob, Holding
    <3>2. CASE BeginStage(w)
      BY <2>2, <3>2 DEF WorkerStates, BeginStage, Holding
    <3>3. CASE FinishStage(w)
      BY <2>2, <3>3 DEF WorkerStates, FinishStage, Holding
    <3>4. CASE FailStage(w)
      BY <2>2, <3>4 DEF WorkerStates, FailStage, Holding
    <3> QED
      BY <1>2, <3>1, <3>2, <3>3, <3>4
  <2>4. \A t \in Tracks : Held(t)' = Held(t)
    BY <2>3 DEF Held
  <2> QED
    BY <2>1, <2>4, LifecycleStutter
<1>3. CASE MarkJobDone(w)
  BY <1>3, MarkLifecycle DEF MarkJobDone, Processed, Holding
<1>4. CASE MarkJobFailed(w)
  BY <1>4, MarkLifecycle DEF MarkJobFailed, Holding
<1> QED
  BY <1>1, <1>2, <1>3, <1>4 DEF WorkerStep

LEMMA WorkerFaultLifecycle ==
  ASSUME IInv, NEW w \in Workers, WorkerFault(w)
  PROVE  Lifecycle!Next \/ UNCHANGED [t \in Tracks |-> PhaseOf(t)]
<1>1. CASE CommitUnacknowledged(w)
  BY <1>1, CommitUnacknowledgedLifecycle
<1>2. CASE ClaimError(w) \/ MarkError(w) \/ WorkerCrash(w)
  <2>1. /\ worker' = [worker EXCEPT ![w] = IdleWorker]
        /\ UNCHANGED <<used, job>>
    BY <1>2 DEF ClaimError, MarkError, WorkerCrash, db
  <2>2. CASE worker[w].phase \in Holding
    BY <2>1, <2>2, ReleaseLifecycle
  <2>3. CASE worker[w].phase \notin Holding
    <3>1. \A t \in Tracks : Held(t)' = Held(t)
      BY <2>1, <2>3 DEF IInv, TypeOK, Held, Holding, IdleWorker
    <3> QED
      BY <2>1, <3>1, LifecycleStutter
  <2> QED
    BY <2>2, <2>3
<1> QED
  BY <1>1, <1>2 DEF WorkerFault

\* Steps of the API that touch neither the job rows nor the workers.
LEMMA OtherStepLifecycle ==
  ASSUME UNCHANGED <<used, job, worker>>
  PROVE  UNCHANGED [t \in Tracks |-> PhaseOf(t)]
BY LifecycleStutter DEF Held

LEMMA LifecycleNext ==
  IInv /\ [Next]_vars => [Lifecycle!Next]_([t \in Tracks |-> PhaseOf(t)])
<1> SUFFICES ASSUME IInv, [Next]_vars
             PROVE  Lifecycle!Next \/ UNCHANGED [t \in Tracks |-> PhaseOf(t)]
  OBVIOUS
<1>1. ASSUME NEW u \in Uploads, UploadStep(u)
      PROVE  Lifecycle!Next \/ UNCHANGED [t \in Tracks |-> PhaseOf(t)]
  <2>1. CASE CommitUpload(u)
    BY <2>1, CommitUploadLifecycle
  <2>2. CASE ~CommitUpload(u)
    <3>1. UNCHANGED <<used, job, worker>>
      BY <1>1, <2>2 DEF UploadStep, ReceiveUpload, Deduplicate, MissHash,
                        MoveOriginal, InsertRows, AbortUpload, db
    <3> QED
      BY <3>1, OtherStepLifecycle
  <2> QED
    BY <2>1, <2>2
<1>2. CASE \E t \in Tracks : DeleteTrack(t)
  BY <1>2, DeleteTrackLifecycle
<1>3. CASE ApiCrash \/ (\E t \in Tracks : SyncStep(t)) \/ UNCHANGED vars
  <2>1. UNCHANGED <<used, job, worker>>
    BY <1>3 DEF ApiCrash, SyncStep, SyncBegin, SyncFinish, SyncFail, vars, db
  <2> QED
    BY <2>1, OtherStepLifecycle
<1>4. CASE \E w \in Workers : WorkerStep(w)
  BY <1>4, WorkerStepLifecycle
<1>5. CASE \E w \in Workers : WorkerFault(w)
  BY <1>5, WorkerFaultLifecycle
<1> QED
  BY <1>1, <1>2, <1>3, <1>4, <1>5 DEF Next

\* Every behaviour of the pipeline is one of JobLifecycle: a job is taken once
\* and an abandoned job never comes back.
THEOREM PipelineImplementsLifecycle == Spec => ImplementsLifecycle
BY LifecycleInit, LifecycleNext, Invariance, PTL
DEF Spec, ImplementsLifecycle, Lifecycle!Spec

-----------------------------------------------------------------------------
(* The files of a done job, whether processDerived runs or not             *)

\* One file of one track is opened or closed: whatever its content, it is there.
Writes(t, s) ==
    \E state \in FileStates \ {"absent"} : derived' = [derived EXCEPT ![t][s] = state]

\* Only these steps write.
LEMMA DerivedChanges ==
  ASSUME IInv, [Next]_vars, derived' # derived
  PROVE  \/ \E w \in Workers : /\ BeginStage(w) \/ FinishStage(w)
                               /\ Writes(worker[w].track, worker[w].stage)
         \/ \E t \in Tracks : Writes(t, sync[t].stage)
<1>1. \A t, s, other : Opened(t, s, other) = derived' => Writes(t, s)
  BY DEF Opened, Writes, FileStates
<1>2. \A t, s, state : state \in Closed(derived[t][s])
                       /\ derived' = [derived EXCEPT ![t][s] = state] => Writes(t, s)
  BY DEF Closed, Writes, FileStates
<1>3. ASSUME NEW w \in Workers, WorkerStep(w)
      PROVE  /\ BeginStage(w) \/ FinishStage(w)
             /\ Writes(worker[w].track, worker[w].stage)
  <2>1. ~(\E t \in Tracks : LockJob(w, t)) /\ ~CommitClaim(w) /\ ~FailStage(w)
    BY DEF LockJob, CommitClaim, TakeJob, FailStage
  <2>2. ~MarkJobDone(w) /\ ~MarkJobFailed(w)
    BY DEF MarkJobDone, MarkJobFailed
  <2>3. BeginStage(w) => Writes(worker[w].track, worker[w].stage)
    BY <1>1 DEF BeginStage
  <2>4. FinishStage(w) => Writes(worker[w].track, worker[w].stage)
    BY <1>2 DEF FinishStage
  <2> QED
    BY <1>3, <2>1, <2>2, <2>3, <2>4 DEF WorkerStep
<1>4. ASSUME NEW t \in Tracks, SyncStep(t)
      PROVE  Writes(t, sync[t].stage)
  BY <1>1, <1>2, <1>4 DEF SyncStep, SyncBegin, SyncFinish, SyncFail
<1>5. ~\E u \in Uploads : UploadStep(u)
  BY DEF UploadStep, ReceiveUpload, Deduplicate, MissHash, MoveOriginal, InsertRows,
     CommitUpload, AbortUpload
<1>6. ~ApiCrash /\ ~\E t \in Tracks : DeleteTrack(t)
  BY DEF ApiCrash, DeleteTrack
<1>7. ~\E w \in Workers : WorkerFault(w)
  BY DEF WorkerFault, CommitUnacknowledged, TakeJob, ClaimError, MarkError, WorkerCrash
<1> QED
  BY <1>3, <1>4, <1>5, <1>6, <1>7 DEF Next, vars

\* No file ever disappears: nothing removes what ffmpeg has begun.
LEMMA FilesStay ==
  ASSUME IInv, [Next]_vars, NEW t \in Tracks, NEW s \in Stages, derived[t][s] # "absent"
  PROVE  derived'[t][s] # "absent"
<1>1. ASSUME NEW v, NEW r, Writes(v, r) PROVE derived'[t][s] # "absent"
  BY <1>1 DEF Writes, IInv, TypeOK
<1> QED
  BY <1>1, DerivedChanges

\* A worker gets on only by writing: it begins with the first stage, goes from
\* one to the next when the file is closed, and gives up with its job.
LEMMA WorkerGoesOn ==
  ASSUME IInv, [Next]_vars, NEW w \in Workers, worker'[w].phase \in {"ready", "writing"}
  PROVE  \/ worker'[w].stage = 1
         \/ /\ worker[w].phase \in {"ready", "writing"}
            /\ worker'[w].track = worker[w].track /\ worker'[w].stage = worker[w].stage
         \/ /\ FinishStage(w)
            /\ worker'[w].track = worker[w].track /\ worker'[w].stage = worker[w].stage + 1
<1>0. worker \in [Workers -> WorkerStates]
  BY DEF IInv, TypeOK
<1>1. CASE worker'[w] = worker[w]
  BY <1>1
<1>2. ASSUME NEW v \in Workers, WorkerStep(v), v = w
      PROVE  \/ worker'[w].stage = 1
             \/ /\ worker[w].phase \in {"ready", "writing"}
                /\ worker'[w].track = worker[w].track /\ worker'[w].stage = worker[w].stage
             \/ /\ FinishStage(w)
                /\ worker'[w].track = worker[w].track /\ worker'[w].stage = worker[w].stage + 1
  <2>1. CASE CommitClaim(w)
    BY <1>0, <2>1 DEF CommitClaim, TakeJob, IInv, HoldersSound, WorkerStates
  <2>2. CASE BeginStage(w)
    BY <1>0, <2>2 DEF BeginStage, WorkerStates
  <2>3. CASE FinishStage(w)
    BY <1>0, <2>3 DEF FinishStage, WorkerStates
  <2>4. CASE (\E t \in Tracks : LockJob(w, t)) \/ FailStage(w)
    BY <1>0, <2>4 DEF LockJob, FailStage, WorkerStates
  <2>5. CASE MarkJobDone(w) \/ MarkJobFailed(w)
    BY <1>0, <2>5 DEF MarkJobDone, MarkJobFailed, IdleWorker, WorkerStates
  <2> QED
    BY <1>2, <2>1, <2>2, <2>3, <2>4, <2>5 DEF WorkerStep
<1>3. ASSUME NEW v \in Workers, WorkerStep(v), v # w PROVE worker'[w] = worker[w]
  <2>1. CASE (\E t \in Tracks : LockJob(v, t)) \/ CommitClaim(v)
    BY <1>0, <1>3, <2>1 DEF LockJob, CommitClaim
  <2>2. CASE BeginStage(v) \/ FinishStage(v) \/ FailStage(v)
    BY <1>0, <1>3, <2>2 DEF BeginStage, FinishStage, FailStage
  <2>3. CASE MarkJobDone(v) \/ MarkJobFailed(v)
    BY <1>0, <1>3, <2>3 DEF MarkJobDone, MarkJobFailed
  <2> QED
    BY <1>3, <2>1, <2>2, <2>3 DEF WorkerStep
<1>4. ASSUME NEW v \in Workers, WorkerFault(v)
      PROVE  worker'[w] = worker[w] \/ worker'[w].phase = "idle"
  BY <1>0, <1>4 DEF WorkerFault, CommitUnacknowledged, ClaimError, MarkError, WorkerCrash,
     IdleWorker
<1>5. ASSUME NEW u \in Uploads, UploadStep(u) PROVE worker' = worker
  BY <1>5 DEF UploadStep, ReceiveUpload, Deduplicate, MissHash, MoveOriginal, InsertRows,
     CommitUpload, AbortUpload
<1>6. ASSUME NEW t \in Tracks, DeleteTrack(t) \/ SyncStep(t) PROVE worker' = worker
  BY <1>6 DEF DeleteTrack, SyncStep, SyncBegin, SyncFinish, SyncFail
<1> QED
  BY <1>1, <1>2, <1>3, <1>4, <1>5, <1>6 DEF Next, vars, ApiCrash

\* A job is only marked done by a worker behind the last stage.
LEMMA DoneOnlyProcessed ==
  ASSUME IInv, [Next]_vars, NEW t \in Tracks, job'[t] = "done", job[t] # "done"
  PROVE  \E w \in Workers : Processed(w) /\ worker[w].track = t
<1>0. job \in [Tracks -> {"none", "queued", "processing", "done", "failed"}]
  BY DEF IInv, TypeOK
<1>1. ASSUME NEW w \in Workers, WorkerStep(w)
      PROVE  Processed(w) /\ worker[w].track = t
  <2>1. CASE MarkJobDone(w)
    BY <1>0, <2>1 DEF MarkJobDone, Mark
  <2>2. CASE MarkJobFailed(w)
    BY <1>0, <2>2 DEF MarkJobFailed, Mark
  <2>3. CASE CommitClaim(w)
    BY <1>0, <2>3 DEF CommitClaim, TakeJob
  <2> QED
    BY <1>1, <2>1, <2>2, <2>3 DEF WorkerStep, LockJob, BeginStage, FinishStage, FailStage, db
<1>2. ASSUME NEW w \in Workers, WorkerFault(w) PROVE FALSE
  BY <1>0, <1>2 DEF WorkerFault, CommitUnacknowledged, TakeJob, ClaimError, MarkError,
     WorkerCrash, db
<1>3. ASSUME NEW u \in Uploads, UploadStep(u) PROVE FALSE
  BY <1>0, <1>3 DEF UploadStep, ReceiveUpload, Deduplicate, MissHash, MoveOriginal,
     InsertRows, CommitUpload, AbortUpload, db
<1>4. ASSUME NEW v \in Tracks, DeleteTrack(v) \/ SyncStep(v) PROVE FALSE
  BY <1>0, <1>4 DEF DeleteTrack, SyncStep, SyncBegin, SyncFinish, SyncFail, db
<1> QED
  BY <1>1, <1>2, <1>3, <1>4 DEF Next, vars, ApiCrash, db

\* What the stages behind a worker have left is there.
StagesPresent ==
    \A w \in Workers : worker[w].phase \in {"ready", "writing"} =>
        \A s \in Stages : s < worker[w].stage => derived[worker[w].track][s] # "absent"

LEMMA StagesPresentStep ==
  ASSUME IInv, StagesPresent, [Next]_vars
  PROVE  StagesPresent'
<1> SUFFICES ASSUME NEW w \in Workers, worker'[w].phase \in {"ready", "writing"},
                    NEW s \in Stages, s < worker'[w].stage
             PROVE  derived'[worker'[w].track][s] # "absent"
  BY DEF StagesPresent
<1>1. ASSUME worker[w].phase \in {"ready", "writing"} PROVE worker[w].track \in Tracks
  BY <1>1 DEF IInv, TypeOK, HoldersSound
<1>2. CASE worker'[w].stage = 1
  BY <1>2 DEF Stages
<1>3. CASE /\ worker[w].phase \in {"ready", "writing"}
           /\ worker'[w].track = worker[w].track /\ worker'[w].stage = worker[w].stage
  BY <1>1, <1>3, FilesStay DEF StagesPresent
<1>4. CASE /\ FinishStage(w)
           /\ worker'[w].track = worker[w].track /\ worker'[w].stage = worker[w].stage + 1
  <2>1. worker[w].phase = "writing" /\ worker[w].track \in Tracks
    BY <1>1, <1>4 DEF FinishStage
  <2>2. worker[w].stage \in Stages
    BY <2>1 DEF IInv, HoldersSound
  <2>3. CASE s = worker[w].stage
    BY <1>4, <2>1, <2>2, <2>3 DEF FinishStage, Closed, IInv, TypeOK
  <2>4. CASE s < worker[w].stage
    BY <1>4, <2>1, <2>4, FilesStay DEF StagesPresent
  <2> QED
    BY <1>4, <2>2, <2>3, <2>4 DEF Stages
<1> QED
  BY <1>2, <1>3, <1>4, WorkerGoesOn

\* With processDerived running beside the workers or not, for any number of both:
\* a job marked done has all its files, and never loses one.
THEOREM DoneIsPresent == Spec => []DoneMeansPresent
<1>1. Init => StagesPresent /\ DoneMeansPresent
  BY DEF Init, StagesPresent, DoneMeansPresent, IdleWorker
<1>2. ASSUME IInv, StagesPresent, DoneMeansPresent, [Next]_vars
      PROVE  StagesPresent' /\ DoneMeansPresent'
  <2>1. ASSUME NEW t \in Tracks, job'[t] = "done", NEW s \in Stages
        PROVE  derived'[t][s] # "absent"
    <3>1. CASE job[t] = "done"
      BY <1>2, <2>1, <3>1, FilesStay DEF DoneMeansPresent
    <3>2. CASE job[t] # "done"
      <4>1. PICK w \in Workers : Processed(w) /\ worker[w].track = t
        BY <1>2, <2>1, <3>2, DoneOnlyProcessed
      <4>2. derived[t][s] # "absent"
        BY <1>2, <4>1 DEF Processed, StagesPresent, Stages
      <4> QED
        BY <1>2, <4>2, FilesStay
    <3> QED
      BY <3>1, <3>2
  <2> QED
    BY <1>2, <2>1, StagesPresentStep DEF DoneMeansPresent
<1> QED
  BY <1>1, <1>2, Invariance, PTL DEF Spec
=============================================================================
