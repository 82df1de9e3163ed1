--------------------------- MODULE AssetPipeline ---------------------------
(***************************************************************************)
(* An asset, the versions uploaded of it, and the worker that takes each   *)
(* version through the ingestion pipeline (services/api/src/modules/assets *)
(* /index.ts, workers/asset-processing).  Uploads, jobs and publications   *)
(* overlap; a job whose worker dies, or seems to, is handed out again.     *)
(*                                                                         *)
(* The fourteen stages that inspect a file, and reject it or add to it,    *)
(* are one here; the creator's approval and the listing are the others.    *)
(***************************************************************************)
EXTENDS Integers, Sequences, FiniteSets

CONSTANTS
  Versions,     \* uploads of the asset
  First,        \* the one that creates it
  Publications, \* requests to POST /assets/:id/publish
  Runs,         \* bound: how often the job of a version can be running
  MaxFaults     \* bound: requests and workers that die, and awaits that are rejected

ASSUME PipelineAssumption == First \in Versions /\ MaxFaults \in Nat

NoVersion == "no version"
Stages    == <<"inspect", "approval", "marketplace">>

VARIABLES
  asset,       \* the Asset row: status and currentVersionId
  version,     \* the AssetVersion rows: status, and how many stages are on record
  upload,      \* where each upload is
  job,         \* the job of each version: none, queued, active, or how it ended
  run,         \* each run of a job: where it is, and its stage
  publication, \* where each publication is, and the version it has read
  valid,       \* which files the stages that read them accept
  autoApprove, \* AUTO_APPROVE_ASSETS
  moderation,  \* the publications that have added a job to moderation.scan
  raced,       \* history: a publication wrote when the version it had checked was no longer current
  faults

config == <<valid, autoApprove>>
vars   == <<asset, version, upload, job, run, publication, moderation, raced, faults, config>>

Fault == faults < MaxFaults /\ faults' = faults + 1

RunTo(v, r, step)  == run' = [run EXCEPT ![v][r].step = step]
UploadTo(v, step)  == upload' = [upload EXCEPT ![v] = step]
-----------------------------------------------------------------------------
Init ==
  /\ asset = [status |-> "none", current |-> NoVersion]
  /\ version = [v \in Versions |-> [status |-> "none", pipeline |-> 0]]
  /\ upload = [v \in Versions |-> "new"]
  /\ job = [v \in Versions |-> "none"]
  /\ run = [v \in Versions |-> [r \in Runs |-> [step |-> "idle", stage |-> 0]]]
  /\ publication = [q \in Publications |-> [step |-> "new", current |-> NoVersion]]
  /\ valid \in [Versions -> BOOLEAN]
  /\ autoApprove \in BOOLEAN
  /\ moderation = {}
  /\ raced = FALSE
  /\ faults = 0

-----------------------------------------------------------------------------
(* The API *)

\* POST /assets: the row, without a version yet.
CreateAsset ==
  /\ upload[First] = "new"
  /\ asset' = [asset EXCEPT !.status = "UPLOADING"]
  /\ UploadTo(First, "version")
  /\ UNCHANGED <<version, job, run, publication, moderation, raced, faults, config>>

\* POST /assets/:id/versions finds the asset, and no version of that label.
BeginUpload(v) ==
  /\ v # First
  /\ upload[v] = "new"
  /\ asset.status # "none"
  /\ UploadTo(v, "version")
  /\ UNCHANGED <<asset, version, job, run, publication, moderation, raced, faults, config>>

CreateVersion(v) ==
  /\ upload[v] = "version"
  /\ version' = [version EXCEPT ![v].status = "PROCESSING"]
  /\ UploadTo(v, "link")
  /\ UNCHANGED <<asset, job, run, publication, moderation, raced, faults, config>>

LinkVersion(v) ==
  /\ upload[v] = "link"
  /\ asset' = [status |-> "PROCESSING", current |-> v]
  /\ UploadTo(v, "enqueue")
  /\ UNCHANGED <<version, job, run, publication, moderation, raced, faults, config>>

EnqueueVersion(v) ==
  /\ upload[v] = "enqueue"
  /\ job' = [job EXCEPT ![v] = "queued"]
  /\ UploadTo(v, "done")
  /\ UNCHANGED <<asset, version, run, publication, moderation, raced, faults, config>>

UploadDies(v) ==
  /\ upload[v] \in {"version", "link", "enqueue"}
  /\ Fault
  /\ UploadTo(v, "dead")
  /\ UNCHANGED <<asset, version, job, run, publication, moderation, raced, config>>

\* POST /assets/:id/publish reads the asset, then its current version, which must be ready.
BeginPublish(q) ==
  /\ publication[q].step = "new"
  /\ asset.current # NoVersion
  /\ publication' = [publication EXCEPT ![q] = [step |-> "check", current |-> asset.current]]
  /\ UNCHANGED <<asset, version, upload, job, run, moderation, raced, faults, config>>

\* Mutant of MayPublish: the version only has to be there.
MayPublishAny(v) == version[v].status # "none"

MayPublish(v) == version[v].status = "READY"

CheckReady(q) ==
  /\ publication[q].step = "check"
  /\ publication' = [publication EXCEPT
       ![q].step = IF MayPublish(publication[q].current) THEN "write" ELSE "done"]
  /\ UNCHANGED <<asset, version, upload, job, run, moderation, raced, faults, config>>

Outdated(q) == asset.current # publication[q].current

WritePublished(q) ==
  /\ publication[q].step = "write"
  /\ asset' = [asset EXCEPT !.status = "PUBLISHED"]
  /\ raced' = (raced \/ Outdated(q))
  /\ publication' = [publication EXCEPT ![q].step = "scan"]
  /\ UNCHANGED <<version, upload, job, run, moderation, faults, config>>

\* The published asset's name and description go to moderation.
ScanAsset(q) ==
  /\ publication[q].step = "scan"
  /\ moderation' = moderation \cup {q}
  /\ publication' = [publication EXCEPT ![q].step = "done"]
  /\ UNCHANGED <<asset, version, upload, job, run, raced, faults, config>>

PublishDies(q) ==
  /\ publication[q].step \in {"check", "write", "scan"}
  /\ Fault
  /\ publication' = [publication EXCEPT ![q].step = "done"]
  /\ UNCHANGED <<asset, version, upload, job, run, moderation, raced, config>>

-----------------------------------------------------------------------------
(* The worker *)

\* Mutant of StartIndex: a job that is run again goes on after the last recorded stage.
StartIndexRecorded(v) == version[v].pipeline + 1

\* job.resumeFromIndex ?? 0: no job of the queue has one.
StartIndex(v) == 1

Idle(v) == {r \in Runs : run[v][r].step = "idle"}

StartRun(v, r) ==
  /\ job[v] = "queued"
  /\ r \in Idle(v)
  /\ job' = [job EXCEPT ![v] = "active"]
  /\ run' = [run EXCEPT ![v][r] = [step |-> "stage", stage |-> StartIndex(v)]]
  /\ UNCHANGED <<asset, version, upload, publication, moderation, raced, faults, config>>

\* What a stage says, when nothing throws; "list" is the last one, which writes rows.
Outcome(v, stage) ==
  IF stage > Len(Stages) THEN "complete"
  ELSE CASE Stages[stage] = "inspect"     -> IF valid[v] THEN "ok" ELSE "reject"
         [] Stages[stage] = "approval"    -> IF autoApprove THEN "ok" ELSE "wait"
         [] Stages[stage] = "marketplace" -> "list"

\* persistProgress: the records of this run, in place of those that are there.
Record(v, r) == version' = [version EXCEPT ![v].pipeline = run[v][r].stage]

RunStage(v, r) ==
  LET stage == run[v][r].stage
  IN /\ run[v][r].step = "stage"
     /\ CASE Outcome(v, stage) = "ok" ->
               /\ Record(v, r)
               /\ run' = [run EXCEPT ![v][r].stage = stage + 1]
               /\ UNCHANGED job
          [] Outcome(v, stage) = "reject" -> Record(v, r) /\ RunTo(v, r, "reject") /\ UNCHANGED job
          [] Outcome(v, stage) = "wait" ->
               Record(v, r) /\ RunTo(v, r, "over") /\ job' = [job EXCEPT ![v] = "waiting"]
          [] Outcome(v, stage) = "list" -> RunTo(v, r, "list") /\ UNCHANGED <<version, job>>
          [] Outcome(v, stage) = "complete" ->
               RunTo(v, r, "over") /\ job' = [job EXCEPT ![v] = "completed"] /\ UNCHANGED version
     /\ UNCHANGED <<asset, upload, publication, moderation, raced, faults, config>>

\* LICENSE_VALIDATION: the licence that is on record by now is not compatible.
RefuseLicense(v, r) ==
  /\ run[v][r] = [step |-> "stage", stage |-> 1]
  /\ Record(v, r)
  /\ RunTo(v, r, "reject")
  /\ UNCHANGED <<asset, upload, job, publication, moderation, raced, faults, config>>

\* A stage throws: storage, database or bus do not answer.
StageThrows(v, r) ==
  /\ run[v][r].step \in {"stage", "list", "relink", "announce"}
  /\ run[v][r].stage <= Len(Stages)
  /\ Fault
  /\ Record(v, r)
  /\ RunTo(v, r, "reject")
  /\ UNCHANGED <<asset, upload, job, publication, moderation, raced, config>>

\* A rejection that no stage catches: of the first read, of the progress record or of the
\* FAILED update itself.  The job fails, has no further attempt, and the version is not told.
JobThrows(v, r) ==
  /\ run[v][r].step \in {"stage", "list", "relink", "announce", "reject"}
  /\ run[v][r].stage <= Len(Stages)
  /\ Fault
  /\ RunTo(v, r, "over")
  /\ job' = [job EXCEPT ![v] = "thrown"]
  /\ UNCHANGED <<asset, version, upload, publication, moderation, raced, config>>


RejectVersion(v, r) ==
  /\ run[v][r].step = "reject"
  /\ version' = [version EXCEPT ![v].status = "FAILED"]
  /\ RunTo(v, r, "over")
  /\ job' = [job EXCEPT ![v] = "failed"]
  /\ UNCHANGED <<asset, upload, publication, moderation, raced, faults, config>>

\* MARKETPLACE: the version, then the asset, which takes this version as its current one.
MarkReady(v, r) ==
  /\ run[v][r].step = "list"
  /\ version' = [version EXCEPT ![v].status = "READY"]
  /\ RunTo(v, r, "relink")
  /\ UNCHANGED <<asset, upload, job, publication, moderation, raced, faults, config>>

Listed(v) == [status |-> "READY", current |-> v]

ListAsset(v, r) ==
  /\ run[v][r].step = "relink"
  /\ asset' = Listed(v)
  /\ RunTo(v, r, "announce")
  /\ UNCHANGED <<version, upload, job, publication, moderation, raced, faults, config>>

\* ASSET_PROCESSED; the stage is recorded and the job goes on past it.
AnnounceListed(v, r) ==
  /\ run[v][r].step = "announce"
  /\ Record(v, r)
  /\ run' = [run EXCEPT ![v][r] = [step |-> "stage", stage |-> @.stage + 1]]
  /\ UNCHANGED <<asset, upload, job, publication, moderation, raced, faults, config>>

\* The job's lock runs out: it is queued again, and the run is dead, or only slow.
Stall(v, r) ==
  /\ run[v][r].step \notin {"idle", "over"}
  /\ job[v] = "active"
  /\ Fault
  /\ job' = [job EXCEPT ![v] = "queued"]
  /\ RunTo(v, r, "over") \/ UNCHANGED run
  /\ UNCHANGED <<asset, version, upload, publication, moderation, raced, config>>

PipelineStep(v, r) ==
  \/ StartRun(v, r)
  \/ RunStage(v, r)
  \/ RejectVersion(v, r)
  \/ MarkReady(v, r)
  \/ ListAsset(v, r)
  \/ AnnounceListed(v, r)

UploadStep(v) == CreateVersion(v) \/ LinkVersion(v) \/ EnqueueVersion(v)

Progress ==
  \/ \E v \in Versions : UploadStep(v) \/ \E r \in Runs : PipelineStep(v, r)
  \/ \E q \in Publications : CheckReady(q) \/ WritePublished(q) \/ ScanAsset(q)

Next ==
  \/ Progress
  \/ CreateAsset
  \/ \E v \in Versions :
       \/ BeginUpload(v)
       \/ UploadDies(v)
       \/ \E r \in Runs : RefuseLicense(v, r) \/ StageThrows(v, r) \/ JobThrows(v, r) \/ Stall(v, r)
  \/ \E q \in Publications : BeginPublish(q) \/ PublishDies(q)

Spec == Init /\ [][Next]_vars

\* Requests that have begun, and jobs, go on until they end or die; none of them is endless.
FairSpec == Spec /\ WF_vars(Progress)
-----------------------------------------------------------------------------
TypeOK ==
  /\ asset \in [status : {"none", "UPLOADING", "PROCESSING", "READY", "PUBLISHED"},
                current : Versions \cup {NoVersion}]
  /\ version \in [Versions -> [status : {"none", "PROCESSING", "READY", "FAILED"},
                               pipeline : 0 .. Len(Stages)]]
  /\ upload \in [Versions -> {"new", "version", "link", "enqueue", "done", "dead"}]
  /\ job \in [Versions -> {"none", "queued", "active", "waiting", "completed", "failed", "thrown"}]
  /\ run \in [Versions -> [Runs ->
       [step : {"idle", "stage", "reject", "list", "relink", "announce", "over"},
        stage : 0 .. Len(Stages) + 1]]]
  /\ publication \in [Publications -> [step : {"new", "check", "write", "scan", "done"},
                                       current : Versions \cup {NoVersion}]]
  /\ valid \in [Versions -> BOOLEAN] /\ autoApprove \in BOOLEAN
  /\ moderation \subseteq Publications
  /\ raced \in BOOLEAN
  /\ faults \in 0 .. MaxFaults

\* A version is never listed without having passed every rejecting stage, whatever runs of its
\* job died, stalled or were repeated.
ReadyIsValid == \A v \in Versions : version[v].status = "READY" => valid[v]

\* An asset that is shown as ready or published has a current version that is, however uploads
\* and jobs overlap, unless something has failed or a publication came too late.
ShownIsReady ==
  asset.status \in {"READY", "PUBLISHED"} =>
    \/ version[asset.current].status = "READY"
    \/ faults > 0
    \/ asset.status = "PUBLISHED" /\ raced

=============================================================================
