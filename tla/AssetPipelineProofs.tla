------------------------ MODULE AssetPipelineProofs ------------------------
(* Proofs about AssetPipeline: types, that no version is listed which the  *)
(* stages of its job would have rejected, and that none is forgotten.      *)
EXTENDS AssetPipeline, TLAPS

\* A run is past the first stage only if the file passed it; the steps of the last stage
\* are taken at the last stage.
RunsInOrder ==
  \A v \in Versions, r \in Runs :
    /\ run[v][r].step # "idle" => run[v][r].stage >= 1
    /\ run[v][r].step \in {"list", "relink", "announce"} => run[v][r].stage = 3
    /\ run[v][r].step = "reject" => run[v][r].stage <= 3
    /\ run[v][r].stage > 1 => valid[v]

IInv == TypeOK /\ RunsInOrder /\ ReadyIsValid

StepNames      == {"idle", "stage", "reject", "list", "relink", "announce", "over"}
RunRecords     == [step : StepNames, stage : 0 .. 4]
VersionRecords == [status : {"none", "PROCESSING", "READY", "FAILED"}, pipeline : 0 .. 3]
AssetRecords   == [status : {"none", "UPLOADING", "PROCESSING", "READY", "PUBLISHED"},
                   current : Versions \cup {NoVersion}]
JobNames       == {"none", "queued", "active", "waiting", "completed", "failed", "thrown"}

\* The types of what the worker writes, and of the rest.
WorkerTypes ==
  /\ run \in [Versions -> [Runs -> RunRecords]]
  /\ version \in [Versions -> VersionRecords]
  /\ asset \in AssetRecords
  /\ job \in [Versions -> JobNames]
  /\ faults \in 0 .. MaxFaults

RequestTypes ==
  /\ upload \in [Versions -> {"new", "version", "link", "enqueue", "done", "dead"}]
  /\ publication \in [Publications -> [step : {"new", "check", "write", "scan", "done"},
                                       current : Versions \cup {NoVersion}]]
  /\ valid \in [Versions -> BOOLEAN] /\ autoApprove \in BOOLEAN
  /\ moderation \subseteq Publications
  /\ raced \in BOOLEAN

To(step, stage) == [step |-> step, stage |-> stage]
SetRun(v, r, x) == run' = [run EXCEPT ![v][r] = x]
SetJob(v, j)    == job' = [job EXCEPT ![v] = j]

\* The steps of one run change nothing of the requests.
Quiet == UNCHANGED <<upload, publication, moderation, raced, config>>

LEMMA StagesKnown ==
  /\ Len(Stages) = 3
  /\ Stages[1] = "inspect" /\ Stages[2] = "approval" /\ Stages[3] = "marketplace"
  BY DEF Stages

LEMMA Types == TypeOK <=> WorkerTypes /\ RequestTypes
<1>1. Len(Stages) = 3 /\ Len(Stages) + 1 = 4
  BY StagesKnown
<1>2. 0 .. Len(Stages) = 0 .. 3 /\ 0 .. Len(Stages) + 1 = 0 .. 4
  BY <1>1
<1> QED BY <1>2 DEF TypeOK, WorkerTypes, RequestTypes, RunRecords, VersionRecords,
                    AssetRecords, JobNames, StepNames

\* What a step that changes the stage or step of one run leaves alone.
LEMMA OneRun ==
  ASSUME WorkerTypes, NEW v \in Versions, NEW r \in Runs, NEW x \in RunRecords, SetRun(v, r, x)
  PROVE  /\ run' \in [Versions -> [Runs -> RunRecords]]
         /\ run'[v][r] = x
         /\ \A w \in Versions, s \in Runs : w # v \/ s # r => run'[w][s] = run[w][s]
  BY DEF WorkerTypes, SetRun

LEMMA RunToSets ==
  ASSUME WorkerTypes, NEW v \in Versions, NEW r \in Runs, NEW step \in StepNames,
         RunTo(v, r, step)
  PROVE  SetRun(v, r, To(step, run[v][r].stage))
<1>1. run[v][r] \in RunRecords
  BY DEF WorkerTypes
<1>2. [run[v][r] EXCEPT !.step = step] = [step |-> step, stage |-> run[v][r].stage]
  BY <1>1 DEF RunRecords
<1> QED BY <1>1, <1>2 DEF RunTo, SetRun, To

LEMMA RecordSets ==
  ASSUME WorkerTypes, NEW v \in Versions, NEW r \in Runs, run[v][r].stage \in 0 .. 3,
         Record(v, r)
  PROVE  /\ version' \in [Versions -> VersionRecords]
         /\ \A w \in Versions : version'[w].status = version[w].status
  BY DEF Record, WorkerTypes, VersionRecords

LEMMA ConfigKept ==
  ASSUME IInv, Quiet PROVE RequestTypes' /\ valid' = valid
<1>1. RequestTypes
  BY Types DEF IInv
<1>2. valid' = valid /\ autoApprove' = autoApprove
  BY DEF Quiet, config
<1> QED BY <1>1, <1>2, Zenon DEF RequestTypes, Quiet

\* Steps of requests make no version ready, and leave the runs alone.
LEMMA UnrunStep ==
  ASSUME IInv, WorkerTypes', RequestTypes', UNCHANGED <<run, config>>,
         \A v \in Versions : version'[v].status = "READY" => version[v].status = "READY"
  PROVE  IInv'
<1>1. TypeOK'
  BY Types, PTL
<1>2. RunsInOrder' /\ ReadyIsValid'
  BY DEF IInv, RunsInOrder, ReadyIsValid, config
<1> QED BY <1>1, <1>2 DEF IInv

\* Steps of one run: it keeps to the order, and makes no version ready that it should not.
LEMMA RunStepKeeps ==
  ASSUME IInv, NEW v \in Versions, NEW r \in Runs, NEW x \in RunRecords,
         SetRun(v, r, x), Quiet,
         version' \in [Versions -> VersionRecords],
         asset' \in AssetRecords,
         job' \in [Versions -> JobNames],
         faults' \in 0 .. MaxFaults,
         x.step # "idle" => x.stage >= 1,
         x.step \in {"list", "relink", "announce"} => x.stage = 3,
         x.step = "reject" => x.stage <= 3,
         x.stage > 1 => valid[v],
         \A w \in Versions :
           version'[w].status = "READY" => version[w].status = "READY" \/ valid[w]
  PROVE  IInv'
<1>1. WorkerTypes /\ RequestTypes' /\ valid' = valid
  BY Types, ConfigKept DEF IInv
<1>2. TypeOK'
  <2>1. WorkerTypes'
    BY <1>1, OneRun DEF WorkerTypes
  <2> QED BY <1>1, <2>1, Types, PTL
<1>3. RunsInOrder'
  BY <1>1, OneRun DEF IInv, RunsInOrder
<1>4. ReadyIsValid'
  BY <1>1 DEF IInv, ReadyIsValid
<1> QED BY <1>2, <1>3, <1>4 DEF IInv

LEMMA InitOK == Init => IInv
<1> SUFFICES ASSUME Init PROVE IInv
  OBVIOUS
<1>1. WorkerTypes
  BY PipelineAssumption DEF Init, WorkerTypes, RunRecords, VersionRecords, AssetRecords,
     JobNames, StepNames
<1>2. RequestTypes
  BY DEF Init, RequestTypes
<1>3. RunsInOrder /\ ReadyIsValid
  BY DEF Init, RunsInOrder, ReadyIsValid
<1> QED BY <1>1, <1>2, <1>3, Types DEF IInv

LEMMA UploadsKeep ==
  ASSUME IInv, NEW v \in Versions,
         CreateAsset \/ BeginUpload(v) \/ UploadStep(v) \/ UploadDies(v)
  PROVE  IInv'
<1>0. WorkerTypes /\ RequestTypes
  BY Types DEF IInv
<1> USE <1>0, PipelineAssumption DEF WorkerTypes, RequestTypes, UploadTo, Fault, config,
        AssetRecords, VersionRecords, JobNames
<1>1. CASE CreateAsset
  <2>1. WorkerTypes'
    BY <1>1 DEF CreateAsset
  <2>2. RequestTypes'
    BY <1>1 DEF CreateAsset
  <2> QED BY <1>1, <2>1, <2>2, UnrunStep DEF CreateAsset
<1>2. CASE BeginUpload(v)
  <2>1. WorkerTypes'
    BY <1>2 DEF BeginUpload
  <2>2. RequestTypes'
    BY <1>2 DEF BeginUpload
  <2> QED BY <1>2, <2>1, <2>2, UnrunStep DEF BeginUpload
<1>3. CASE CreateVersion(v)
  <2>1. WorkerTypes'
    BY <1>3 DEF CreateVersion
  <2>2. RequestTypes'
    BY <1>3 DEF CreateVersion
  <2> QED BY <1>3, <2>1, <2>2, UnrunStep DEF CreateVersion
<1>4. CASE LinkVersion(v)
  <2>1. WorkerTypes'
    BY <1>4 DEF LinkVersion
  <2>2. RequestTypes'
    BY <1>4 DEF LinkVersion
  <2> QED BY <1>4, <2>1, <2>2, UnrunStep DEF LinkVersion
<1>5. CASE EnqueueVersion(v)
  <2>1. WorkerTypes'
    BY <1>5 DEF EnqueueVersion
  <2>2. RequestTypes'
    BY <1>5 DEF EnqueueVersion
  <2> QED BY <1>5, <2>1, <2>2, UnrunStep DEF EnqueueVersion
<1>6. CASE UploadDies(v)
  <2>1. WorkerTypes'
    BY <1>6 DEF UploadDies
  <2>2. RequestTypes'
    BY <1>6 DEF UploadDies
  <2> QED BY <1>6, <2>1, <2>2, UnrunStep DEF UploadDies
<1> QED BY <1>1, <1>2, <1>3, <1>4, <1>5, <1>6 DEF UploadStep

LEMMA PublicationsKeep ==
  ASSUME IInv, NEW q \in Publications,
         BeginPublish(q) \/ CheckReady(q) \/ WritePublished(q) \/ ScanAsset(q) \/ PublishDies(q)
  PROVE  IInv'
<1>0. WorkerTypes /\ RequestTypes
  BY Types DEF IInv
<1> USE <1>0, PipelineAssumption DEF WorkerTypes, RequestTypes, Fault, config, AssetRecords
<1>1. CASE BeginPublish(q)
  <2>1. WorkerTypes'
    BY <1>1 DEF BeginPublish
  <2>2. RequestTypes'
    BY <1>1 DEF BeginPublish
  <2> QED BY <1>1, <2>1, <2>2, UnrunStep DEF BeginPublish
<1>2. CASE CheckReady(q)
  <2>1. WorkerTypes'
    BY <1>2 DEF CheckReady
  <2>2. RequestTypes'
    BY <1>2 DEF CheckReady
  <2> QED BY <1>2, <2>1, <2>2, UnrunStep DEF CheckReady
<1>3. CASE WritePublished(q)
  <2>1. WorkerTypes'
    BY <1>3 DEF WritePublished
  <2>2. RequestTypes'
    BY <1>3 DEF WritePublished
  <2> QED BY <1>3, <2>1, <2>2, UnrunStep DEF WritePublished
<1>4. CASE ScanAsset(q)
  <2>1. WorkerTypes'
    BY <1>4 DEF ScanAsset
  <2>2. RequestTypes'
    BY <1>4 DEF ScanAsset
  <2> QED BY <1>4, <2>1, <2>2, UnrunStep DEF ScanAsset
<1>5. CASE PublishDies(q)
  <2>1. WorkerTypes'
    BY <1>5 DEF PublishDies
  <2>2. RequestTypes'
    BY <1>5 DEF PublishDies
  <2> QED BY <1>5, <2>1, <2>2, UnrunStep DEF PublishDies
<1> QED BY <1>1, <1>2, <1>3, <1>4, <1>5

\* What the steps of a run may count on.
Here(v, r) ==
  /\ run[v][r].step \in StepNames
  /\ run[v][r].stage \in 0 .. 4
  /\ run[v][r].step # "idle" => run[v][r].stage >= 1
  /\ run[v][r].step \in {"list", "relink", "announce"} => run[v][r].stage = 3
  /\ run[v][r].stage > 1 => valid[v]

LEMMA HereHolds ==
  ASSUME IInv, NEW v \in Versions, NEW r \in Runs
  PROVE  WorkerTypes /\ Here(v, r)
<1>1. WorkerTypes
  BY Types DEF IInv
<1>2. run[v][r] \in RunRecords
  BY <1>1 DEF WorkerTypes
<1> QED BY <1>1, <1>2 DEF IInv, RunsInOrder, RunRecords, Here

LEMMA ToIs ==
  ASSUME NEW step \in StepNames, NEW stage \in 0 .. 4
  PROVE  To(step, stage) \in RunRecords /\ To(step, stage).step = step
         /\ To(step, stage).stage = stage
  BY DEF To, RunRecords

LEMMA JobTyped ==
  ASSUME WorkerTypes, NEW v \in Versions, NEW j \in JobNames, job' = job \/ SetJob(v, j)
  PROVE  job' \in [Versions -> JobNames]
  BY DEF WorkerTypes, SetJob

\* A step of a run that only the version's progress record may notice.
LEMMA MoveKeeps ==
  ASSUME IInv, NEW v \in Versions, NEW r \in Runs, NEW step \in StepNames, NEW stage \in 0 .. 4,
         NEW j \in JobNames,
         SetRun(v, r, To(step, stage)), Quiet,
         (Record(v, r) /\ run[v][r].stage \in 0 .. 3) \/ version' = version,
         job' = job \/ SetJob(v, j),
         asset' = asset, faults' \in 0 .. MaxFaults,
         step # "idle" => stage >= 1,
         step \in {"list", "relink", "announce"} => stage = 3,
         step = "reject" => stage <= 3,
         stage > 1 => valid[v]
  PROVE  IInv'
<1>1. WorkerTypes
  BY HereHolds
<1>2. /\ version' \in [Versions -> VersionRecords]
      /\ \A w \in Versions : version'[w].status = version[w].status
  BY <1>1, RecordSets DEF WorkerTypes
<1>3. asset' \in AssetRecords /\ job' \in [Versions -> JobNames]
  BY <1>1, JobTyped DEF WorkerTypes
<1> QED BY <1>2, <1>3, ToIs, RunStepKeeps

LEMMA StartRunKeeps ==
  ASSUME IInv, NEW v \in Versions, NEW r \in Runs, StartRun(v, r)
  PROVE  IInv'
<1>1. SetRun(v, r, To("stage", 1)) /\ SetJob(v, "active") /\ Quiet
      /\ UNCHANGED <<version, asset, faults>>
  BY DEF StartRun, StartIndex, SetRun, SetJob, Quiet, To
<1>2. faults' \in 0 .. MaxFaults
  BY <1>1, HereHolds DEF WorkerTypes
<1>3. "stage" \in StepNames /\ "active" \in JobNames
  BY DEF StepNames, JobNames
<1> QED BY <1>1, <1>2, <1>3, MoveKeeps

LEMMA OutcomeIs ==
  ASSUME NEW v \in Versions
  PROVE  /\ Outcome(v, 1) = IF valid[v] THEN "ok" ELSE "reject"
         /\ Outcome(v, 2) = IF autoApprove THEN "ok" ELSE "wait"
         /\ Outcome(v, 3) = "list"
         /\ Outcome(v, 4) = "complete"
  BY StagesKnown DEF Outcome

LEMMA RunStageKeeps ==
  ASSUME IInv, NEW v \in Versions, NEW r \in Runs, RunStage(v, r)
  PROVE  IInv'
<1> DEFINE s == run[v][r].stage
<1>0. /\ WorkerTypes /\ s \in 1 .. 4
      /\ s > 1 => valid[v]
      /\ Quiet /\ asset' = asset /\ faults' \in 0 .. MaxFaults
      /\ run[v][r].step = "stage"
  <2>1. WorkerTypes /\ Here(v, r)
    BY HereHolds
  <2>2. Quiet /\ asset' = asset /\ faults' = faults /\ run[v][r].step = "stage"
    BY DEF RunStage, Quiet
  <2> QED BY <2>1, <2>2 DEF WorkerTypes, Here
<1>s. s = 1 \/ s = 2 \/ s = 3 \/ s = 4
  BY <1>0
<1>n. StepNames = {"idle", "stage", "reject", "list", "relink", "announce", "over"}
      /\ {"queued", "waiting", "completed"} \subseteq JobNames
  BY DEF StepNames, JobNames
<1>1. CASE Outcome(v, s) = "ok"
  <2>1. Record(v, r) /\ job' = job /\ run' = [run EXCEPT ![v][r].stage = s + 1]
    BY <1>1 DEF RunStage
  <2>2. s < 3
    BY <1>0, <1>1, <1>s, OutcomeIs
  <2>3. valid[v]
    BY <1>0, <1>1, <1>s, OutcomeIs
  <2>4. SetRun(v, r, To("stage", s + 1))
    <3>1. run[v][r] \in RunRecords
      BY <1>0 DEF WorkerTypes
    <3>2. [run[v][r] EXCEPT !.stage = s + 1] = To("stage", s + 1)
      BY <1>0, <3>1 DEF RunRecords, To
    <3> QED BY <2>1, <3>2 DEF SetRun
  <2>5. s + 1 \in 2 .. 3 /\ s \in 0 .. 3 /\ s + 1 \in 0 .. 4
    BY <1>0, <2>2
  <2> QED BY <1>0, <1>n, <2>1, <2>3, <2>4, <2>5, MoveKeeps
<1>2. CASE Outcome(v, s) = "reject"
  <2>1. Record(v, r) /\ job' = job /\ RunTo(v, r, "reject")
    BY <1>2 DEF RunStage
  <2>2. s \in 0 .. 3
    BY <1>0, <1>2, <1>s, OutcomeIs
  <2>3. SetRun(v, r, To("reject", s))
    BY <1>0, <1>n, <2>1, RunToSets
  <2> QED BY <1>0, <1>n, <2>1, <2>2, <2>3, MoveKeeps
<1>3. CASE Outcome(v, s) = "wait"
  <2>1. Record(v, r) /\ SetJob(v, "waiting") /\ RunTo(v, r, "over")
    BY <1>3 DEF RunStage, SetJob
  <2>2. s \in 0 .. 3
    BY <1>0, <1>3, <1>s, OutcomeIs
  <2>3. SetRun(v, r, To("over", s))
    BY <1>0, <1>n, <2>1, RunToSets
  <2> QED BY <1>0, <1>n, <2>1, <2>2, <2>3, MoveKeeps
<1>4. CASE Outcome(v, s) = "list"
  <2>1. version' = version /\ job' = job /\ RunTo(v, r, "list")
    BY <1>4 DEF RunStage
  <2>2. s = 3
    BY <1>0, <1>4, <1>s, OutcomeIs
  <2>3. SetRun(v, r, To("list", s))
    BY <1>0, <1>n, <2>1, RunToSets
  <2> QED BY <1>0, <1>n, <2>1, <2>2, <2>3, MoveKeeps
<1>5. CASE Outcome(v, s) = "complete"
  <2>1. version' = version /\ SetJob(v, "completed") /\ RunTo(v, r, "over")
    BY <1>5 DEF RunStage, SetJob
  <2>2. SetRun(v, r, To("over", s)) /\ s \in 0 .. 4
    BY <1>0, <1>n, <2>1, RunToSets
  <2> QED BY <1>0, <1>n, <2>1, <2>2, MoveKeeps
<1>6. Outcome(v, s) \in {"ok", "reject", "wait", "list", "complete"}
  BY <1>s, OutcomeIs
<1> QED BY <1>1, <1>2, <1>3, <1>4, <1>5, <1>6

\* Steps that send a run to its rejection.
LEMMA ToRejectKeeps ==
  ASSUME IInv, NEW v \in Versions, NEW r \in Runs, RefuseLicense(v, r) \/ StageThrows(v, r)
  PROVE  IInv'
<1>1. WorkerTypes /\ Here(v, r)
  BY HereHolds
<1>2. run[v][r].stage \in 1 .. 3
  BY <1>1, StagesKnown DEF RefuseLicense, StageThrows, Here
<1>3. Record(v, r) /\ RunTo(v, r, "reject") /\ Quiet /\ UNCHANGED <<asset, job>>
  BY DEF RefuseLicense, StageThrows, Quiet
<1>4. faults' \in 0 .. MaxFaults
  BY <1>1, PipelineAssumption DEF RefuseLicense, StageThrows, Fault, WorkerTypes
<1>5. "reject" \in StepNames /\ "queued" \in JobNames
  BY DEF StepNames, JobNames
<1>6. SetRun(v, r, To("reject", run[v][r].stage))
  BY <1>1, <1>3, <1>5, RunToSets
<1>7. run[v][r].stage \in 0 .. 4 /\ run[v][r].stage \in 0 .. 3 /\ run[v][r].stage >= 1
  BY <1>2
<1>8. run[v][r].stage > 1 => valid[v]
  BY <1>1 DEF Here
<1> QED BY <1>3, <1>4, <1>5, <1>6, <1>7, <1>8, MoveKeeps

LEMMA ThrownKeeps ==
  ASSUME IInv, NEW v \in Versions, NEW r \in Runs, JobThrows(v, r)
  PROVE  IInv'
<1>1. WorkerTypes /\ Here(v, r)
  BY HereHolds
<1>2. faults' \in 0 .. MaxFaults /\ SetJob(v, "thrown") /\ Quiet /\ UNCHANGED <<asset, version>>
  BY <1>1, PipelineAssumption DEF JobThrows, Fault, WorkerTypes, SetJob, Quiet
<1>3. "over" \in StepNames /\ "thrown" \in JobNames
  BY DEF StepNames, JobNames
<1>4. SetRun(v, r, To("over", run[v][r].stage))
  BY <1>1, <1>3, RunToSets DEF JobThrows
<1>5. run[v][r].stage \in 0 .. 4 /\ run[v][r].stage >= 1 /\ (run[v][r].stage > 1 => valid[v])
  BY <1>1 DEF JobThrows, Here
<1> QED BY <1>2, <1>3, <1>4, <1>5, MoveKeeps

LEMMA StallKeeps ==
  ASSUME IInv, NEW v \in Versions, NEW r \in Runs, Stall(v, r)
  PROVE  IInv'
<1>1. WorkerTypes /\ Here(v, r)
  BY HereHolds
<1>2. faults' \in 0 .. MaxFaults /\ SetJob(v, "queued") /\ Quiet /\ UNCHANGED <<asset, version>>
  BY <1>1, PipelineAssumption DEF Stall, Fault, WorkerTypes, SetJob, Quiet
<1>3. "over" \in StepNames /\ "queued" \in JobNames
  BY DEF StepNames, JobNames
<1>4. CASE RunTo(v, r, "over")
  <2>1. SetRun(v, r, To("over", run[v][r].stage))
    BY <1>1, <1>3, <1>4, RunToSets
  <2>2. run[v][r].stage \in 0 .. 4 /\ run[v][r].stage >= 1 /\ (run[v][r].stage > 1 => valid[v])
    BY <1>1 DEF Stall, Here
  <2> QED BY <1>2, <1>3, <2>1, <2>2, MoveKeeps
<1>5. CASE UNCHANGED run
  <2>1. RequestTypes' /\ UNCHANGED config
    BY <1>2, ConfigKept DEF Quiet
  <2>2. job' \in [Versions -> JobNames]
    BY <1>1, <1>2, <1>3, JobTyped
  <2>3. WorkerTypes'
    BY <1>1, <1>2, <1>5, <2>2 DEF WorkerTypes
  <2> QED BY <1>2, <1>5, <2>1, <2>3, UnrunStep
<1> QED BY <1>4, <1>5 DEF Stall

LEMMA ListingKeeps ==
  ASSUME IInv, NEW v \in Versions, NEW r \in Runs,
         RejectVersion(v, r) \/ MarkReady(v, r) \/ ListAsset(v, r) \/ AnnounceListed(v, r)
  PROVE  IInv'
<1>0. WorkerTypes /\ Here(v, r) /\ faults' \in 0 .. MaxFaults
      /\ run[v][r].stage \in 0 .. 4
  BY HereHolds DEF Here, WorkerTypes, RejectVersion, MarkReady, ListAsset, AnnounceListed
<1>n. /\ "over" \in StepNames /\ "relink" \in StepNames /\ "announce" \in StepNames
      /\ "stage" \in StepNames /\ "failed" \in JobNames
  BY DEF StepNames, JobNames
<1>q. Quiet
  BY DEF Quiet, RejectVersion, MarkReady, ListAsset, AnnounceListed
<1>1. CASE RejectVersion(v, r)
  <2>1. SetRun(v, r, To("over", run[v][r].stage)) /\ SetJob(v, "failed") /\ asset' = asset
    BY <1>0, <1>1, <1>n, RunToSets DEF RejectVersion, SetJob
  <2>2. /\ version' \in [Versions -> VersionRecords]
        /\ \A w \in Versions : version'[w].status = "READY" => version[w].status = "READY"
    BY <1>0, <1>1 DEF RejectVersion, VersionRecords, WorkerTypes
  <2>3. run[v][r].stage >= 1 /\ (run[v][r].stage > 1 => valid[v])
    BY <1>0, <1>1 DEF RejectVersion, Here
  <2>4. job' \in [Versions -> JobNames] /\ asset' \in AssetRecords
    BY <1>0, <1>n, <2>1, JobTyped DEF WorkerTypes
  <2> QED BY <1>0, <1>n, <1>q, <2>1, <2>2, <2>3, <2>4, ToIs, RunStepKeeps
<1>2. CASE MarkReady(v, r)
  <2>1. SetRun(v, r, To("relink", run[v][r].stage)) /\ UNCHANGED <<asset, job>>
    BY <1>0, <1>2, <1>n, RunToSets DEF MarkReady
  <2>2. run[v][r].stage = 3 /\ valid[v]
    BY <1>0, <1>2 DEF MarkReady, Here
  <2>3. /\ version' \in [Versions -> VersionRecords]
        /\ \A w \in Versions : w # v => version'[w] = version[w]
    BY <1>0, <1>2 DEF MarkReady, VersionRecords, WorkerTypes
  <2>4. \A w \in Versions :
          version'[w].status = "READY" => version[w].status = "READY" \/ valid[w]
    BY <2>2, <2>3
  <2>5. job' \in [Versions -> JobNames] /\ asset' \in AssetRecords
    BY <1>0, <2>1 DEF WorkerTypes
  <2> QED BY <1>0, <1>n, <1>q, <2>1, <2>2, <2>3, <2>4, <2>5, ToIs, RunStepKeeps
<1>3. CASE ListAsset(v, r)
  <2>1. SetRun(v, r, To("announce", run[v][r].stage)) /\ UNCHANGED <<version, job>>
    BY <1>0, <1>3, <1>n, RunToSets DEF ListAsset
  <2>2. run[v][r].stage = 3 /\ valid[v]
    BY <1>0, <1>3 DEF ListAsset, Here
  <2>3. asset' \in AssetRecords
    BY <1>3 DEF ListAsset, Listed, AssetRecords
  <2>4. job' \in [Versions -> JobNames] /\ version' \in [Versions -> VersionRecords]
    BY <1>0, <2>1 DEF WorkerTypes
  <2> QED BY <1>0, <1>n, <1>q, <2>1, <2>2, <2>3, <2>4, ToIs, RunStepKeeps
<1>4. CASE AnnounceListed(v, r)
  <2>1. run[v][r].stage = 3 /\ valid[v]
    BY <1>0, <1>4 DEF AnnounceListed, Here
  <2>2. SetRun(v, r, To("stage", 4)) /\ Record(v, r) /\ UNCHANGED <<asset, job>>
    BY <1>4, <2>1 DEF AnnounceListed, SetRun, To
  <2> QED BY <1>0, <1>n, <1>q, <2>1, <2>2, MoveKeeps
<1> QED BY <1>1, <1>2, <1>3, <1>4

LEMMA NextKeeps == IInv /\ [Next]_vars => IInv'
<1> SUFFICES ASSUME IInv, [Next]_vars PROVE IInv'
  OBVIOUS
<1>1. CASE Next
  BY <1>1, UploadsKeep, PublicationsKeep, StartRunKeeps, RunStageKeeps, ToRejectKeeps, StallKeeps,
     ThrownKeeps, ListingKeeps, PipelineAssumption DEF Next, Progress, PipelineStep
<1>2. CASE UNCHANGED vars
  <2>1. WorkerTypes /\ RequestTypes
    BY Types DEF IInv
  <2>2. Quiet /\ UNCHANGED <<run, version, asset, job, faults>>
    BY <1>2 DEF vars, Quiet
  <2>3. WorkerTypes' /\ RequestTypes' /\ UNCHANGED config
    BY <2>1, <2>2, ConfigKept DEF WorkerTypes, Quiet
  <2> QED BY <2>2, <2>3, UnrunStep
<1> QED BY <1>1, <1>2

\* Every reachable state of an asset is well typed, for any number of versions, publications
\* and runs of a job (assets/index.ts, workers/asset-processing).
THEOREM PipelineTypes == Spec => []TypeOK
<1>1. IInv => TypeOK
  BY DEF IInv
<1> QED BY InitOK, NextKeeps, <1>1, PTL DEF Spec

\* However often the job of a version is run, and whichever of its runs die, stall or overlap:
\* a version is listed only if the stages that may reject its file accept it.
THEOREM OnlyValidIsListed == Spec => []ReadyIsValid
<1>1. IInv => ReadyIsValid
  BY DEF IInv
<1> QED BY InitOK, NextKeeps, <1>1, PTL DEF Spec
-----------------------------------------------------------------------------
(* While nothing has failed, a version that is ready stays so *)

\* An upload is followed by one job, the job by one run of it, and a run whose version is ready
\* cannot reject it any more.
CalmVersion(v) ==
  /\ upload[v] \in {"new", "version"} => version[v].status = "none"
  /\ upload[v] \in {"new", "version", "link", "enqueue"} => job[v] = "none"
  /\ job[v] \in {"none", "queued"} => \A r \in Runs : run[v][r].step = "idle"
  /\ \A r, s \in Runs : run[v][r].step # "idle" /\ run[v][s].step # "idle" => r = s
  /\ version[v].status = "READY" =>
       /\ job[v] \notin {"none", "queued"}
       /\ \A r \in Runs : \/ run[v][r].step \in {"idle", "relink", "announce", "over"}
                          \/ run[v][r].stage = 4
  /\ \A r \in Runs : run[v][r].step = "relink" => version[v].status = "READY"

CalmPublication(q) ==
  /\ publication[q].step = "check" => publication[q].current \in Versions
  /\ publication[q].step = "write" => /\ publication[q].current \in Versions
                                      /\ version[publication[q].current].status = "READY"

CalmAsset ==
  asset.status \in {"READY", "PUBLISHED"} =>
    \/ asset.status = "PUBLISHED" /\ raced
    \/ asset.current \in Versions /\ version[asset.current].status = "READY"

CalmInv ==
  /\ IInv
  /\ faults = 0 =>
       /\ \A v \in Versions : CalmVersion(v)
       /\ \A q \in Publications : CalmPublication(q)
       /\ CalmAsset

\* A ready version stays ready: publications in progress and the asset keep what they rely on.
LEMMA ReadyStays ==
  ASSUME WorkerTypes, RequestTypes, CalmAsset,
         \A q \in Publications : CalmPublication(q),
         \A v \in Versions : version[v].status = "READY" => version'[v].status = "READY",
         UNCHANGED <<publication, raced>>, asset' = asset
  PROVE  CalmAsset' /\ \A q \in Publications : CalmPublication(q)'
  BY DEF CalmAsset, CalmPublication

LEMMA NoFaultYet ==
  ASSUME WorkerTypes, faults' = 0, faults' = faults \/ Fault
  PROVE  faults = 0 /\ ~Fault /\ faults' = faults
  BY PipelineAssumption DEF WorkerTypes, Fault

LEMMA CalmUploads ==
  ASSUME CalmInv, faults' = 0, NEW v \in Versions,
         CreateAsset \/ BeginUpload(v) \/ UploadStep(v) \/ UploadDies(v)
  PROVE  /\ \A w \in Versions : CalmVersion(w)'
         /\ \A q \in Publications : CalmPublication(q)'
         /\ CalmAsset'
<1>0. WorkerTypes /\ RequestTypes
  BY Types DEF CalmInv, IInv
<1>f. faults = 0 /\ ~Fault
  BY <1>0, NoFaultYet DEF CreateAsset, BeginUpload, UploadStep, CreateVersion, LinkVersion,
     EnqueueVersion, UploadDies
<1>c. /\ \A w \in Versions : CalmVersion(w)
      /\ \A q \in Publications : CalmPublication(q)
      /\ CalmAsset
  BY <1>f DEF CalmInv
<1> USE <1>0, <1>c, PipelineAssumption DEF WorkerTypes, RequestTypes, UploadTo
<1>1. CASE CreateAsset
  BY <1>1 DEF CreateAsset, CalmVersion, CalmPublication, CalmAsset
<1>2. CASE BeginUpload(v)
  BY <1>2 DEF BeginUpload, CalmVersion, CalmPublication, CalmAsset
<1>3. CASE CreateVersion(v)
  <2>1. version[v].status = "none" /\ \A w \in Versions : w # v => version'[w] = version[w]
    BY <1>3 DEF CreateVersion, CalmVersion
  <2>2. version'[v].status = "PROCESSING"
    BY <1>3 DEF CreateVersion, VersionRecords
  <2>3. \A w \in Versions : version[w].status = "READY" => version'[w].status = "READY"
    BY <2>1
  <2>4. \A w \in Versions : CalmVersion(w)'
    BY <1>3, <2>1, <2>2 DEF CreateVersion, CalmVersion
  <2> QED BY <1>3, <2>3, <2>4, ReadyStays DEF CreateVersion
<1>4. CASE LinkVersion(v)
  BY <1>4 DEF LinkVersion, CalmVersion, CalmPublication, CalmAsset
<1>5. CASE EnqueueVersion(v)
  <2>1. \A w \in Versions : CalmVersion(w)'
    BY <1>5 DEF EnqueueVersion, CalmVersion
  <2> QED BY <1>5, <2>1, ReadyStays DEF EnqueueVersion
<1> QED BY <1>1, <1>2, <1>3, <1>4, <1>5, <1>f DEF UploadStep, UploadDies

LEMMA CalmPublications ==
  ASSUME CalmInv, faults' = 0, NEW p \in Publications,
         BeginPublish(p) \/ CheckReady(p) \/ WritePublished(p) \/ ScanAsset(p) \/ PublishDies(p)
  PROVE  /\ \A w \in Versions : CalmVersion(w)'
         /\ \A q \in Publications : CalmPublication(q)'
         /\ CalmAsset'
<1>0. WorkerTypes /\ RequestTypes
  BY Types DEF CalmInv, IInv
<1>f. faults = 0 /\ ~Fault
  BY <1>0, NoFaultYet DEF BeginPublish, CheckReady, WritePublished, ScanAsset, PublishDies
<1>c. /\ \A w \in Versions : CalmVersion(w)
      /\ \A q \in Publications : CalmPublication(q)
      /\ CalmAsset
  BY <1>f DEF CalmInv
<1>v. \A w \in Versions : CalmVersion(w)'
  BY <1>c, <1>f DEF CalmVersion, BeginPublish, CheckReady, WritePublished, ScanAsset, PublishDies
<1> USE <1>0, <1>c DEF WorkerTypes, RequestTypes, AssetRecords
<1>1. CASE BeginPublish(p)
  BY <1>1, <1>v DEF BeginPublish, CalmPublication, CalmAsset
<1>2. CASE CheckReady(p)
  BY <1>2, <1>v DEF CheckReady, MayPublish, CalmPublication, CalmAsset
<1>3. CASE WritePublished(p)
  <2>1. raced' \/ asset.current = publication[p].current
    BY <1>3 DEF WritePublished, Outdated
  <2>2. publication[p].current \in Versions /\ version[publication[p].current].status = "READY"
    BY <1>3 DEF WritePublished, CalmPublication
  <2>3. asset'.status = "PUBLISHED" /\ asset'.current = asset.current /\ version' = version
    BY <1>3 DEF WritePublished
  <2>4. CalmAsset'
    BY <2>1, <2>2, <2>3 DEF CalmAsset
  <2>5. \A q \in Publications : CalmPublication(q)'
    BY <1>3 DEF WritePublished, CalmPublication
  <2> QED BY <1>v, <2>4, <2>5
<1>4. CASE ScanAsset(p)
  BY <1>4, <1>v DEF ScanAsset, CalmPublication, CalmAsset
<1> QED BY <1>1, <1>2, <1>3, <1>4, <1>f DEF PublishDies

\* A step of a run of v leaves the other versions calm, and v if its part holds.
LEMMA CalmElsewhere ==
  ASSUME WorkerTypes, NEW v \in Versions, NEW r \in Runs, NEW x \in RunRecords, SetRun(v, r, x),
         \A w \in Versions : CalmVersion(w),
         \A w \in Versions : w # v => job'[w] = job[w] /\ version'[w].status = version[w].status,
         upload' = upload,
         CalmVersion(v)'
  PROVE  \A w \in Versions : CalmVersion(w)'
<1> SUFFICES ASSUME NEW w \in Versions, w # v PROVE CalmVersion(w)'
  OBVIOUS
<1>1. \A s \in Runs : run'[w][s] = run[w][s]
  BY OneRun
<1> QED BY <1>1 DEF CalmVersion

\* The run takes the step of a job that is active, and no other run of the version is under way.
LEMMA CalmHere ==
  ASSUME WorkerTypes, NEW v \in Versions, NEW r \in Runs, NEW x \in RunRecords, SetRun(v, r, x),
         CalmVersion(v), upload' = upload, run[v][r].step # "idle",
         job'[v] = job[v] \/ job'[v] \notin {"none", "queued"},
         version'[v].status = version[v].status \/ version'[v].status # "none",
         x.step = "relink" => version'[v].status = "READY",
         version'[v].status = "READY" =>
           x.step \in {"idle", "relink", "announce", "over"} \/ x.stage = 4
  PROVE  CalmVersion(v)'
<1>1. \A s \in Runs : run'[v][s] = IF s = r THEN x ELSE run[v][s]
  BY OneRun
<1>2. job[v] \notin {"none", "queued"} /\ job'[v] \notin {"none", "queued"}
  BY DEF CalmVersion
<1>3. \A s \in Runs : s # r => run[v][s].step = "idle"
  BY DEF CalmVersion
<1>4. upload[v] \notin {"new", "version", "link", "enqueue"}
  BY <1>2 DEF CalmVersion
<1> QED BY <1>1, <1>2, <1>3, <1>4 DEF CalmVersion

LEMMA CalmWorker ==
  ASSUME CalmInv, faults' = 0, NEW v \in Versions, NEW r \in Runs,
         PipelineStep(v, r) \/ RefuseLicense(v, r) \/ StageThrows(v, r) \/ JobThrows(v, r) \/ Stall(v, r)
  PROVE  /\ \A w \in Versions : CalmVersion(w)'
         /\ \A q \in Publications : CalmPublication(q)'
         /\ CalmAsset'
<1>0. WorkerTypes /\ RequestTypes /\ Here(v, r) /\ run[v][r] \in RunRecords
  BY HereHolds, Types DEF CalmInv, IInv, WorkerTypes
<1>f. faults = 0 /\ ~Fault
  BY <1>0, NoFaultYet DEF PipelineStep, StartRun, RunStage, RejectVersion, MarkReady, ListAsset,
     AnnounceListed, RefuseLicense, StageThrows, JobThrows, Stall
<1>c. /\ \A w \in Versions : CalmVersion(w)
      /\ \A q \in Publications : CalmPublication(q)
      /\ CalmAsset
  BY <1>f DEF CalmInv
<1>j. \A j \in JobNames : SetJob(v, j) =>
        job'[v] = j /\ \A w \in Versions : w # v => job'[w] = job[w]
  BY <1>0 DEF SetJob, WorkerTypes
<1>n. StepNames = {"idle", "stage", "reject", "list", "relink", "announce", "over"}
      /\ {"active", "waiting", "completed", "failed"} \subseteq JobNames
  BY DEF StepNames, JobNames
<1>1. CASE StartRun(v, r)
  <2>1. SetRun(v, r, To("stage", 1)) /\ SetJob(v, "active") /\ job[v] = "queued"
        /\ UNCHANGED <<version, asset, upload, publication, raced>>
    BY <1>1 DEF StartRun, StartIndex, SetRun, SetJob, To
  <2>2. To("stage", 1) \in RunRecords
    BY <1>n, ToIs
  <2>3. \A s \in Runs : run'[v][s] = IF s = r THEN To("stage", 1) ELSE run[v][s]
    BY <1>0, <2>1, <2>2, OneRun
  <2>4. job'[v] = "active"
    BY <1>j, <1>n, <2>1
  <2>5. To("stage", 1).step = "stage"
    BY <1>n, ToIs
  <2>6. CalmVersion(v)'
    BY <1>c, <2>1, <2>3, <2>4, <2>5 DEF CalmVersion
  <2>7. \A w \in Versions : CalmVersion(w)'
    BY <1>0, <1>c, <1>j, <1>n, <2>1, <2>2, <2>6, CalmElsewhere
  <2> QED BY <1>0, <1>c, <2>1, <2>7, ReadyStays
\* Every other step is one of a run under way: what is left is the step it takes.
<1>2. ASSUME NEW x \in RunRecords, SetRun(v, r, x), run[v][r].step # "idle",
             UNCHANGED <<asset, upload, publication, raced>>,
             (Record(v, r) /\ run[v][r].stage \in 0 .. 3) \/ version' = version,
             job' = job \/ \E j \in {"waiting", "completed", "failed"} : SetJob(v, j),
             x.step = "relink" => version[v].status = "READY",
             version[v].status = "READY" =>
               x.step \in {"idle", "relink", "announce", "over"} \/ x.stage = 4
      PROVE  /\ \A w \in Versions : CalmVersion(w)'
             /\ \A q \in Publications : CalmPublication(q)'
             /\ CalmAsset'
  <2>1. \A w \in Versions : version'[w].status = version[w].status
    BY <1>0, <1>2, RecordSets
  <2>2. /\ \A w \in Versions : w # v => job'[w] = job[w]
        /\ job'[v] = job[v] \/ job'[v] \notin {"none", "queued"}
    BY <1>2, <1>j, <1>n
  <2>3. CalmVersion(v)'
    BY <1>0, <1>2, <1>c, <2>1, <2>2, CalmHere
  <2>4. \A w \in Versions : CalmVersion(w)'
    BY <1>0, <1>2, <1>c, <2>1, <2>2, <2>3, CalmElsewhere
  <2> QED BY <1>0, <1>2, <1>c, <2>1, <2>4, ReadyStays
<1>r. version[v].status = "READY" =>
        run[v][r].step \in {"idle", "relink", "announce", "over"} \/ run[v][r].stage = 4
  BY <1>c DEF CalmVersion
<1>t. \A step \in StepNames, stage \in 0 .. 4 :
        /\ To(step, stage) \in RunRecords
        /\ To(step, stage).step = step /\ To(step, stage).stage = stage
  BY ToIs
<1>3. CASE RunStage(v, r)
  <2> DEFINE s == run[v][r].stage
  <2>0. /\ run[v][r].step = "stage" /\ s \in 1 .. 4
        /\ UNCHANGED <<asset, upload, publication, raced>>
    BY <1>0, <1>3 DEF RunStage, Here
  <2>1. s = 1 \/ s = 2 \/ s = 3 \/ s = 4
    BY <2>0
  <2>2. Outcome(v, s) = "complete" <=> s = 4
    BY <2>1, OutcomeIs
  <2>3. CASE Outcome(v, s) = "complete"
    <3>1. version' = version /\ SetJob(v, "completed") /\ RunTo(v, r, "over")
      BY <1>3, <2>3 DEF RunStage, SetJob
    <3>2. SetRun(v, r, To("over", s))
      BY <1>0, <1>n, <3>1, RunToSets
    <3> QED BY <1>2, <1>n, <1>t, <2>0, <3>1, <3>2
  <2>4. CASE s # 4
    <3>1. version[v].status # "READY" /\ s \in 0 .. 3 /\ s + 1 \in 0 .. 4
      BY <1>r, <2>0, <2>4
    <3>2. CASE Outcome(v, s) = "ok"
      <4>1. Record(v, r) /\ job' = job /\ run' = [run EXCEPT ![v][r].stage = s + 1]
        BY <1>3, <3>2 DEF RunStage
      <4>2. [run[v][r] EXCEPT !.stage = s + 1] = To("stage", s + 1)
        BY <1>0, <2>0 DEF RunRecords, To
      <4>3. SetRun(v, r, To("stage", s + 1))
        BY <4>1, <4>2 DEF SetRun
      <4> QED BY <1>2, <1>n, <1>t, <2>0, <3>1, <4>1, <4>3
    <3>3. CASE Outcome(v, s) = "reject"
      <4>1. Record(v, r) /\ job' = job /\ RunTo(v, r, "reject")
        BY <1>3, <3>3 DEF RunStage
      <4>2. SetRun(v, r, To("reject", s))
        BY <1>0, <1>n, <4>1, RunToSets
      <4> QED BY <1>2, <1>n, <1>t, <2>0, <3>1, <4>1, <4>2
    <3>4. CASE Outcome(v, s) = "wait"
      <4>1. Record(v, r) /\ SetJob(v, "waiting") /\ RunTo(v, r, "over")
        BY <1>3, <3>4 DEF RunStage, SetJob
      <4>2. SetRun(v, r, To("over", s))
        BY <1>0, <1>n, <4>1, RunToSets
      <4> QED BY <1>2, <1>n, <1>t, <2>0, <3>1, <4>1, <4>2
    <3>5. CASE Outcome(v, s) = "list"
      <4>1. version' = version /\ job' = job /\ RunTo(v, r, "list")
        BY <1>3, <3>5 DEF RunStage
      <4>2. SetRun(v, r, To("list", s))
        BY <1>0, <1>n, <4>1, RunToSets
      <4> QED BY <1>2, <1>n, <1>t, <2>0, <3>1, <4>1, <4>2
    <3> QED BY <2>1, <2>4, <3>2, <3>3, <3>4, <3>5, OutcomeIs
  <2> QED BY <2>2, <2>3, <2>4
<1>4. CASE RefuseLicense(v, r)
  <2>1. /\ Record(v, r) /\ RunTo(v, r, "reject") /\ job' = job
        /\ run[v][r].step = "stage" /\ run[v][r].stage = 1
        /\ UNCHANGED <<asset, upload, publication, raced>>
    BY <1>4 DEF RefuseLicense
  <2>2. SetRun(v, r, To("reject", run[v][r].stage))
    BY <1>0, <1>n, <2>1, RunToSets
  <2>3. version[v].status # "READY"
    BY <1>r, <2>1
  <2> QED BY <1>2, <1>n, <1>t, <2>1, <2>2, <2>3
<1>5. CASE ListAsset(v, r)
  <2>1. /\ run[v][r].step = "relink" /\ RunTo(v, r, "announce") /\ asset' = Listed(v)
        /\ UNCHANGED <<version, upload, job, publication, raced>>
    BY <1>5 DEF ListAsset
  <2>2. SetRun(v, r, To("announce", run[v][r].stage)) /\ run[v][r].stage \in 0 .. 4
    BY <1>0, <1>n, <2>1, RunToSets DEF Here
  <2>3. CalmVersion(v)'
    BY <1>0, <1>c, <1>n, <1>t, <2>1, <2>2, CalmHere
  <2>4. \A w \in Versions : CalmVersion(w)'
    BY <1>0, <1>c, <1>n, <1>t, <2>1, <2>2, <2>3, CalmElsewhere
  <2>5. version'[v].status = "READY"
    BY <1>c, <2>1 DEF CalmVersion
  <2>6. CalmAsset'
    BY <2>1, <2>5 DEF CalmAsset, Listed
  <2> QED BY <1>c, <2>1, <2>4, <2>6 DEF CalmPublication
<1>6. CASE AnnounceListed(v, r)
  <2>1. run[v][r].step = "announce" /\ run[v][r].stage = 3
    BY <1>0, <1>6 DEF AnnounceListed, Here
  <2>2. SetRun(v, r, To("stage", 4)) /\ Record(v, r)
        /\ UNCHANGED <<asset, upload, job, publication, raced>>
    BY <1>6, <2>1 DEF AnnounceListed, SetRun, To
  <2> QED BY <1>2, <1>n, <1>t, <2>1, <2>2
<1>7. CASE MarkReady(v, r)
  <2>1. /\ run[v][r].step = "list" /\ RunTo(v, r, "relink")
        /\ version' = [version EXCEPT ![v].status = "READY"]
        /\ UNCHANGED <<asset, upload, job, publication, raced>>
    BY <1>7 DEF MarkReady
  <2>2. SetRun(v, r, To("relink", run[v][r].stage)) /\ run[v][r].stage \in 0 .. 4
    BY <1>0, <1>n, <2>1, RunToSets DEF Here
  <2>3. version'[v].status = "READY" /\ \A w \in Versions : w # v => version'[w] = version[w]
    BY <1>0, <2>1 DEF WorkerTypes, VersionRecords
  <2>4. CalmVersion(v)'
    BY <1>0, <1>c, <1>n, <1>t, <2>1, <2>2, <2>3, CalmHere
  <2>5. \A w \in Versions : CalmVersion(w)'
    BY <1>0, <1>c, <1>n, <1>t, <2>1, <2>2, <2>3, <2>4, CalmElsewhere
  <2> QED BY <1>0, <1>c, <2>1, <2>3, <2>5, ReadyStays
<1>8. CASE RejectVersion(v, r)
  <2>1. /\ run[v][r].step = "reject" /\ RunTo(v, r, "over") /\ SetJob(v, "failed")
        /\ version' = [version EXCEPT ![v].status = "FAILED"]
        /\ UNCHANGED <<asset, upload, publication, raced>>
    BY <1>8 DEF RejectVersion, SetJob
  <2>2. SetRun(v, r, To("over", run[v][r].stage)) /\ run[v][r].stage \in 0 .. 4
    BY <1>0, <1>n, <2>1, RunToSets DEF Here
  <2>3. version'[v].status = "FAILED" /\ \A w \in Versions : w # v => version'[w] = version[w]
    BY <1>0, <2>1 DEF WorkerTypes, VersionRecords
  <2>4. CalmVersion(v)'
    BY <1>0, <1>c, <1>j, <1>n, <1>t, <2>1, <2>2, <2>3, CalmHere
  <2>5. \A w \in Versions : CalmVersion(w)'
    BY <1>0, <1>c, <1>j, <1>n, <1>t, <2>1, <2>2, <2>3, <2>4, CalmElsewhere
  <2>6. version[v].status # "READY"
    <3>1. run[v][r].stage <= 3
      BY <2>1 DEF CalmInv, IInv, RunsInOrder
    <3> QED BY <1>r, <2>1, <2>2, <3>1
  <2> QED BY <1>0, <1>c, <2>1, <2>3, <2>5, <2>6, ReadyStays
<1> QED BY <1>1, <1>3, <1>4, <1>5, <1>6, <1>7, <1>8, <1>f
   DEF PipelineStep, StageThrows, JobThrows, Stall

LEMMA CalmInit == Init => CalmInv
<1> SUFFICES ASSUME Init PROVE CalmInv
  OBVIOUS
<1>1. \A v \in Versions : CalmVersion(v)
  BY DEF Init, CalmVersion
<1>2. CalmAsset /\ \A q \in Publications : CalmPublication(q)
  BY DEF Init, CalmAsset, CalmPublication
<1> QED BY <1>1, <1>2, InitOK DEF CalmInv

LEMMA CalmNext == CalmInv /\ [Next]_vars => CalmInv'
<1> SUFFICES ASSUME CalmInv, [Next]_vars PROVE CalmInv'
  OBVIOUS
<1>1. IInv'
  BY NextKeeps DEF CalmInv
<1>2. SUFFICES ASSUME faults' = 0
               PROVE  /\ \A v \in Versions : CalmVersion(v)'
                      /\ \A q \in Publications : CalmPublication(q)'
                      /\ CalmAsset'
  BY <1>1 DEF CalmInv
<1>3. CASE Next
  BY <1>2, <1>3, CalmUploads, CalmPublications, CalmWorker, PipelineAssumption
  DEF Next, Progress
<1>4. CASE UNCHANGED vars
  BY <1>2, <1>4 DEF CalmInv, vars, CalmVersion, CalmPublication, CalmAsset
<1> QED BY <1>3, <1>4

\* As long as nothing has failed and no publication has come too late, an asset that is shown as
\* ready or published has a ready version, however many uploads, jobs and publications overlap.
THEOREM ShownAssetsAreReady == Spec => []ShownIsReady
<1>1. CalmInv => ShownIsReady
  <2> SUFFICES ASSUME CalmInv PROVE ShownIsReady
    OBVIOUS
  <2>1. faults = 0 \/ faults > 0
    BY Types DEF CalmInv, IInv, WorkerTypes
  <2> QED BY <2>1 DEF CalmInv, CalmAsset, ShownIsReady
<1> QED BY CalmInit, CalmNext, <1>1, PTL DEF Spec
-----------------------------------------------------------------------------
(* VersionSettles: who still has to settle a version.                      *)

Settled(v) == version[v].status \in {"READY", "FAILED"}
Working(v) == \E r \in Runs : run[v][r].step \notin {"idle", "over"}

\* A version whose upload is done is settled, or its job waits for a worker or for the creator or
\* was thrown by a rejection no stage caught, or a run of it is under way.
VersionIsDue ==
  \A v \in Versions :
    \/ upload[v] # "done"
    \/ Settled(v)
    \/ job[v] \in {"queued", "waiting", "thrown"}
    \/ job[v] = "active" /\ Working(v)

\* There is a job when the upload is done, and runs only of a job; past the listing a version
\* is settled.
JobFollowsUpload ==
  \A v \in Versions :
    /\ upload[v] = "done" <=> job[v] # "none"
    /\ job[v] = "none" => \A r \in Runs : run[v][r].step = "idle"

PastListing ==
  \A v \in Versions, r \in Runs :
    run[v][r].step \in {"relink", "announce"} \/ (run[v][r].step # "idle" /\ run[v][r].stage > 3)
      => Settled(v)

DueInv == VersionIsDue /\ JobFollowsUpload /\ PastListing

\* What a step of one run must leave behind.
LEMMA RunLeavesDue ==
  ASSUME DueInv, NEW v \in Versions, NEW r \in Runs, upload' = upload,
         \A w \in Versions, s \in Runs : w # v \/ s # r => run'[w][s] = run[w][s],
         \A w \in Versions \ {v} : job'[w] = job[w],
         \A w \in Versions : version'[w].status \in {version[w].status, "READY", "FAILED"},
         job[v] # "none" /\ job'[v] # "none",
         run'[v][r].step \in {"relink", "announce"}
           \/ (run'[v][r].step # "idle" /\ run'[v][r].stage > 3) => Settled(v)',
         \/ Settled(v)'
         \/ job'[v] \in {"queued", "waiting", "thrown"}
         \/ job'[v] \in {job[v], "active"} /\ run'[v][r].step \notin {"idle", "over"}
  PROVE  DueInv'
<1>1. \A w \in Versions : Settled(w) => Settled(w)'
  BY DEF Settled
<1>2. \A w \in Versions \ {v} : Working(w) => Working(w)'
  BY DEF Working
<1>3. run'[v][r].step \notin {"idle", "over"} => Working(v)'
  BY DEF Working
<1>4. VersionIsDue'
  BY <1>1, <1>2, <1>3 DEF DueInv, VersionIsDue
<1>5. JobFollowsUpload'
  BY DEF DueInv, JobFollowsUpload
<1>6. PastListing'
  BY <1>1 DEF DueInv, PastListing
<1> QED BY <1>4, <1>5, <1>6 DEF DueInv

\* A run that has begun has a job.
LEMMA RunHasJob ==
  ASSUME DueInv, NEW v \in Versions, NEW r \in Runs, run[v][r].step # "idle"
  PROVE  job[v] # "none"
  BY DEF DueInv, JobFollowsUpload

\* What a step of a run does to the run's record, its job and the statuses.
RunStep(v, r, step, stage, j) ==
  /\ run'[v][r].step = step /\ run'[v][r].stage = stage
  /\ \A w \in Versions, s \in Runs : w # v \/ s # r => run'[w][s] = run[w][s]
  /\ job'[v] = j
  /\ \A w \in Versions \ {v} : job'[w] = job[w]
  /\ upload' = upload

LEMMA RunToIs ==
  ASSUME WorkerTypes, NEW v \in Versions, NEW r \in Runs, NEW step \in StepNames, NEW j \in JobNames,
         RunTo(v, r, step), job' = [job EXCEPT ![v] = j], upload' = upload
  PROVE  RunStep(v, r, step, run[v][r].stage, j)
<1>1. run[v][r] \in RunRecords
  BY DEF WorkerTypes
<1>2. To(step, run[v][r].stage) \in RunRecords /\ To(step, run[v][r].stage).step = step
      /\ To(step, run[v][r].stage).stage = run[v][r].stage
  BY <1>1, ToIs DEF RunRecords
<1>3. /\ run'[v][r] = To(step, run[v][r].stage)
      /\ \A w \in Versions, s \in Runs : w # v \/ s # r => run'[w][s] = run[w][s]
  BY <1>2, RunToSets, OneRun
<1> QED BY <1>2, <1>3 DEF RunStep, WorkerTypes

LEMMA RecordStatus ==
  ASSUME WorkerTypes, NEW v \in Versions, NEW r \in Runs, Record(v, r)
  PROVE  \A w \in Versions : version'[w].status = version[w].status
  BY DEF Record, WorkerTypes, VersionRecords

LEMMA StageLeavesDue ==
  ASSUME IInv, DueInv, NEW v \in Versions, NEW r \in Runs, RunStage(v, r)
  PROVE  DueInv'
<1> DEFINE s == run[v][r].stage
<1>0. WorkerTypes /\ s \in 1 .. 4 /\ run[v][r].step = "stage" /\ upload' = upload /\ job[v] # "none"
  <2>1. WorkerTypes /\ Here(v, r)
    BY HereHolds
  <2>2. run[v][r].step = "stage" /\ upload' = upload
    BY DEF RunStage
  <2> QED BY <2>1, <2>2, RunHasJob DEF Here
<1>s. s = 1 \/ s = 2 \/ s = 3 \/ s = 4
  BY <1>0
<1>n. StepNames = {"idle", "stage", "reject", "list", "relink", "announce", "over"}
      /\ JobNames = {"none", "queued", "active", "waiting", "completed", "failed", "thrown"}
  BY DEF StepNames, JobNames
<1>j. job = [job EXCEPT ![v] = job[v]] /\ job[v] \in JobNames
  BY <1>0 DEF WorkerTypes
<1>1. CASE Outcome(v, s) = "ok"
  <2>1. Record(v, r) /\ job' = job /\ run' = [run EXCEPT ![v][r].stage = s + 1]
    BY <1>1 DEF RunStage
  <2>2. s < 3
    BY <1>0, <1>1, <1>s, OutcomeIs
  <2>3. /\ run'[v][r] = [run[v][r] EXCEPT !.stage = s + 1] /\ run[v][r] \in RunRecords
        /\ \A w \in Versions, q \in Runs : w # v \/ q # r => run'[w][q] = run[w][q]
    BY <1>0, <2>1 DEF WorkerTypes
  <2>4. run'[v][r].stage = s + 1 /\ run'[v][r].step = "stage"
    BY <1>0, <2>3 DEF RunRecords
  <2>5. ~ (run'[v][r].stage > 3)
    BY <1>0, <2>2, <2>4
  <2>6. \A w \in Versions : version'[w].status = version[w].status
    BY <1>0, <2>1, RecordStatus
  <2> HIDE DEF s
  <2> QED BY <1>0, <2>1, <2>3, <2>4, <2>5, <2>6, RunLeavesDue
<1>2. CASE Outcome(v, s) = "reject"
  <2>1. Record(v, r) /\ job' = job /\ RunTo(v, r, "reject") /\ s # 4
    BY <1>2, <1>s, OutcomeIs DEF RunStage
  <2>2. RunStep(v, r, "reject", s, job[v])
    BY <1>0, <1>j, <1>n, <2>1, RunToIs
  <2>3. \A w \in Versions : version'[w].status = version[w].status
    BY <1>0, <2>1, RecordStatus
  <2>4. ~ (s > 3)
    BY <1>0, <2>1
  <2> HIDE DEF s
  <2> QED BY <1>0, <2>2, <2>3, <2>4, RunLeavesDue DEF RunStep
<1>3. CASE Outcome(v, s) = "wait"
  <2>1. Record(v, r) /\ job' = [job EXCEPT ![v] = "waiting"] /\ RunTo(v, r, "over") /\ s # 4
    BY <1>3, <1>s, OutcomeIs DEF RunStage
  <2>2. RunStep(v, r, "over", s, "waiting")
    BY <1>0, <1>n, <2>1, RunToIs
  <2>3. \A w \in Versions : version'[w].status = version[w].status
    BY <1>0, <2>1, RecordStatus
  <2>4. ~ (s > 3)
    BY <1>0, <2>1
  <2> HIDE DEF s
  <2> QED BY <1>0, <2>2, <2>3, <2>4, RunLeavesDue DEF RunStep
<1>4. CASE Outcome(v, s) = "list"
  <2>1. version' = version /\ job' = job /\ RunTo(v, r, "list") /\ s # 4
    BY <1>4, <1>s, OutcomeIs DEF RunStage
  <2>2. RunStep(v, r, "list", s, job[v])
    BY <1>0, <1>j, <1>n, <2>1, RunToIs
  <2>4. ~ (s > 3)
    BY <1>0, <2>1
  <2> HIDE DEF s
  <2> QED BY <1>0, <2>1, <2>2, <2>4, RunLeavesDue DEF RunStep
<1>5. CASE Outcome(v, s) = "complete"
  <2>1. version' = version /\ job' = [job EXCEPT ![v] = "completed"] /\ RunTo(v, r, "over") /\ s = 4
    BY <1>5, <1>s, OutcomeIs DEF RunStage
  <2>2. RunStep(v, r, "over", s, "completed")
    BY <1>0, <1>n, <2>1, RunToIs
  <2>3. Settled(v) /\ Settled(v)'
    <3>1. run[v][r].step # "idle" /\ run[v][r].stage > 3
      BY <1>0, <2>1
    <3>2. Settled(v)
      BY <3>1 DEF DueInv, PastListing
    <3> QED BY <2>1, <3>2 DEF Settled
  <2> HIDE DEF s
  <2> QED BY <1>0, <2>1, <2>2, <2>3, RunLeavesDue DEF RunStep
<1>6. Outcome(v, s) \in {"ok", "reject", "wait", "list", "complete"}
  BY <1>s, OutcomeIs
<1> QED BY <1>1, <1>2, <1>3, <1>4, <1>5, <1>6

LEMMA ListingLeavesDue ==
  ASSUME IInv, DueInv, NEW v \in Versions, NEW r \in Runs,
         RejectVersion(v, r) \/ MarkReady(v, r) \/ ListAsset(v, r) \/ AnnounceListed(v, r)
  PROVE  DueInv'
<1>0. WorkerTypes /\ Here(v, r) /\ upload' = upload /\ job[v] # "none"
  <2>1. run[v][r].step # "idle" /\ upload' = upload
    BY DEF RejectVersion, MarkReady, ListAsset, AnnounceListed
  <2> QED BY <2>1, HereHolds, RunHasJob
<1>n. StepNames = {"idle", "stage", "reject", "list", "relink", "announce", "over"}
      /\ JobNames = {"none", "queued", "active", "waiting", "completed", "failed", "thrown"}
  BY DEF StepNames, JobNames
<1>j. job = [job EXCEPT ![v] = job[v]] /\ job[v] \in JobNames
  BY <1>0 DEF WorkerTypes
<1>1. CASE RejectVersion(v, r)
  <2>1. RunStep(v, r, "over", run[v][r].stage, "failed")
    BY <1>0, <1>1, <1>n, RunToIs DEF RejectVersion
  <2>2. version'[v].status = "FAILED" /\ \A w \in Versions \ {v} : version'[w] = version[w]
    BY <1>0, <1>1 DEF RejectVersion, WorkerTypes, VersionRecords
  <2>3. Settled(v)'
    BY <2>2 DEF Settled
  <2> QED BY <1>0, <2>1, <2>2, <2>3, RunLeavesDue DEF RunStep
<1>2. CASE MarkReady(v, r)
  <2>1. RunStep(v, r, "relink", run[v][r].stage, job[v])
    BY <1>0, <1>2, <1>j, <1>n, RunToIs DEF MarkReady
  <2>2. version'[v].status = "READY" /\ \A w \in Versions \ {v} : version'[w] = version[w]
    BY <1>0, <1>2 DEF MarkReady, WorkerTypes, VersionRecords
  <2>3. Settled(v)'
    BY <2>2 DEF Settled
  <2> QED BY <1>0, <2>1, <2>2, <2>3, RunLeavesDue DEF RunStep
<1>3. CASE ListAsset(v, r)
  <2>1. RunStep(v, r, "announce", run[v][r].stage, job[v]) /\ version' = version
    BY <1>0, <1>3, <1>j, <1>n, RunToIs DEF ListAsset
  <2>2. Settled(v) /\ Settled(v)'
    BY <1>3, <2>1 DEF ListAsset, DueInv, PastListing, Settled
  <2> QED BY <1>0, <2>1, <2>2, RunLeavesDue DEF RunStep
<1>4. CASE AnnounceListed(v, r)
  <2>1. /\ run'[v][r].step = "stage" /\ job' = job
        /\ \A w \in Versions, s \in Runs : w # v \/ s # r => run'[w][s] = run[w][s]
    BY <1>0, <1>4 DEF AnnounceListed, WorkerTypes
  <2>2. \A w \in Versions : version'[w].status = version[w].status
    BY <1>0, <1>4, RecordStatus DEF AnnounceListed
  <2>3. Settled(v)'
    BY <1>4, <2>2 DEF AnnounceListed, DueInv, PastListing, Settled
  <2> QED BY <1>0, <2>1, <2>2, <2>3, RunLeavesDue
<1> QED BY <1>1, <1>2, <1>3, <1>4

LEMMA FaultsLeaveDue ==
  ASSUME IInv, DueInv, NEW v \in Versions, NEW r \in Runs,
         RefuseLicense(v, r) \/ StageThrows(v, r) \/ JobThrows(v, r) \/ Stall(v, r)
  PROVE  DueInv'
<1>0. WorkerTypes /\ Here(v, r) /\ upload' = upload /\ job[v] # "none"
  <2>1. run[v][r].step # "idle" /\ upload' = upload
    BY DEF RefuseLicense, StageThrows, JobThrows, Stall
  <2> QED BY <2>1, HereHolds, RunHasJob
<1>n. StepNames = {"idle", "stage", "reject", "list", "relink", "announce", "over"}
      /\ JobNames = {"none", "queued", "active", "waiting", "completed", "failed", "thrown"}
  BY DEF StepNames, JobNames
<1>1. CASE RefuseLicense(v, r) \/ StageThrows(v, r)
  <2>1. Record(v, r) /\ RunTo(v, r, "reject") /\ job' = job /\ run[v][r].stage \in 1 .. 3
    BY <1>0, <1>1, StagesKnown DEF RefuseLicense, StageThrows, Here
  <2>2. job' = [job EXCEPT ![v] = job[v]] /\ job[v] \in JobNames
    BY <1>0, <2>1 DEF WorkerTypes
  <2>3. RunStep(v, r, "reject", run[v][r].stage, job[v])
    BY <1>0, <1>n, <2>1, <2>2, RunToIs
  <2>4. \A w \in Versions : version'[w].status = version[w].status
    BY <1>0, <2>1, RecordStatus
  <2>5. ~ (run[v][r].stage > 3)
    BY <2>1
  <2> QED BY <1>0, <2>3, <2>4, <2>5, RunLeavesDue DEF RunStep
<1>2. CASE Stall(v, r)
  <2>1. job' = [job EXCEPT ![v] = "queued"] /\ version' = version
    BY <1>2 DEF Stall
  <2>2. CASE RunTo(v, r, "over")
    <3>1. RunStep(v, r, "over", run[v][r].stage, "queued")
      BY <1>0, <1>n, <2>1, <2>2, RunToIs
    <3>2. run[v][r].stage > 3 => Settled(v)'
      BY <1>2, <2>1 DEF Stall, DueInv, PastListing, Settled
    <3> QED BY <1>0, <2>1, <3>1, <3>2, RunLeavesDue DEF RunStep
  <2>3. CASE run' = run
    <3>1. job'[v] = "queued" /\ \A w \in Versions \ {v} : job'[w] = job[w]
      BY <1>0, <2>1 DEF WorkerTypes
    <3>2. run'[v][r].step \in {"relink", "announce"} \/ run'[v][r].stage > 3 => Settled(v)'
      BY <1>2, <2>1, <2>3 DEF Stall, DueInv, PastListing, Settled
    <3> QED BY <1>0, <2>1, <2>3, <3>1, <3>2, RunLeavesDue
  <2> QED BY <1>2, <2>2, <2>3 DEF Stall
<1>3. CASE JobThrows(v, r)
  <2>1. job' = [job EXCEPT ![v] = "thrown"] /\ RunTo(v, r, "over") /\ version' = version
        /\ run[v][r].stage \in 1 .. 3
    BY <1>0, <1>3, StagesKnown DEF JobThrows, Here
  <2>2. RunStep(v, r, "over", run[v][r].stage, "thrown")
    BY <1>0, <1>n, <2>1, RunToIs
  <2>3. ~ (run[v][r].stage > 3)
    BY <2>1
  <2> QED BY <1>0, <2>1, <2>2, <2>3, RunLeavesDue DEF RunStep
<1> QED BY <1>1, <1>2, <1>3

LEMMA StartLeavesDue ==
  ASSUME IInv, DueInv, NEW v \in Versions, NEW r \in Runs, StartRun(v, r)
  PROVE  DueInv'
<1>1. WorkerTypes
  BY HereHolds
<1>2. /\ run'[v][r].step = "stage" /\ run'[v][r].stage = 1
      /\ \A w \in Versions, s \in Runs : w # v \/ s # r => run'[w][s] = run[w][s]
      /\ job[v] = "queued" /\ job'[v] = "active" /\ \A w \in Versions \ {v} : job'[w] = job[w]
      /\ UNCHANGED <<upload, version>>
  BY <1>1 DEF StartRun, StartIndex, WorkerTypes
<1>3. ~ (run'[v][r].stage > 3)
  BY <1>2
<1> QED BY <1>2, <1>3, RunLeavesDue

\* Uploads begin, go on and die; the last step of one makes its job.
LEMMA UploadsLeaveDue ==
  ASSUME IInv, DueInv, NEW v \in Versions,
         CreateAsset \/ BeginUpload(v) \/ UploadStep(v) \/ UploadDies(v)
  PROVE  DueInv'
<1>0. WorkerTypes /\ RequestTypes
  BY Types DEF IInv
<1>1. CASE EnqueueVersion(v)
  <2>1. /\ job'[v] = "queued" /\ upload'[v] = "done" /\ UNCHANGED <<run, version>>
        /\ \A w \in Versions \ {v} : job'[w] = job[w] /\ upload'[w] = upload[w]
    BY <1>0, <1>1 DEF EnqueueVersion, UploadTo, WorkerTypes, RequestTypes
  <2>2. \A w \in Versions : Settled(w)' = Settled(w) /\ Working(w)' = Working(w)
    BY <2>1 DEF Settled, Working
  <2> QED BY <2>1, <2>2 DEF DueInv, VersionIsDue, JobFollowsUpload, PastListing
<1>2. CASE CreateVersion(v)
  <2>1. /\ upload[v] = "version" /\ upload'[v] = "link" /\ UNCHANGED <<run, job>>
        /\ \A w \in Versions \ {v} : version'[w] = version[w] /\ upload'[w] = upload[w]
    BY <1>0, <1>2 DEF CreateVersion, UploadTo, WorkerTypes, RequestTypes
  <2>2. \A w \in Versions \ {v} : Settled(w)' = Settled(w)
    BY <2>1 DEF Settled
  <2>3. \A w \in Versions : Working(w)' = Working(w)
    BY <2>1 DEF Working
  <2>4. \A r \in Runs : run[v][r].step = "idle"
    BY <2>1 DEF DueInv, JobFollowsUpload
  <2> QED BY <2>1, <2>2, <2>3, <2>4 DEF DueInv, VersionIsDue, JobFollowsUpload, PastListing
<1>3. CASE CreateAsset \/ BeginUpload(v) \/ LinkVersion(v) \/ UploadDies(v)
  <2>1. UNCHANGED <<run, job, version>>
        /\ \A w \in Versions : upload'[w] = "done" <=> upload[w] = "done"
    BY <1>0, <1>3, PipelineAssumption
       DEF CreateAsset, BeginUpload, LinkVersion, UploadDies, UploadTo, RequestTypes
  <2>2. \A w \in Versions : Settled(w)' = Settled(w) /\ Working(w)' = Working(w)
    BY <2>1 DEF Settled, Working
  <2> QED BY <2>1, <2>2 DEF DueInv, VersionIsDue, JobFollowsUpload, PastListing
<1> QED BY <1>1, <1>2, <1>3 DEF UploadStep

LEMMA DueStep == IInv /\ DueInv /\ [Next]_vars => DueInv'
<1> SUFFICES ASSUME IInv, DueInv, [Next]_vars PROVE DueInv'
  OBVIOUS
<1>1. ASSUME UNCHANGED <<run, job, version, upload>> PROVE DueInv'
  <2>1. \A w \in Versions : Settled(w)' = Settled(w) /\ Working(w)' = Working(w)
    BY <1>1 DEF Settled, Working
  <2> QED BY <1>1, <2>1 DEF DueInv, VersionIsDue, JobFollowsUpload, PastListing
<1>2. ASSUME NEW q \in Publications,
             BeginPublish(q) \/ CheckReady(q) \/ WritePublished(q) \/ ScanAsset(q) \/ PublishDies(q)
      PROVE  DueInv'
  BY <1>1, <1>2 DEF BeginPublish, CheckReady, WritePublished, ScanAsset, PublishDies
<1>3. CASE UNCHANGED vars
  BY <1>1, <1>3 DEF vars
<1>4. CASE Next
  BY <1>2, <1>4, StageLeavesDue, ListingLeavesDue, FaultsLeaveDue, StartLeavesDue, UploadsLeaveDue,
     PipelineAssumption DEF Next, Progress, PipelineStep
<1> QED BY <1>3, <1>4

\* No uploaded version falls between the queue and the worker: until it is READY or FAILED its job
\* is queued, waits for the creator or has a run under way, however many stages throw and workers
\* die or stall, also when a run that was taken for dead ends the job another run is working on.
\* The one exception is a job thrown by a rejection that no stage catches (pipeline.ts:9, 30, 34).
THEOREM VersionComesDue == Spec => []VersionIsDue
<1>1. Init => DueInv
  <2> SUFFICES ASSUME Init PROVE DueInv
    OBVIOUS
  <2>1. \A v \in Versions : upload[v] = "new" /\ job[v] = "none"
    BY DEF Init
  <2>2. \A v \in Versions, r \in Runs : run[v][r].step = "idle" /\ run[v][r].stage = 0
    BY DEF Init
  <2> QED BY <2>1, <2>2 DEF DueInv, VersionIsDue, JobFollowsUpload, PastListing
<1>2. DueInv => VersionIsDue
  BY DEF DueInv
<1> QED BY <1>1, <1>2, InitOK, NextKeeps, DueStep, PTL DEF Spec
=============================================================================
