---------------------------- MODULE JobPipeline ----------------------------
(***************************************************************************)
(* The checkpointed job pipeline: execute_job (processor/job.rs) driving   *)
(* the stages of one job, with the progress tracker of                     *)
(* processor/progress.rs that saves a checkpoint file after every stage,   *)
(* and the attempts execute_with_retry (processor/retry.rs) makes.         *)
(*                                                                         *)
(* One process executes one job at a time.  What survives it is on disk:   *)
(* the checkpoint and the exports in the output folder, and the frames,    *)
(* the reconstruction and the trained model in the temp folder.  A file is *)
(* modelled by its provenance, the set of jobs whose videos went into it;  *)
(* {} is a file that does not exist.                                       *)
(*                                                                         *)
(* OutputOf and TempOf say which folders a job runs with.  The watch mode  *)
(* of main.rs gives every job the same two; batch.rs gives a job an output *)
(* folder of its own, and runs one job per process.                        *)
(***************************************************************************)
EXTENDS Naturals, FiniteSets

CONSTANTS
  Jobs,          \* job identifiers: the names of the input folders
  NoJob,         \* not a job
  OutputDirs,    \* output folders
  TempDirs,      \* working folders
  NoDir,         \* not a working folder
  OutputOf,      \* OutputOf[j]: the output folder job j runs with
  TempOf,        \* TempOf[j]: the working folder job j runs with
  FrameFiles,    \* names of frame images: videoNN_frameNNNNNN.jpg
  FilesOf,       \* FilesOf[j]: the names the frames of job j are copied to
  NoCkpt,        \* there is no checkpoint file
  Torn,          \* the checkpoint file cannot be deserialized
  ResumeWindow,  \* 24 hours, the age at which a checkpoint is not resumed
  MaxAttempts,   \* max_retries + 1
  MaxCrashes,    \* bound on the number of crashes
  MaxTime        \* bound on the clock

Validation           == 0
FrameExtraction      == 1
MetadataExtraction   == 2
ManifestGeneration   == 3
ColmapReconstruction == 4
Training             == 5
PlyExport            == 6
SplatExport          == 7
Completed            == 8
Stages == Validation .. Completed

\* The JobCheckpoint record, reduced to the fields later stages read.
Checkpoint ==
  [job : Jobs, stage : Stages, time : 0 .. MaxTime,
   frames : Jobs \union {NoJob}, model : TempDirs \union {NoDir},
   ply : Jobs \union {NoJob}]

ASSUME JobsAssumption ==
  /\ NoJob \notin Jobs
  /\ NoDir \notin TempDirs
  /\ OutputOf \in [Jobs -> OutputDirs]
  /\ TempOf \in [Jobs -> TempDirs]
  /\ FilesOf \in [Jobs -> (SUBSET FrameFiles) \ {{}}]
ASSUME CkptAssumption ==
  /\ NoCkpt \notin Checkpoint
  /\ Torn \notin Checkpoint
  /\ NoCkpt # Torn
ASSUME BoundsAssumption ==
  /\ ResumeWindow \in Nat \ {0}
  /\ MaxAttempts \in Nat \ {0}
  /\ MaxCrashes \in Nat
  /\ MaxTime \in Nat

VARIABLES
  now,        \* the system clock
  ckpt,       \* ckpt[o]: the file .checkpoint.json of output folder o
  manifest,   \* manifest[o]: the file manifest.json of output folder o
  images,     \* images[t][f]: whose frame is in file f of t/images
  sparse,     \* sparse[t]: t/colmap, with its database and sparse model
  model,      \* model[t]: t/output, the trained model
  ply,        \* ply[j]: the file <j>.ply in the output folder of j
  splat,      \* splat[j]: the file <j>.splat in the output folder of j
  job,        \* the job execute_job runs, or NoJob
  at,         \* the numbered step of execute_job_internal it is in
  phase,      \* "idle", "work", "record", "advance" or "failed"
  tracker,    \* the ProgressTracker in memory
  unread,     \* folders with a checkpoint that the attempt could not read
  frames,     \* local frame_sets: whose videos the frames come from
  modelAt,    \* local model_output: the working folder of the model file
  err,        \* class of the last error, "none", "retryable" or "permanent"
  attempt,    \* attempt number of the running job
  outcome,    \* outcome[j]: "none", "success" or "failed"
  crashes     \* crashes so far

disk  == <<ckpt, manifest, images, sparse, model, ply, splat>>
local == <<tracker, frames, modelAt>>
vars  == <<now, ckpt, manifest, images, sparse, model, ply, splat, job, at,
           phase, tracker, unread, frames, modelAt, err, attempt, outcome, crashes>>

-----------------------------------------------------------------------------
(* Checkpoints. *)

\* ProgressTracker::new: nothing is written to disk yet.
Fresh(j) == [job |-> j, stage |-> Validation, time |-> now, frames |-> NoJob,
             model |-> NoDir, ply |-> NoJob]

\* Variant of CanResume: a completed checkpoint passes for one to be resumed.
CanResumeCompleted(c) == now - c.time < ResumeWindow

\* JobCheckpoint::can_resume.
CanResume(c) == c.stage # Completed /\ now - c.time < ResumeWindow

\* The checkpoint file of folder o exists and deserializes.
Loadable(o) == ckpt[o] \notin {NoCkpt, Torn}

\* Variant of TryResume: every attempt starts from the first stage.
TryResumeNever(j, readable) == Fresh(j)

\* try_resume with the fallbacks of execute_job: a missing, torn, old or
\* completed checkpoint means a fresh start, and so does an intact one when
\* reading it fails.  The job the checkpoint belongs to is not looked at.
TryResume(j, readable) ==
  IF readable /\ Loadable(OutputOf[j]) /\ CanResume(ckpt[OutputOf[j]])
  THEN ckpt[OutputOf[j]]
  ELSE Fresh(j)

\* JobCheckpoint::save, when all goes well: the file is rewritten in place, the
\* one the attempt may have failed to read included.
Save(c) ==
  /\ ckpt' = [ckpt EXCEPT ![OutputOf[c.job]] = c]
  /\ unread' = {}

\* The same when it does not: std::fs::write truncates before it writes, so a
\* failed or interrupted save leaves the old file or a torn one.
SaveBroken(c) ==
  \E left \in {ckpt[OutputOf[c.job]], Torn} :
    ckpt' = [ckpt EXCEPT ![OutputOf[c.job]] = left]

-----------------------------------------------------------------------------
TypeOK ==
  /\ now \in 0 .. MaxTime
  /\ ckpt \in [OutputDirs -> Checkpoint \union {NoCkpt, Torn}]
  /\ manifest \in [OutputDirs -> SUBSET Jobs]
  /\ images \in [TempDirs -> [FrameFiles -> Jobs \union {NoJob}]]
  /\ sparse \in [TempDirs -> SUBSET Jobs]
  /\ model \in [TempDirs -> SUBSET Jobs]
  /\ ply \in [Jobs -> SUBSET Jobs]
  /\ splat \in [Jobs -> SUBSET Jobs]
  /\ job \in Jobs \union {NoJob}
  /\ at \in Stages
  /\ phase \in {"idle", "work", "record", "advance", "failed"}
  /\ tracker \in Checkpoint \union {NoCkpt}
  /\ unread \subseteq OutputDirs
  /\ frames \in Jobs \union {NoJob}
  /\ modelAt \in TempDirs \union {NoDir}
  /\ err \in {"none", "retryable", "permanent"}
  /\ attempt \in 0 .. MaxAttempts
  /\ outcome \in [Jobs -> {"none", "success", "failed"}]
  /\ crashes \in 0 .. MaxCrashes
  /\ phase \in {"work", "record", "advance"} => job \in Jobs /\ tracker \in Checkpoint
  /\ phase = "failed" => job \in Jobs

Init ==
  /\ now = 0
  /\ ckpt = [o \in OutputDirs |-> NoCkpt]
  /\ manifest = [o \in OutputDirs |-> {}]
  /\ images = [t \in TempDirs |-> [f \in FrameFiles |-> NoJob]]
  /\ sparse = [t \in TempDirs |-> {}]
  /\ model = [t \in TempDirs |-> {}]
  /\ ply = [j \in Jobs |-> {}]
  /\ splat = [j \in Jobs |-> {}]
  /\ job = NoJob
  /\ at = Validation
  /\ phase = "idle"
  /\ tracker = NoCkpt
  /\ unread = {}
  /\ frames = NoJob
  /\ modelAt = NoDir
  /\ err = "none"
  /\ attempt = 0
  /\ outcome = [j \in Jobs |-> "none"]
  /\ crashes = 0

-----------------------------------------------------------------------------
(* Starting an attempt. *)

\* The opening of execute_job: resume, or start from the first stage.
Begin(j) ==
  /\ \E readable \in BOOLEAN :
       /\ tracker' = TryResume(j, readable)
       /\ unread' = { o \in OutputDirs : ~ readable /\ o = OutputOf[j] /\ Loadable(o) }
  /\ at' = Validation
  /\ phase' = "work"
  /\ frames' = NoJob
  /\ modelAt' = NoDir
  /\ err' = "none"

\* execute_job has returned, or the process is gone: its locals are too.
Idle ==
  /\ job' = NoJob
  /\ at' = Validation
  /\ phase' = "idle"
  /\ tracker' = NoCkpt
  /\ unread' = {}
  /\ frames' = NoJob
  /\ modelAt' = NoDir
  /\ err' = "none"
  /\ attempt' = 0

\* The caller hands over a job whose result it does not have yet.
StartJob(j) ==
  /\ phase = "idle"
  /\ outcome[j] = "none"
  /\ job' = j
  /\ attempt' = 1
  /\ Begin(j)
  /\ UNCHANGED <<now, disk, outcome, crashes>>

\* Variant of Retry: one attempt too many.
RetryTooOften ==
  /\ phase = "failed"
  /\ err = "retryable"
  /\ attempt <= MaxAttempts
  /\ attempt' = attempt + 1
  /\ Begin(job)
  /\ UNCHANGED <<now, disk, job, outcome, crashes>>

\* Variant of Retry: the attempts are not counted.
RetryUncounted ==
  /\ phase = "failed"
  /\ err = "retryable"
  /\ attempt < MaxAttempts
  /\ attempt' = attempt
  /\ Begin(job)
  /\ UNCHANGED <<now, disk, job, outcome, crashes>>

\* execute_with_retry: the error is retryable and attempts are left.
Retry ==
  /\ phase = "failed"
  /\ err = "retryable"
  /\ attempt < MaxAttempts
  /\ attempt' = attempt + 1
  /\ Begin(job)
  /\ UNCHANGED <<now, disk, job, outcome, crashes>>

\* execute_with_retry returns the failed result to its caller.
GiveUp ==
  /\ phase = "failed"
  /\ err = "permanent" \/ attempt = MaxAttempts
  /\ outcome' = [outcome EXCEPT ![job] = "failed"]
  /\ Idle
  /\ UNCHANGED <<now, disk, crashes>>

-----------------------------------------------------------------------------
(* The numbered steps of execute_job_internal.  A step compares the stage of *)
(* the tracker with its own: it is due, or it is past.                       *)

Due(k)  == phase = "work" /\ at = k /\ tracker.stage = k
Past(k) == phase = "work" /\ at = k /\ tracker.stage # k

\* Variant of NextStep: the last export counts as finalizing.
NextStepEarly ==
  /\ at' = at + 1
  /\ phase' = IF at + 1 >= SplatExport THEN "advance" ELSE "work"

\* Control moves on to the next step; the last one only finalizes.
NextStep ==
  /\ at' = at + 1
  /\ phase' = IF at + 1 = Completed THEN "advance" ELSE "work"

Goto(p) == at' = at /\ phase' = p

\* The jobs whose frames are among the images of a folder.
Owners(folder) == { j \in Jobs : \E f \in FrameFiles : folder[f] = j }

\* train finds images and a sparse model in working folder t.
Trainable(t) == Owners(images[t]) # {} /\ sparse[t] # {}

saving == <<now, job, err, attempt, outcome, crashes>>
kept == <<saving, unread>>

\* A step has nothing to do: the stage is past and its results are not needed,
\* or (metadata) it only reads the videos again.
SkipStage ==
  /\ \E k \in Stages \ {FrameExtraction, Training, Completed} : Past(k)
  /\ NextStep
  /\ UNCHANGED <<kept, disk, local>>

Validate ==
  /\ Due(Validation)
  /\ Goto("record")
  /\ UNCHANGED <<kept, disk, local>>

\* process_videos, either because the stage is due or because the cached
\* frames are missing or changed.
ExtractFrames ==
  /\ phase = "work" /\ at = FrameExtraction
  /\ frames' = job
  /\ Goto("record")
  /\ UNCHANGED <<kept, disk, tracker, modelAt>>

\* get_cached_frames finds a recorded frame set that is still intact.
UseCachedFrames ==
  /\ Past(FrameExtraction)
  /\ tracker.frames # NoJob
  /\ frames' = tracker.frames
  /\ NextStep
  /\ UNCHANGED <<kept, disk, tracker, modelAt>>

ExtractMetadata ==
  /\ Due(MetadataExtraction)
  /\ Goto("advance")
  /\ UNCHANGED <<kept, disk, local>>

GenerateManifest ==
  /\ Due(ManifestGeneration)
  /\ manifest' = [manifest EXCEPT ![OutputOf[job]] = {job, frames}]
  /\ Goto("record")
  /\ UNCHANGED <<kept, ckpt, images, sparse, model, ply, splat, local>>

\* copy_frames_to_colmap_dir: the files in S get the frames of the job's frame
\* set, whatever else is in the folder stays.
Copied(S) ==
  [images EXCEPT ![TempOf[job]] =
     [f \in FrameFiles |-> IF f \in S THEN frames ELSE images[TempOf[job]][f]]]

\* Copy every frame, then reconstruct from all the images in the folder.  The
\* work folder is not emptied, and the tool may reuse what it finds there.
Reconstruct ==
  /\ Due(ColmapReconstruction)
  /\ images' = Copied(FilesOf[frames])
  /\ \E reused \in {{}, sparse[TempOf[job]]} :
       sparse' = [sparse EXCEPT ![TempOf[job]] = Owners(images'[TempOf[job]]) \union reused]
  /\ Goto("record")
  /\ UNCHANGED <<kept, ckpt, manifest, model, ply, splat, local>>

\* backend.train on all the images and the sparse model of the working folder,
\* either because the stage is due or because the recorded model is gone.
Train ==
  LET t == TempOf[job] IN
  /\ \/ Due(Training)
     \/ Past(Training) /\ (tracker.model = NoDir \/ model[tracker.model] = {})
  /\ Trainable(t)
  /\ model' = [model EXCEPT ![t] = Owners(images[t]) \union sparse[t]]
  /\ modelAt' = t
  /\ Goto("record")
  /\ UNCHANGED <<kept, ckpt, manifest, images, sparse, ply, splat, tracker, frames>>

\* get_cached_model: the recorded model file exists.
UseCachedModel ==
  /\ Past(Training)
  /\ tracker.model # NoDir
  /\ model[tracker.model] # {}
  /\ modelAt' = tracker.model
  /\ NextStep
  /\ UNCHANGED <<kept, disk, tracker, frames>>

ExportPly ==
  /\ Due(PlyExport)
  /\ model[modelAt] # {}
  /\ ply' = [ply EXCEPT ![job] = model[modelAt]]
  /\ Goto("record")
  /\ UNCHANGED <<kept, ckpt, manifest, images, sparse, model, splat, local>>

ExportSplat ==
  /\ Due(SplatExport)
  /\ model[modelAt] # {}
  /\ splat' = [splat EXCEPT ![job] = model[modelAt]]
  /\ Goto("record")
  /\ UNCHANGED <<kept, ckpt, manifest, images, sparse, model, ply, local>>

-----------------------------------------------------------------------------
(* Recording a step in the checkpoint. *)

\* Variant of Recorded: the trained model is not recorded.
RecordedWithoutModel ==
  CASE at = FrameExtraction -> [tracker EXCEPT !.frames = frames]
    [] at = PlyExport       -> [tracker EXCEPT !.ply = job]
    [] OTHER                -> tracker

\* The setters of the tracker: set_frame_cache, set_model_output, set_ply_path;
\* the other ones record nothing that is read again.
Recorded ==
  CASE at = FrameExtraction -> [tracker EXCEPT !.frames = frames]
    [] at = Training        -> [tracker EXCEPT !.model = modelAt]
    [] at = PlyExport       -> [tracker EXCEPT !.ply = job]
    [] OTHER                -> tracker

\* A setter and its save.  A step redone for lost files does not advance.
Record ==
  /\ phase = "record"
  /\ tracker' = Recorded
  /\ Save(Recorded)
  /\ IF tracker.stage = at THEN Goto("advance") ELSE NextStep
  /\ UNCHANGED <<saving, manifest, images, sparse, model, ply, splat, frames, modelAt>>

\* advance_stage: the stage and the time are set in memory, then saved.
Advanced == [tracker EXCEPT !.stage = at + 1, !.time = now]

CompleteStage ==
  /\ phase = "advance"
  /\ at # Completed
  /\ tracker' = Advanced
  /\ Save(Advanced)
  /\ NextStep
  /\ UNCHANGED <<saving, manifest, images, sparse, model, ply, splat, frames, modelAt>>

\* finalize, and the successful result of execute_job.
Finalized == [tracker EXCEPT !.stage = Completed]

Finalize ==
  /\ phase = "advance"
  /\ at = Completed
  /\ Save(Finalized)
  /\ outcome' = [outcome EXCEPT ![job] = "success"]
  /\ Idle
  /\ UNCHANGED <<now, manifest, images, sparse, model, ply, splat, crashes>>

-----------------------------------------------------------------------------
(* Failures. *)

\* A save returns an error: the attempt fails.
SaveFails ==
  /\ phase \in {"record", "advance"}
  /\ SaveBroken(tracker)
  /\ phase' = "failed"
  /\ err' = "retryable"
  /\ UNCHANGED <<now, manifest, images, sparse, model, ply, splat, job, at, local,
                 unread, attempt, outcome, crashes>>

\* The outermost messages of a step that mention "validation".
Errors(k) == IF k \in {Validation, ColmapReconstruction}
             THEN {"retryable", "permanent"} ELSE {"retryable"}

\* The steps that do something even when they are past: the opening of the
\* attempt loads the backend, videos are discovered and read, frames and model
\* are looked up and redone.
Active == {Validation, FrameExtraction, MetadataExtraction, Training}

\* The work of a step fails.  Frames copied before the failure stay.
WorkFails ==
  /\ phase = "work"
  /\ Due(at) \/ at \in Active
  /\ \E e \in Errors(at) : err' = e
  /\ phase' = "failed"
  /\ IF Due(ColmapReconstruction)
     THEN \E S \in SUBSET FilesOf[frames] : images' = Copied(S)
     ELSE images' = images
  /\ UNCHANGED <<now, ckpt, manifest, sparse, model, ply, splat, job, at, local,
                 unread, attempt, outcome, crashes>>

\* The process dies.  A save it was in may leave a torn file, and a container
\* that is recreated loses the temp folders while the output folder is mounted.
Crash ==
  /\ phase # "idle"
  /\ crashes < MaxCrashes
  /\ crashes' = crashes + 1
  /\ \/ phase \in {"record", "advance"} /\ SaveBroken(tracker)
     \/ phase \notin {"record", "advance"} /\ ckpt' = ckpt
  /\ \/ UNCHANGED <<images, sparse, model>>
     \/ /\ images' = [t \in TempDirs |-> [f \in FrameFiles |-> NoJob]]
        /\ sparse' = [t \in TempDirs |-> {}]
        /\ model' = [t \in TempDirs |-> {}]
  /\ Idle
  /\ UNCHANGED <<now, manifest, ply, splat, outcome>>

Tick ==
  /\ now < MaxTime
  /\ now' = now + 1
  /\ UNCHANGED <<disk, job, at, phase, local, unread, err, attempt, outcome, crashes>>

\* Every job has its result.
AllDone ==
  /\ phase = "idle"
  /\ \A j \in Jobs : outcome[j] # "none"
  /\ UNCHANGED vars

-----------------------------------------------------------------------------
Work ==
  \/ SkipStage \/ Validate \/ ExtractFrames \/ UseCachedFrames \/ ExtractMetadata
  \/ GenerateManifest \/ Reconstruct \/ Train \/ UseCachedModel
  \/ ExportPly \/ ExportSplat \/ Record \/ CompleteStage \/ Finalize

\* What execute_with_retry does once it was called.
Run == Retry \/ GiveUp \/ Work \/ SaveFails \/ WorkFails

Step == (\E j \in Jobs : StartJob(j)) \/ Run

Next == Step \/ Crash \/ Tick \/ AllDone

Spec == Init /\ [][Next]_vars

-----------------------------------------------------------------------------
(* Properties. *)

\* What a checkpoint at a later stage must have recorded: the frames, the
\* model and the PLY file of the stages it says are over.
Complete(c) ==
  /\ c.stage > FrameExtraction => c.frames # NoJob
  /\ c.stage > Training => c.model # NoDir
  /\ c.stage > PlyExport => c.ply # NoJob

\* Whatever fails or crashes between the two saves of a stage, a checkpoint
\* that can be loaded never claims a stage whose result it has not recorded:
\* the setters save before complete_stage does (job.rs).
CheckpointComplete == \A o \in OutputDirs : Loadable(o) => Complete(ckpt[o])

\* A checkpoint that could still be resumed is never replaced by one of an
\* earlier stage, nor by one that jumps over a stage: no attempt, retry or
\* restart throws away the progress of the one before (try_resume), but for the
\* one whose own read of the checkpoint failed.  execute_job lets that attempt
\* start from the first stage and rewrite the file.
NoProgressDiscarded ==
  [][\A o \in OutputDirs :
       Loadable(o) /\ Loadable(o)' /\ CanResume(ckpt[o]) /\ o \notin unread
         => ckpt'[o].stage \in {ckpt[o].stage, ckpt[o].stage + 1}]_vars

\* When execute_job reports success, the checkpoint it leaves is not resumed by
\* the next job of the same output folder (finalize, can_resume).
SuccessRetiresCheckpoint ==
  [][\A j \in Jobs : outcome[j] # "success" /\ outcome'[j] = "success"
       => Loadable(OutputOf[j])' /\ ~ CanResume(ckpt[OutputOf[j]])']_vars

\* A job that is reported successful has both its exports, and nothing but its
\* own videos went into them.
OutputsAreOwn ==
  \A j \in Jobs : outcome[j] = "success" => ply[j] = {j} /\ splat[j] = {j}

\* No two jobs run with the same output folder or the same working folder.
Separate ==
  \A i, j \in Jobs : i # j => OutputOf[i] # OutputOf[j] /\ TempOf[i] # TempOf[j]

\* How much is left of the current step, of the attempt and of the job: every
\* attempt walks through the steps at most once, and a step has three phases.
Rank(p) ==
  CASE p = "work" -> 3 [] p = "record" -> 2 [] p = "advance" -> 1 [] OTHER -> 0

Remaining == 36 * (MaxAttempts - attempt) + 4 * (Completed - at) + Rank(phase)

\* A step brings the job that runs nearer to its end: it stays with this job
\* and leaves less to do, or it returns the job's result.  The clock leaves as
\* much to do as before, and only a crash ends a job without a result.
Nearer ==
  phase # "idle" =>
    \/ /\ phase' # "idle" /\ job' = job
       /\ Remaining' < Remaining \/ (now' > now /\ Remaining' = Remaining)
    \/ phase' = "idle" /\ (outcome'[job] # "none" \/ crashes' > crashes)

\* No call of execute_with_retry goes on for ever, whatever fails, is retried or
\* is resumed on the way: an attempt never goes back to a step it has passed, and
\* the attempts are bounded.
RunEnds == [][Nearer]_vars

=============================================================================
