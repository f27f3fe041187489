------------------------- MODULE JobPipelineProofs -------------------------
(***************************************************************************)
(* Theorems about JobPipeline, for every set of jobs, every layout of the  *)
(* folders and every bound.                                                *)
(***************************************************************************)
EXTENDS JobPipeline, Integers, TLAPS

Running == phase \in {"work", "record", "advance"}

-----------------------------------------------------------------------------
(* The inductive invariants. *)

\* The clock never goes back, so no checkpoint is from the future.
TimesPast ==
  /\ \A o \in OutputDirs : Loadable(o) => ckpt[o].time <= now
  /\ Running => tracker.time <= now

\* Where the control is, the tracker has at least reached that stage, and a
\* stage that is about to be completed is recorded.
TrackerInv ==
  Running =>
    /\ at <= tracker.stage
    /\ Complete(tracker)
    /\ phase = "advance" => tracker.stage = at
    /\ phase = "record" => at \notin {MetadataExtraction, Completed}
    /\ phase = "record" /\ at = FrameExtraction => frames # NoJob
    /\ phase = "record" /\ at = Training => modelAt # NoDir
    /\ phase = "advance" /\ at = FrameExtraction => tracker.frames # NoJob
    /\ phase = "advance" /\ at = Training => tracker.model # NoDir
    /\ phase = "advance" /\ at = PlyExport => tracker.ply # NoJob
    /\ phase = "work" => at # Completed
    /\ phase = "record" /\ tracker.stage # at => at \in {FrameExtraction, Training}

\* As long as the checkpoint on disk can be resumed, it is at the stage the
\* running job has reached, unless its attempt could not read it and has saved
\* nothing yet.
DiskInStep ==
  Running =>
    LET o == OutputOf[tracker.job] IN
    o \notin unread /\ Loadable(o) /\ CanResume(ckpt[o]) => ckpt[o].stage = tracker.stage

-----------------------------------------------------------------------------
(* Types. *)

\* What the types rest on: only a step with something to record records, so
\* control never runs past the last step; and the local variables of
\* execute_job_internal are set once control is past the step that sets them.
Placed(k) == Running /\ (at > k \/ (at = k /\ phase # "work"))

LocalsSet ==
  /\ phase = "record" => at \notin {MetadataExtraction, Completed}
  /\ Placed(FrameExtraction) => frames \in Jobs
  /\ Placed(Training) => modelAt \in TempDirs

USE DEF Validation, FrameExtraction, MetadataExtraction, ManifestGeneration,
        ColmapReconstruction, Training, PlyExport, SplatExport, Completed

\* The trackers the actions build are checkpoints.
LEMMA TrackerTypes ==
  ASSUME TypeOK
  PROVE  /\ \A j \in Jobs : Fresh(j) \in Checkpoint
         /\ \A j \in Jobs, r \in BOOLEAN : TryResume(j, r) \in Checkpoint
         /\ tracker \in Checkpoint =>
              /\ job \in Jobs => Recorded \in Checkpoint
              /\ at # Completed => Advanced \in Checkpoint
              /\ Finalized \in Checkpoint
<1>1. ASSUME NEW j \in Jobs PROVE Fresh(j) \in Checkpoint
  BY DEF TypeOK, Fresh, Checkpoint, Stages
<1>2. ASSUME NEW j \in Jobs, NEW r \in BOOLEAN PROVE TryResume(j, r) \in Checkpoint
  BY <1>1, JobsAssumption DEF TypeOK, TryResume, Loadable
<1>3. ASSUME tracker \in Checkpoint, job \in Jobs PROVE Recorded \in Checkpoint
  BY <1>3 DEF TypeOK, Recorded, Checkpoint
<1>4. ASSUME tracker \in Checkpoint, at # Completed PROVE Advanced \in Checkpoint
  <2>1. at + 1 \in Stages /\ now \in 0 .. MaxTime
    BY <1>4 DEF TypeOK, Stages
  <2>2. QED
    BY <2>1, <1>4 DEF Advanced, Checkpoint
<1>5. ASSUME tracker \in Checkpoint PROVE Finalized \in Checkpoint
  BY <1>5 DEF Finalized, Checkpoint, Stages
<1>6. QED
  BY <1>1, <1>2, <1>3, <1>4, <1>5

\* A save, whole or broken, leaves a checkpoint file of the right type.
LEMMA SaveTypes ==
  ASSUME TypeOK, NEW c \in Checkpoint, Save(c) \/ SaveBroken(c)
  PROVE  ckpt' \in [OutputDirs -> Checkpoint \union {NoCkpt, Torn}]
<1>1. c.job \in Jobs /\ OutputOf[c.job] \in OutputDirs
  BY JobsAssumption DEF Checkpoint
<1>2. QED
  BY <1>1 DEF TypeOK, Save, SaveBroken

\* Copying frames leaves a folder of frames.
LEMMA CopiedType ==
  ASSUME TypeOK, job \in Jobs, NEW S
  PROVE  Copied(S) \in [TempDirs -> [FrameFiles -> Jobs \union {NoJob}]]
<1> DEFINE g == [f \in FrameFiles |->
                   IF f \in S THEN frames ELSE images[TempOf[job]][f]]
<1>1. TempOf[job] \in TempDirs
  BY JobsAssumption
<1>2. images[TempOf[job]] \in [FrameFiles -> Jobs \union {NoJob}]
  BY <1>1 DEF TypeOK
<1>3. g \in [FrameFiles -> Jobs \union {NoJob}]
  BY <1>2 DEF TypeOK
<1>4. Copied(S) = [images EXCEPT ![TempOf[job]] = g]
  BY DEF Copied
<1> HIDE DEF g
<1>5. QED
  BY <1>3, <1>4 DEF TypeOK

TypeInv == TypeOK /\ LocalsSet

\* Every action keeps the types.
LEMMA TypeStep ==
  ASSUME TypeInv, [Next]_vars
  PROVE  TypeInv'
<1> USE DEF TypeInv, LocalsSet, Placed, Running, kept, saving, disk, local, Goto, NextStep, Due, Past
<1>1. ASSUME NEW j \in Jobs, StartJob(j) PROVE TypeInv'
  BY <1>1, TrackerTypes, BoundsAssumption DEF TypeOK, StartJob, Begin, Stages
<1>2. CASE Retry
  BY <1>2, TrackerTypes, BoundsAssumption DEF TypeOK, Retry, Begin, Stages
<1>3. CASE GiveUp
  BY <1>3, BoundsAssumption DEF TypeOK, GiveUp, Idle, Stages
<1>4. CASE SkipStage
  BY <1>4 DEF TypeOK, SkipStage, Stages
<1>5. CASE Validate
  BY <1>5 DEF TypeOK, Validate, Stages
<1>6. CASE ExtractFrames
  BY <1>6 DEF TypeOK, ExtractFrames, Stages
<1>7. CASE UseCachedFrames
  <2>1. tracker.frames \in Jobs \union {NoJob}
    BY <1>7 DEF TypeOK, UseCachedFrames, Checkpoint
  <2>2. QED
    BY <1>7, <2>1 DEF TypeOK, UseCachedFrames, Stages
<1>8. CASE ExtractMetadata
  BY <1>8 DEF TypeOK, ExtractMetadata, Stages
<1>9. CASE GenerateManifest
  <2>1. OutputOf[job] \in OutputDirs /\ frames \in Jobs
    BY <1>9, JobsAssumption DEF TypeOK, GenerateManifest
  <2>2. QED
    BY <1>9, <2>1 DEF TypeOK, GenerateManifest, Stages
<1>10. CASE Reconstruct
  <2>1. images' \in [TempDirs -> [FrameFiles -> Jobs \union {NoJob}]]
    BY <1>10, CopiedType DEF TypeOK, Reconstruct
  <2>2. sparse' \in [TempDirs -> SUBSET Jobs]
    <3>1. TempOf[job] \in TempDirs
      BY <1>10, JobsAssumption DEF TypeOK, Reconstruct
    <3>2. PICK reused \in {{}, sparse[TempOf[job]]} :
            sparse' = [sparse EXCEPT ![TempOf[job]] =
                         Owners(images'[TempOf[job]]) \union reused]
      BY <1>10 DEF Reconstruct
    <3>3. Owners(images'[TempOf[job]]) \union reused \in SUBSET Jobs
      BY <3>1 DEF TypeOK, Owners
    <3>4. QED
      BY <3>2, <3>3 DEF TypeOK
  <2>3. QED
    BY <1>10, <2>1, <2>2 DEF TypeOK, Reconstruct, Stages
<1>11. CASE Train
  <2>1. TempOf[job] \in TempDirs
    BY <1>11, JobsAssumption DEF TypeOK, Train
  <2>2. model' \in [TempDirs -> SUBSET Jobs]
    BY <1>11 DEF TypeOK, Train, Owners
  <2>3. QED
    BY <1>11, <2>1, <2>2 DEF TypeOK, Train, Stages
<1>12. CASE UseCachedModel
  <2>1. tracker.model \in TempDirs \union {NoDir}
    BY <1>12 DEF TypeOK, UseCachedModel, Checkpoint
  <2>2. QED
    BY <1>12, <2>1 DEF TypeOK, UseCachedModel, Stages
<1>13. CASE ExportPly
  <2>1. model[modelAt] \in SUBSET Jobs
    BY <1>13 DEF TypeOK, ExportPly
  <2>2. ply' \in [Jobs -> SUBSET Jobs]
    BY <1>13, <2>1 DEF TypeOK, ExportPly
  <2>3. QED
    BY <1>13, <2>2 DEF TypeOK, ExportPly, Stages
<1>14. CASE ExportSplat
  <2>1. model[modelAt] \in SUBSET Jobs
    BY <1>14 DEF TypeOK, ExportSplat
  <2>2. splat' \in [Jobs -> SUBSET Jobs]
    BY <1>14, <2>1 DEF TypeOK, ExportSplat
  <2>3. QED
    BY <1>14, <2>2 DEF TypeOK, ExportSplat, Stages
<1>15. CASE Record
  <2>1. Recorded \in Checkpoint
    BY <1>15, TrackerTypes DEF TypeOK, Record
  <2>2. ckpt' \in [OutputDirs -> Checkpoint \union {NoCkpt, Torn}]
    BY <1>15, <2>1, SaveTypes DEF Record
  <2>3. QED
    BY <1>15, <2>1, <2>2 DEF TypeOK, Record, Save, Stages
<1>16. CASE CompleteStage
  <2>1. Advanced \in Checkpoint
    BY <1>16, TrackerTypes DEF TypeOK, CompleteStage
  <2>2. ckpt' \in [OutputDirs -> Checkpoint \union {NoCkpt, Torn}]
    BY <1>16, <2>1, SaveTypes DEF CompleteStage
  <2>3. QED
    BY <1>16, <2>1, <2>2 DEF TypeOK, CompleteStage, Save, Stages
<1>17. CASE Finalize
  <2>1. Finalized \in Checkpoint
    BY <1>17, TrackerTypes DEF TypeOK, Finalize
  <2>2. ckpt' \in [OutputDirs -> Checkpoint \union {NoCkpt, Torn}]
    BY <1>17, <2>1, SaveTypes DEF Finalize
  <2>3. QED
    BY <1>17, <2>2, BoundsAssumption DEF TypeOK, Finalize, Idle, Stages
<1>18. CASE SaveFails
  <2>1. ckpt' \in [OutputDirs -> Checkpoint \union {NoCkpt, Torn}]
    BY <1>18, SaveTypes DEF TypeOK, SaveFails
  <2>2. QED
    BY <1>18, <2>1 DEF TypeOK, SaveFails, Stages
<1>19. CASE WorkFails
  <2>1. images' \in [TempDirs -> [FrameFiles -> Jobs \union {NoJob}]]
    BY <1>19, CopiedType DEF TypeOK, WorkFails
  <2>2. err' \in {"none", "retryable", "permanent"}
    BY <1>19 DEF WorkFails, Errors
  <2>3. QED
    BY <1>19, <2>1, <2>2 DEF TypeOK, WorkFails, Stages
<1>20. CASE Crash
  <2>1. ckpt' \in [OutputDirs -> Checkpoint \union {NoCkpt, Torn}]
    BY <1>20, SaveTypes DEF TypeOK, Crash
  <2>2. images' \in [TempDirs -> [FrameFiles -> Jobs \union {NoJob}]]
        /\ sparse' \in [TempDirs -> SUBSET Jobs] /\ model' \in [TempDirs -> SUBSET Jobs]
    BY <1>20 DEF TypeOK, Crash
  <2>3. crashes' \in 0 .. MaxCrashes
    BY <1>20, BoundsAssumption DEF TypeOK, Crash
  <2>4. QED
    BY <1>20, <2>1, <2>2, <2>3, BoundsAssumption DEF TypeOK, Crash, Idle, Stages
<1>21. CASE Tick
  <2>1. now' \in 0 .. MaxTime
    BY <1>21, BoundsAssumption DEF TypeOK, Tick
  <2>2. QED
    BY <1>21, <2>1 DEF TypeOK, Tick, Stages
<1>22. CASE UNCHANGED vars
  BY <1>22 DEF TypeOK, vars
<1>23. QED
  BY <1>1, <1>2, <1>3, <1>4, <1>5, <1>6, <1>7, <1>8, <1>9, <1>10, <1>11, <1>12,
     <1>13, <1>14, <1>15, <1>16, <1>17, <1>18, <1>19, <1>20, <1>21, <1>22
     DEF Next, Step, Run, Work, AllDone

\* The types hold before the first job.
LEMMA TypeInit == Init => TypeInv
<1> SUFFICES ASSUME Init PROVE TypeInv
  OBVIOUS
<1>1. TypeOK
  BY BoundsAssumption DEF Init, TypeOK, Stages
<1>2. QED
  BY <1>1 DEF Init, TypeInv, LocalsSet, Placed, Running

\* The types of the variables are right in every state, for any folder layout.
THEOREM TypeCorrect == Spec => []TypeOK
<1>1. TypeInv /\ [Next]_vars => TypeInv'
  BY TypeStep
<1>2. TypeInv => TypeOK
  BY DEF TypeInv
<1>3. QED
  BY TypeInit, <1>1, <1>2, PTL DEF Spec

-----------------------------------------------------------------------------
(* A loadable checkpoint has recorded what its stage says is over. *)

TrackInv == TrackerInv /\ CheckpointComplete

\* A save of a complete checkpoint, whole or broken, keeps the files complete.
LEMMA SaveComplete ==
  ASSUME TypeOK, CheckpointComplete, NEW c \in Checkpoint, Complete(c),
         Save(c) \/ SaveBroken(c)
  PROVE  CheckpointComplete'
<1> SUFFICES ASSUME NEW o \in OutputDirs, Loadable(o)'
             PROVE  Complete(ckpt'[o])
  BY DEF CheckpointComplete, Complete
<1>1. ckpt'[o] \in {ckpt[o], c, Torn}
  BY DEF TypeOK, Save, SaveBroken
<1>2. ckpt'[o] # Torn /\ (ckpt'[o] = ckpt[o] => Loadable(o))
  BY DEF Loadable
<1>3. QED
  BY <1>1, <1>2 DEF CheckpointComplete

\* What an attempt begins with is complete.
LEMMA BeginComplete ==
  ASSUME TypeOK, CheckpointComplete, NEW j \in Jobs, NEW r \in BOOLEAN
  PROVE  Complete(TryResume(j, r)) /\ TryResume(j, r).stage \in Stages
<1>1. OutputOf[j] \in OutputDirs
  BY JobsAssumption
<1>2. Complete(Fresh(j))
  BY DEF Complete, Fresh
<1>3. TryResume(j, r) \in Checkpoint
  BY TrackerTypes
<1>4. QED
  BY <1>1, <1>2, <1>3 DEF TryResume, CheckpointComplete, Checkpoint

\* Every action keeps the tracker at or past the step it is in, and the saved
\* checkpoints complete.
LEMMA TrackStep ==
  ASSUME TypeInv, TrackInv, [Next]_vars
  PROVE  TrackInv'
<1> USE DEF TypeInv, TrackInv, Running, kept, saving, disk, local, Goto, NextStep, Due, Past
<1>a. Running => tracker \in Checkpoint /\ tracker.stage \in Stages /\ job \in Jobs
  BY DEF TypeOK, Checkpoint
<1>b. at \in Stages
  BY DEF TypeOK
<1>c. ASSUME ckpt' = ckpt PROVE CheckpointComplete'
  BY <1>c DEF CheckpointComplete, Loadable, Complete
<1>1. ASSUME NEW j \in Jobs, StartJob(j) PROVE TrackInv'
  <2>1. TrackerInv'
    BY <1>1, BeginComplete DEF StartJob, Begin, TrackerInv, Complete, Stages
  <2>2. QED
    BY <1>1, <2>1, <1>c DEF StartJob
<1>2. CASE Retry
  <2>1. job \in Jobs
    BY <1>2 DEF Retry, TypeOK
  <2>2. TrackerInv'
    BY <1>2, <2>1, BeginComplete DEF Retry, Begin, TrackerInv, Complete, Stages
  <2>3. QED
    BY <1>2, <2>2, <1>c DEF Retry
<1>3. CASE GiveUp
  BY <1>3, <1>c DEF GiveUp, Idle, TrackerInv
<1>4. CASE SkipStage
  BY <1>4, <1>a, <1>b, <1>c DEF SkipStage, TrackerInv, Complete, Stages
<1>5. CASE Validate
  BY <1>5, <1>c DEF Validate, TrackerInv, Complete
<1>6. CASE ExtractFrames
  BY <1>6, <1>a, <1>c, JobsAssumption DEF ExtractFrames, TrackerInv, Complete
<1>7. CASE UseCachedFrames
  BY <1>7, <1>a, <1>c DEF UseCachedFrames, TrackerInv, Complete, Stages
<1>8. CASE ExtractMetadata
  BY <1>8, <1>c DEF ExtractMetadata, TrackerInv, Complete
<1>9. CASE GenerateManifest
  BY <1>9, <1>c DEF GenerateManifest, TrackerInv, Complete
<1>10. CASE Reconstruct
  BY <1>10, <1>c DEF Reconstruct, TrackerInv, Complete
<1>11. CASE Train
  <2>1. TempOf[job] # NoDir
    BY <1>11, <1>a, JobsAssumption DEF Train
  <2>2. QED
    BY <1>11, <2>1, <1>c DEF Train, TrackerInv, Complete
<1>12. CASE UseCachedModel
  BY <1>12, <1>a, <1>c DEF UseCachedModel, TrackerInv, Complete, Stages
<1>13. CASE ExportPly
  BY <1>13, <1>c DEF ExportPly, TrackerInv, Complete
<1>14. CASE ExportSplat
  BY <1>14, <1>c DEF ExportSplat, TrackerInv, Complete
<1>15. CASE Record
  <2>1. Recorded \in Checkpoint
    BY <1>15, <1>a, TrackerTypes DEF Record
  <2>2. job # NoJob
    BY <1>15, <1>a, JobsAssumption DEF Record
  <2>3. /\ Recorded.stage = tracker.stage
        /\ Recorded.frames = IF at = FrameExtraction THEN frames ELSE tracker.frames
        /\ Recorded.model = IF at = Training THEN modelAt ELSE tracker.model
        /\ Recorded.ply = IF at = PlyExport THEN job ELSE tracker.ply
    BY <1>15, <1>a DEF Recorded, Checkpoint, Record
  <2>4. Complete(Recorded)
    BY <1>15, <2>2, <2>3 DEF Complete, TrackerInv, Record
  <2>5. CheckpointComplete'
    BY <1>15, <2>1, <2>4, SaveComplete DEF Record
  <2>6. TrackerInv'
    BY <1>15, <1>a, <1>b, <2>2, <2>3, <2>4 DEF Record, TrackerInv, Complete, Stages
  <2>7. QED
    BY <2>5, <2>6
<1>16. CASE CompleteStage
  <2>1. Advanced \in Checkpoint
    BY <1>16, <1>a, TrackerTypes DEF CompleteStage
  <2>2. /\ Advanced.stage = at + 1
        /\ Advanced.frames = tracker.frames
        /\ Advanced.model = tracker.model
        /\ Advanced.ply = tracker.ply
    BY <1>16, <1>a DEF Advanced, Checkpoint, CompleteStage
  <2>3. Complete(Advanced)
    BY <1>16, <1>b, <2>2 DEF Complete, TrackerInv, CompleteStage, Stages
  <2>4. CheckpointComplete'
    BY <1>16, <2>1, <2>3, SaveComplete DEF CompleteStage
  <2>5. TrackerInv'
    BY <1>16, <1>b, <2>2, <2>3 DEF CompleteStage, TrackerInv, Complete, Stages
  <2>6. QED
    BY <2>4, <2>5
<1>17. CASE Finalize
  <2>1. Finalized \in Checkpoint
    BY <1>17, <1>a, TrackerTypes DEF Finalize
  <2>2. Complete(Finalized)
    BY <1>17, <1>a DEF Finalize, Finalized, Complete, Checkpoint, TrackerInv
  <2>3. CheckpointComplete'
    BY <1>17, <2>1, <2>2, SaveComplete DEF Finalize
  <2>4. QED
    BY <1>17, <2>3 DEF Finalize, Idle, TrackerInv
<1>18. CASE SaveFails
  <2>1. CheckpointComplete'
    BY <1>18, <1>a, SaveComplete DEF SaveFails, TrackerInv
  <2>2. QED
    BY <1>18, <2>1 DEF SaveFails, TrackerInv
<1>19. CASE WorkFails
  BY <1>19, <1>c DEF WorkFails, TrackerInv
<1>20. CASE Crash
  <2>1. CheckpointComplete'
    BY <1>20, <1>a, <1>c, SaveComplete DEF Crash, TrackerInv
  <2>2. QED
    BY <1>20, <2>1 DEF Crash, Idle, TrackerInv
<1>21. CASE Tick
  BY <1>21, <1>c DEF Tick, TrackerInv, Complete
<1>22. CASE UNCHANGED vars
  BY <1>22, <1>c DEF vars, TrackerInv, Complete
<1>23. QED
  BY <1>1, <1>2, <1>3, <1>4, <1>5, <1>6, <1>7, <1>8, <1>9, <1>10, <1>11, <1>12,
     <1>13, <1>14, <1>15, <1>16, <1>17, <1>18, <1>19, <1>20, <1>21, <1>22
     DEF Next, Step, Run, Work, AllDone

\* There is no checkpoint and no tracker at the start.
LEMMA TrackInit == Init => TrackInv
  BY DEF Init, TrackInv, TrackerInv, CheckpointComplete, Running, Loadable

\* Whatever fails or crashes, a checkpoint that can be loaded has recorded the
\* frames, the model and the PLY file of the stages it says are over.
THEOREM CheckpointsAreComplete == Spec => []CheckpointComplete
<1>1. TypeInv /\ TrackInv /\ [Next]_vars => TypeInv' /\ TrackInv'
  BY TypeStep, TrackStep
<1>2. TrackInv => CheckpointComplete
  BY DEF TrackInv
<1>3. QED
  BY TypeInit, TrackInit, <1>1, <1>2, PTL DEF Spec

-----------------------------------------------------------------------------
(* Progress that can be resumed is kept. *)

\* A checkpoint lies in the output folder of the job it was made for.
AtHome == \A o \in OutputDirs : Loadable(o) => OutputOf[ckpt[o].job] = o

\* A resumed tracker may belong to another job, but only to one that runs with
\* the same output folder.
SameFolder == Running => OutputOf[tracker.job] = OutputOf[job]

DiskInv == TimesPast /\ DiskInStep /\ AtHome /\ SameFolder

\* What a step does to the checkpoints and the tracker: it begins an attempt,
\* leaves both alone, ends the attempt, saves, or lets the clock tick.
Begins(j) ==
  /\ ckpt' = ckpt /\ now' = now /\ job' = j
  /\ \E r \in BOOLEAN :
       /\ tracker' = TryResume(j, r)
       /\ unread' = { o \in OutputDirs : ~ r /\ o = OutputOf[j] /\ Loadable(o) }
Ends == ~ Running' /\ now' = now /\ (ckpt' = ckpt \/ (Running /\ SaveBroken(tracker)))
Saves(c) ==
  /\ Running /\ now' = now
  /\ Save(c)
  /\ c.job = tracker.job
  /\ c.time \in {tracker.time, now}
  /\ c.stage \in {tracker.stage, tracker.stage + 1}
  /\ Running' => tracker' = c /\ job' = job
Rests ==
  /\ ckpt' = ckpt /\ now' \in {now, now + 1}
  /\ phase' = phase /\ tracker' = tracker /\ unread' = unread /\ job' = job
Works ==
  /\ Running /\ ckpt' = ckpt /\ now' = now
  /\ tracker' = tracker /\ unread' = unread /\ job' = job

\* What any step does to the checkpoints and the tracker: it begins an attempt,
\* ends one, saves a tracker, or leaves both alone.
LEMMA StepEffect ==
  ASSUME TypeInv, TrackInv, [Next]_vars
  PROVE  \/ \E j \in Jobs : Begins(j)
         \/ Ends
         \/ \E c \in Checkpoint : Saves(c)
         \/ Rests
         \/ Works
<1> USE DEF Running, kept, saving, disk, local
<1>a. Running => tracker \in Checkpoint /\ job \in Jobs
  BY DEF TypeInv, TypeOK
<1>1. ASSUME NEW j \in Jobs, StartJob(j) PROVE Begins(j)
  BY <1>1 DEF StartJob, Begin, Begins
<1>2. CASE Retry
  BY <1>2 DEF Retry, Begin, Begins, TypeInv, TypeOK
<1>3. CASE GiveUp
  BY <1>3 DEF GiveUp, Idle, Ends
<1>4. CASE SkipStage \/ Validate \/ ExtractFrames \/ UseCachedFrames \/ ExtractMetadata
  BY <1>4 DEF Due, Past, SkipStage, Validate, ExtractFrames, UseCachedFrames,
              ExtractMetadata, Works
<1>5. CASE GenerateManifest \/ Reconstruct \/ Train \/ UseCachedModel
  BY <1>5 DEF Due, Past, GenerateManifest, Reconstruct, Train, UseCachedModel, Works
<1>6. CASE ExportPly \/ ExportSplat
  BY <1>6 DEF Due, ExportPly, ExportSplat, Works
<1>7. CASE Record
  <2>1. Recorded \in Checkpoint
    BY <1>7, <1>a, TrackerTypes DEF Record, TypeInv
  <2>2. Recorded.job = tracker.job /\ Recorded.time = tracker.time
        /\ Recorded.stage = tracker.stage
    BY <1>7, <1>a DEF Recorded, Checkpoint, Record
  <2>3. Saves(Recorded)
    BY <1>7, <2>2 DEF Record, Saves
  <2>4. QED
    BY <2>1, <2>3
<1>8. CASE CompleteStage
  <2>1. Advanced \in Checkpoint
    BY <1>8, <1>a, TrackerTypes DEF CompleteStage, TypeInv
  <2>2. Advanced.job = tracker.job /\ Advanced.time = now /\ Advanced.stage = at + 1
    BY <1>8, <1>a DEF Advanced, Checkpoint, CompleteStage
  <2>3. tracker.stage = at
    BY <1>8 DEF CompleteStage, TrackInv, TrackerInv
  <2>4. Saves(Advanced)
    BY <1>8, <2>2, <2>3 DEF CompleteStage, Saves
  <2>5. QED
    BY <2>1, <2>4
<1>9. CASE Finalize
  <2>1. Finalized \in Checkpoint
    BY <1>9, <1>a, TrackerTypes DEF Finalize, TypeInv
  <2>2. Finalized.job = tracker.job /\ Finalized.time = tracker.time
        /\ Finalized.stage = Completed
    BY <1>9, <1>a DEF Finalized, Checkpoint, Finalize
  <2>3. tracker.stage = Completed
    BY <1>9 DEF Finalize, TrackInv, TrackerInv
  <2>4. Saves(Finalized)
    BY <1>9, <2>2, <2>3 DEF Finalize, Idle, Saves
  <2>5. QED
    BY <2>1, <2>4
<1>10. CASE SaveFails
  BY <1>10 DEF SaveFails, Ends
<1>11. CASE WorkFails
  BY <1>11 DEF WorkFails, Works
<1>12. CASE Crash
  BY <1>12 DEF Crash, Idle, Ends
<1>13. CASE Tick
  BY <1>13 DEF Tick, Rests
<1>14. CASE UNCHANGED vars
  BY <1>14 DEF vars, Rests
<1>15. QED
  BY <1>1, <1>2, <1>3, <1>4, <1>5, <1>6, <1>7, <1>8, <1>9, <1>10, <1>11, <1>12,
     <1>13, <1>14 DEF Next, Step, Run, Work, AllDone

\* The folder a tracker is saved to, and what a save does to it and the others.
LEMMA SaveEffect ==
  ASSUME TypeOK, NEW c \in Checkpoint, Save(c) \/ SaveBroken(c), NEW o \in OutputDirs
  PROVE  /\ o # OutputOf[c.job] => ckpt'[o] = ckpt[o]
         /\ Save(c) => ckpt'[OutputOf[c.job]] = c
         /\ SaveBroken(c) => ckpt'[o] \in {ckpt[o], Torn}
<1>1. OutputOf[c.job] \in OutputDirs
  BY JobsAssumption DEF Checkpoint
<1>2. QED
  BY <1>1 DEF TypeOK, Save, SaveBroken

\* A new attempt: either the tracker is the checkpoint on disk, or the folder
\* holds nothing that can be resumed, or it could not be read.
LEMMA BeginInStep ==
  ASSUME TypeOK, DiskInv, NEW j \in Jobs, NEW r \in BOOLEAN
  PROVE  LET c == TryResume(j, r)
             o == OutputOf[j]
         IN  /\ c.time <= now
             /\ OutputOf[c.job] = o
             /\ r /\ Loadable(o) /\ CanResume(ckpt[o]) => c = ckpt[o]
<1>1. OutputOf[j] \in OutputDirs
  BY JobsAssumption
<1>2. Fresh(j).time = now /\ Fresh(j).job = j
  BY DEF Fresh
<1>3. now <= now
  BY DEF TypeOK
<1>4. QED
  BY <1>1, <1>2, <1>3 DEF TryResume, DiskInv, TimesPast, AtHome

\* The action of NoProgressDiscarded.
StepKept == \A o \in OutputDirs :
              Loadable(o) /\ Loadable(o)' /\ CanResume(ckpt[o]) /\ o \notin unread
                => ckpt'[o].stage \in {ckpt[o].stage, ckpt[o].stage + 1}

\* Every step keeps the checkpoint on disk in step with the running job, and
\* replaces no checkpoint by an earlier one.
LEMMA DiskStep ==
  ASSUME TypeInv, TypeInv', TrackInv, DiskInv, [Next]_vars
  PROVE  DiskInv' /\ StepKept
<1>a. TypeOK /\ TypeOK'
  BY DEF TypeInv
<1>b. Running => tracker \in Checkpoint
  BY <1>a DEF TypeOK, Running
<1>c. now \in Nat /\ now' \in Nat
  BY <1>a DEF TypeOK
<1>d. \A o \in OutputDirs : Loadable(o) => ckpt[o] \in Checkpoint
  BY <1>a DEF TypeOK, Loadable
<1>1. ASSUME NEW j \in Jobs, Begins(j) PROVE DiskInv' /\ StepKept
  <2>1. OutputOf[j] \in OutputDirs
    BY JobsAssumption
  <2>a. PICK r \in BOOLEAN :
          /\ tracker' = TryResume(j, r)
          /\ unread' = { o \in OutputDirs : ~ r /\ o = OutputOf[j] /\ Loadable(o) }
    BY <1>1 DEF Begins
  <2>2. TimesPast'
    BY <1>1, <2>a, <1>a, BeginInStep DEF Begins, DiskInv, TimesPast, Loadable
  <2>3. DiskInStep'
    <3>1. OutputOf[tracker'.job] = OutputOf[j]
      BY <2>a, <1>a, BeginInStep
    <3>2. ASSUME OutputOf[j] \notin unread', Loadable(OutputOf[j]), CanResume(ckpt[OutputOf[j]])
          PROVE  tracker' = ckpt[OutputOf[j]]
      BY <2>1, <2>a, <3>2 DEF TryResume
    <3>3. QED
      BY <1>1, <3>1, <3>2 DEF Begins, DiskInStep, Loadable, CanResume
  <2>4. SameFolder'
    BY <1>1, <2>a, <1>a, BeginInStep DEF Begins, SameFolder
  <2>5. QED
    BY <1>1, <2>2, <2>3, <2>4 DEF Begins, DiskInv, AtHome, StepKept, Loadable
<1>2. CASE Ends
  <2>1. \A o \in OutputDirs : ckpt'[o] \in {ckpt[o], Torn}
    BY <1>2, <1>a, <1>b, SaveEffect DEF Ends
  <2>2. \A o \in OutputDirs : Loadable(o)' => Loadable(o) /\ ckpt'[o] = ckpt[o]
    BY <2>1 DEF Loadable
  <2>3. TimesPast' /\ DiskInStep' /\ AtHome' /\ SameFolder'
    BY <1>2, <2>2 DEF Ends, DiskInv, TimesPast, DiskInStep, AtHome, SameFolder
  <2>4. QED
    BY <2>2, <2>3 DEF DiskInv, StepKept
<1>3. ASSUME NEW c \in Checkpoint, Saves(c) PROVE DiskInv' /\ StepKept
  <2>1. OutputOf[c.job] \in OutputDirs /\ c.job = tracker.job /\ tracker \in Checkpoint
    BY <1>3, <1>b, JobsAssumption DEF Checkpoint, Saves
  <2>2. /\ ckpt'[OutputOf[c.job]] = c
        /\ \A o \in OutputDirs : o # OutputOf[c.job] => ckpt'[o] = ckpt[o]
    <3>1. Save(c)
      BY <1>3 DEF Saves
    <3>2. QED
      BY <1>a, <2>1, <3>1, SaveEffect
  <2>3. c.time <= now'
    BY <1>3, <1>c DEF Saves, DiskInv, TimesPast
  <2>4. TimesPast'
    BY <1>3, <2>2, <2>3 DEF Saves, DiskInv, TimesPast, Loadable
  <2>5. DiskInStep'
    BY <1>3, <2>1, <2>2 DEF Saves, DiskInStep
  <2>6. AtHome'
    BY <1>3, <2>1, <2>2 DEF DiskInv, AtHome, Loadable
  <2>7. StepKept
    <3>1. SUFFICES ASSUME NEW o \in OutputDirs, Loadable(o), CanResume(ckpt[o]), o \notin unread
                   PROVE  ckpt'[o].stage \in {ckpt[o].stage, ckpt[o].stage + 1}
      BY DEF StepKept
    <3>2. CASE o = OutputOf[c.job]
      BY <1>3, <2>1, <2>2, <3>1, <3>2 DEF Saves, DiskInv, DiskInStep
    <3>3. CASE o # OutputOf[c.job]
      BY <2>2, <3>3
    <3>4. QED
      BY <3>2, <3>3
  <2>8. SameFolder'
    BY <1>3, <2>1 DEF Saves, DiskInv, SameFolder
  <2>9. QED
    BY <2>4, <2>5, <2>6, <2>7, <2>8 DEF DiskInv
<1>4. CASE Rests
  <2>1. Running' <=> Running
    BY <1>4 DEF Rests, Running
  <2>2. \A o \in OutputDirs : Loadable(o)' <=> Loadable(o)
    BY <1>4 DEF Rests, Loadable
  <2>3. ASSUME NEW o \in OutputDirs, Loadable(o), CanResume(ckpt[o])'
        PROVE  CanResume(ckpt[o])
    <3>1. ckpt[o].time \in Nat
      BY <1>d, <2>3 DEF Checkpoint
    <3>2. QED
      BY <1>4, <1>c, <2>3, <3>1, BoundsAssumption DEF Rests, CanResume
  <2>4. TimesPast'
    <3>1. \A o \in OutputDirs : Loadable(o) => ckpt[o].time \in Nat
      BY <1>d DEF Checkpoint
    <3>2. Running => tracker.time \in Nat
      BY <1>b DEF Checkpoint
    <3>3. QED
      BY <1>4, <1>c, <2>1, <2>2, <3>1, <3>2 DEF Rests, DiskInv, TimesPast
  <2>5. DiskInStep'
    <3>1. Running => OutputOf[tracker.job] \in OutputDirs
      BY <1>b, JobsAssumption DEF Checkpoint
    <3>2. QED
      BY <1>4, <2>1, <2>2, <2>3, <3>1 DEF Rests, DiskInv, DiskInStep
  <2>6. QED
    BY <1>4, <2>1, <2>2, <2>4, <2>5 DEF Rests, DiskInv, AtHome, SameFolder, StepKept
<1>5. CASE Works
  <2>1. \A o \in OutputDirs : (Loadable(o)' <=> Loadable(o))
                              /\ (CanResume(ckpt[o])' <=> CanResume(ckpt[o]))
    BY <1>5 DEF Works, Loadable, CanResume
  <2>2. OutputOf[tracker.job] \in OutputDirs
    BY <1>5, <1>b, JobsAssumption DEF Works, Checkpoint
  <2>3. TimesPast' /\ DiskInStep' /\ AtHome' /\ SameFolder'
    BY <1>5, <2>1, <2>2 DEF Works, DiskInv, TimesPast, DiskInStep, AtHome, SameFolder
  <2>4. QED
    BY <1>5, <2>3 DEF Works, DiskInv, StepKept
<1>6. QED
  BY <1>1, <1>2, <1>3, <1>4, <1>5, StepEffect

\* There is nothing on disk at the start.
LEMMA DiskInit == Init => DiskInv
  BY DEF Init, DiskInv, TimesPast, DiskInStep, AtHome, SameFolder, Running, Loadable

\* No attempt, retry, crash or restart replaces a checkpoint that could be
\* resumed by one of an earlier stage, or skips a stage; only the first save of
\* an attempt whose own read of that checkpoint failed does.
THEOREM ProgressIsKept == Spec => NoProgressDiscarded
<1>1. TypeInv /\ TrackInv /\ DiskInv /\ [Next]_vars
        => TypeInv' /\ TrackInv' /\ DiskInv' /\ [StepKept]_vars
  BY TypeStep, TrackStep, DiskStep
<1>2. Init => TypeInv /\ TrackInv /\ DiskInv
  BY TypeInit, TrackInit, DiskInit
<1>3. QED
  BY <1>1, <1>2, PTL DEF Spec, NoProgressDiscarded, StepKept

\* Only finalize reports success, and the checkpoint it saves is Completed.
LEMMA SuccessStep ==
  ASSUME TypeInv, DiskInv, [Next]_vars, NEW j \in Jobs,
         outcome[j] # "success", outcome'[j] = "success"
  PROVE  Loadable(OutputOf[j])' /\ ~ CanResume(ckpt[OutputOf[j]])'
<1>1. Finalize /\ j = job
  BY DEF TypeInv, TypeOK, kept, saving, disk, local, vars, Next, Step, Run, Work, StartJob,
         Retry, GiveUp, SkipStage, Validate, ExtractFrames, UseCachedFrames,
         ExtractMetadata, GenerateManifest, Reconstruct, Train, UseCachedModel,
         ExportPly, ExportSplat, Record, CompleteStage, Finalize, SaveFails,
         WorkFails, Crash, Tick, AllDone
<1>2. tracker \in Checkpoint /\ OutputOf[tracker.job] = OutputOf[job]
  BY <1>1 DEF Finalize, TypeInv, TypeOK, DiskInv, SameFolder, Running
<1>3. Finalized \in Checkpoint /\ Finalized.job = tracker.job
      /\ Finalized.stage = Completed
  BY <1>2, TrackerTypes DEF Finalized, Checkpoint, TypeInv
<1>4. ckpt'[OutputOf[j]] = Finalized
  <2>1. OutputOf[j] \in OutputDirs
    BY JobsAssumption
  <2>2. QED
    BY <1>1, <1>2, <1>3, <2>1, SaveEffect DEF Finalize, TypeInv
<1>5. QED
  BY <1>3, <1>4, CkptAssumption DEF Loadable, CanResume

\* A job that succeeds leaves no checkpoint the next job of its output folder
\* would resume.
THEOREM SuccessIsRetired == Spec => SuccessRetiresCheckpoint
<1> DEFINE Retired ==
      \A j \in Jobs : outcome[j] # "success" /\ outcome'[j] = "success"
        => Loadable(OutputOf[j])' /\ ~ CanResume(ckpt[OutputOf[j]])'
<1>1. TypeInv /\ TrackInv /\ DiskInv /\ [Next]_vars
        => TypeInv' /\ TrackInv' /\ DiskInv' /\ [Retired]_vars
  BY TypeStep, TrackStep, DiskStep, SuccessStep
<1>2. Init => TypeInv /\ TrackInv /\ DiskInv
  BY TypeInit, TrackInit, DiskInit
<1>3. QED
  BY <1>1, <1>2, PTL DEF Spec, SuccessRetiresCheckpoint

-----------------------------------------------------------------------------
(* With separate folders, jobs do not mix. *)

\* Nothing a working folder holds comes from a job that runs elsewhere.
OwnFiles ==
  \A t \in TempDirs : \A j \in Jobs :
    (\E f \in FrameFiles : images[t][f] = j) \/ j \in sparse[t] \/ j \in model[t]
      => TempOf[j] = t

\* A tracker or a checkpoint refers to files of its own job only.
OwnTracker(c) ==
  /\ c.frames \in {c.job, NoJob}
  /\ c.model \in {TempOf[c.job], NoDir}
  /\ c.stage > PlyExport => ply[c.job] = {c.job}

OwnCkpt == \A o \in OutputDirs : Loadable(o) => OwnTracker(ckpt[o])

\* So does a running job; and once it is past an export, the export is its own.
OwnRun ==
  Running =>
    /\ tracker.job = job
    /\ OwnTracker(tracker)
    /\ frames \in {job, NoJob}
    /\ modelAt \in {TempOf[job], NoDir}
    /\ at # Completed => tracker.stage # Completed
    /\ phase \in {"record", "advance"} /\ at = PlyExport => ply[job] = {job}
    /\ phase \in {"record", "advance"} /\ at = SplatExport => splat[job] = {job}
    /\ at = Completed => splat[job] = {job}

OwnInv == OwnFiles /\ OwnCkpt /\ OwnRun /\ OutputsAreOwn

\* A save of a tracker that refers to its own files only, whole or broken, leaves
\* only such checkpoints.
LEMMA SaveOwn ==
  ASSUME TypeOK, OwnCkpt, NEW c \in Checkpoint, OwnTracker(c),
         Save(c) \/ SaveBroken(c), ply' = ply
  PROVE  OwnCkpt'
<1> SUFFICES ASSUME NEW o \in OutputDirs, Loadable(o)'
             PROVE  OwnTracker(ckpt[o])'
  BY DEF OwnCkpt
<1>1. ckpt'[o] \in {ckpt[o], c, Torn}
  BY DEF TypeOK, Save, SaveBroken
<1>2. ckpt'[o] # Torn /\ (ckpt'[o] = ckpt[o] => Loadable(o))
  BY DEF Loadable
<1>3. QED
  BY <1>1, <1>2 DEF OwnCkpt, OwnTracker

\* The model an export of a running job reads is made of its own videos.
LEMMA ModelIsOwn ==
  ASSUME Separate, TypeOK, OwnFiles, job \in Jobs, modelAt = TempOf[job],
         model[modelAt] # {}
  PROVE  model[modelAt] = {job}
<1>1. modelAt \in TempDirs /\ model[modelAt] \in SUBSET Jobs
  BY JobsAssumption DEF TypeOK
<1>2. \A j \in model[modelAt] : j = job
  BY <1>1 DEF OwnFiles, Separate
<1>3. QED
  BY <1>2

\* The working folders after the frames of the running job were copied.
LEMMA CopiedOwn ==
  ASSUME TypeOK, OwnFiles, job \in Jobs, frames \in {job, NoJob}, NEW S,
         images' = Copied(S)
  PROVE  \A t \in TempDirs : \A j \in Jobs :
           (\E f \in FrameFiles : images'[t][f] = j) => TempOf[j] = t
<1> SUFFICES ASSUME NEW t \in TempDirs, NEW j \in Jobs, NEW f \in FrameFiles,
                    images'[t][f] = j
             PROVE  TempOf[j] = t
  OBVIOUS
<1> DEFINE g == [x \in FrameFiles |->
                   IF x \in S THEN frames ELSE images[TempOf[job]][x]]
<1>1. images' = [images EXCEPT ![TempOf[job]] = g]
  BY DEF Copied
<1>2. CASE t = TempOf[job]
  <2>1. images'[t] = g
    BY <1>1, <1>2 DEF TypeOK
  <2>2. j = frames \/ j = images[t][f]
    BY <2>1, <1>2
  <2>3. j = frames => j = job
    BY JobsAssumption
  <2>4. QED
    BY <1>2, <2>2, <2>3 DEF OwnFiles
<1>3. CASE t # TempOf[job]
  <2>1. images'[t] = images[t]
    BY <1>1, <1>3 DEF TypeOK
  <2>2. QED
    BY <2>1 DEF OwnFiles
<1>4. QED
  BY <1>2, <1>3

\* With folders of its own a job resumes only its own checkpoint.
LEMMA BeginOwn ==
  ASSUME Separate, TypeInv, DiskInv, OwnCkpt, NEW j \in Jobs, NEW r \in BOOLEAN
  PROVE  /\ TryResume(j, r).job = j
         /\ OwnTracker(TryResume(j, r))
         /\ TryResume(j, r).stage # Completed
<1>1. OutputOf[j] \in OutputDirs
  BY JobsAssumption
<1>2. Fresh(j).job = j /\ OwnTracker(Fresh(j)) /\ Fresh(j).stage # Completed
  BY DEF Fresh, OwnTracker
<1>3. ASSUME Loadable(OutputOf[j]) PROVE ckpt[OutputOf[j]].job = j
  <2>1. ckpt[OutputOf[j]] \in Checkpoint
    BY <1>1, <1>3 DEF TypeInv, TypeOK, Loadable
  <2>2. ckpt[OutputOf[j]].job \in Jobs
    BY <2>1 DEF Checkpoint
  <2>3. OutputOf[ckpt[OutputOf[j]].job] = OutputOf[j]
    BY <1>1, <1>3 DEF DiskInv, AtHome
  <2>4. QED
    BY <2>2, <2>3 DEF Separate
<1>4. QED
  BY <1>1, <1>2, <1>3 DEF TryResume, CanResume, OwnCkpt

\* With separate folders every action leaves to each job its own files.
LEMMA OwnStep ==
  ASSUME Separate, TypeInv, TrackInv, DiskInv, OwnInv, [Next]_vars
  PROVE  OwnInv'
<1> USE DEF OwnInv, Running, kept, saving, disk, local, Goto, NextStep, Due, Past
<1>a. Running => tracker \in Checkpoint /\ tracker.stage \in Stages /\ job \in Jobs
  BY DEF TypeInv, TypeOK, Checkpoint
<1>b. at \in Stages /\ TypeOK
  BY DEF TypeInv, TypeOK
<1>c. ASSUME ply' = ply, ckpt' = ckpt PROVE OwnCkpt'
  BY <1>c DEF OwnCkpt, OwnTracker, Loadable
<1>d. ASSUME images' = images, sparse' = sparse, model' = model PROVE OwnFiles'
  BY <1>d DEF OwnFiles
<1>e. ASSUME ply' = ply, splat' = splat, outcome' = outcome PROVE OutputsAreOwn'
  BY <1>e DEF OutputsAreOwn
<1>1. ASSUME NEW j \in Jobs, StartJob(j) PROVE OwnInv'
  BY <1>1, <1>c, <1>d, <1>e, BeginOwn DEF StartJob, Begin, OwnRun, OwnTracker
<1>2. CASE Retry
  <2>1. job \in Jobs
    BY <1>2 DEF Retry, TypeInv, TypeOK
  <2>2. QED
    BY <1>2, <2>1, <1>c, <1>d, <1>e, BeginOwn DEF Retry, Begin, OwnRun, OwnTracker
<1>3. CASE GiveUp
  BY <1>3, <1>c, <1>d DEF GiveUp, Idle, OwnRun, OutputsAreOwn, TypeInv, TypeOK
<1>4. CASE SkipStage
  <2>1. at + 1 # Completed
    BY <1>4, <1>a, <1>b DEF SkipStage, OwnRun, TrackInv, TrackerInv, Stages
  <2>2. QED
    BY <1>4, <2>1, <1>b, <1>c, <1>d, <1>e DEF SkipStage, OwnRun, OwnTracker, Stages
<1>5. CASE Validate
  BY <1>5, <1>c, <1>d, <1>e DEF Validate, OwnRun, OwnTracker
<1>6. CASE ExtractFrames
  BY <1>6, <1>c, <1>d, <1>e DEF ExtractFrames, OwnRun, OwnTracker
<1>7. CASE UseCachedFrames
  BY <1>7, <1>c, <1>d, <1>e DEF UseCachedFrames, OwnRun, OwnTracker
<1>8. CASE ExtractMetadata
  BY <1>8, <1>c, <1>d, <1>e DEF ExtractMetadata, OwnRun, OwnTracker
<1>9. CASE GenerateManifest
  BY <1>9, <1>c, <1>d, <1>e DEF GenerateManifest, OwnRun, OwnTracker
<1>10. CASE Reconstruct
  <2>1. PICK reused \in {{}, sparse[TempOf[job]]} :
          sparse' = [sparse EXCEPT ![TempOf[job]] =
                       Owners(images'[TempOf[job]]) \union reused]
    BY <1>10 DEF Reconstruct
  <2>2. TempOf[job] \in TempDirs
    BY <1>10, <1>a, JobsAssumption DEF Reconstruct
  <2>3. \A t \in TempDirs : \A j \in Jobs :
          (\E f \in FrameFiles : images'[t][f] = j) => TempOf[j] = t
    BY <1>10, <1>a, <1>b, CopiedOwn DEF Reconstruct, OwnRun
  <2>4. OwnFiles'
    BY <1>10, <1>b, <2>1, <2>2, <2>3 DEF Reconstruct, OwnFiles, Owners, TypeOK
  <2>5. QED
    BY <1>10, <2>4, <1>c, <1>e DEF Reconstruct, OwnRun, OwnTracker
<1>11. CASE Train
  <2>1. TempOf[job] \in TempDirs
    BY <1>11, <1>a, JobsAssumption DEF Train
  <2>2. OwnFiles'
    BY <1>11, <1>b, <2>1 DEF Train, OwnFiles, Owners, TypeOK
  <2>3. QED
    BY <1>11, <2>2, <1>c, <1>e DEF Train, OwnRun, OwnTracker
<1>12. CASE UseCachedModel
  BY <1>12, <1>c, <1>d, <1>e DEF UseCachedModel, OwnRun, OwnTracker
<1>13. CASE ExportPly
  <2>1. job \in Jobs /\ modelAt = TempOf[job]
    BY <1>13, <1>a, JobsAssumption DEF ExportPly, OwnRun, TypeInv, LocalsSet, Placed
  <2>2. ply' = [ply EXCEPT ![job] = {job}]
    BY <1>13, <1>b, <2>1, ModelIsOwn DEF ExportPly
  <2>3. ply'[job] = {job} /\ \A j \in Jobs : j # job => ply'[j] = ply[j]
    BY <1>b, <2>1, <2>2 DEF TypeOK
  <2>4. ASSUME NEW c \in Checkpoint, OwnTracker(c) PROVE OwnTracker(c)'
    BY <2>3, <2>4 DEF OwnTracker, Checkpoint
  <2>5. OwnCkpt'
    BY <1>13, <1>b, <2>4 DEF ExportPly, OwnCkpt, Loadable, TypeOK
  <2>6. OwnRun'
    BY <1>13, <1>a, <2>3, <2>4 DEF ExportPly, OwnRun
  <2>7. OutputsAreOwn'
    BY <1>13, <2>3 DEF ExportPly, OutputsAreOwn
  <2>8. QED
    BY <1>13, <1>d, <2>5, <2>6, <2>7 DEF ExportPly
<1>14. CASE ExportSplat
  <2>1. job \in Jobs /\ modelAt = TempOf[job]
    BY <1>14, <1>a, JobsAssumption DEF ExportSplat, OwnRun, TypeInv, LocalsSet, Placed
  <2>2. splat' = [splat EXCEPT ![job] = {job}]
    BY <1>14, <1>b, <2>1, ModelIsOwn DEF ExportSplat
  <2>3. splat'[job] = {job} /\ \A j \in Jobs : j # job => splat'[j] = splat[j]
    BY <1>b, <2>1, <2>2 DEF TypeOK
  <2>4. OwnRun'
    BY <1>14, <2>3 DEF ExportSplat, OwnRun, OwnTracker
  <2>5. OutputsAreOwn'
    BY <1>14, <2>3 DEF ExportSplat, OutputsAreOwn
  <2>6. QED
    BY <1>14, <1>c, <1>d, <2>4, <2>5 DEF ExportSplat
<1>15. CASE Record
  <2>1. Recorded \in Checkpoint
    BY <1>15, <1>a, <1>b, TrackerTypes DEF Record
  <2>2. /\ Recorded.job = tracker.job
        /\ Recorded.stage = tracker.stage
        /\ Recorded.frames = IF at = FrameExtraction THEN frames ELSE tracker.frames
        /\ Recorded.model = IF at = Training THEN modelAt ELSE tracker.model
    BY <1>15, <1>a DEF Recorded, Checkpoint, Record
  <2>3. OwnTracker(Recorded)
    BY <1>15, <2>2 DEF Record, OwnRun, OwnTracker
  <2>4. OwnCkpt'
    BY <1>15, <1>b, <2>1, <2>3, SaveOwn DEF Record
  <2>5. tracker.stage # at => at + 1 # Completed
    BY <1>15, <1>b DEF Record, TrackInv, TrackerInv
  <2>6. OwnRun'
    BY <1>15, <1>b, <2>2, <2>3, <2>5 DEF Record, OwnRun, OwnTracker, Stages
  <2>7. QED
    BY <1>15, <1>d, <1>e, <2>4, <2>6 DEF Record
<1>16. CASE CompleteStage
  <2>1. Advanced \in Checkpoint
    BY <1>16, <1>a, <1>b, TrackerTypes DEF CompleteStage
  <2>2. /\ Advanced.job = tracker.job
        /\ Advanced.stage = at + 1
        /\ Advanced.frames = tracker.frames
        /\ Advanced.model = tracker.model
    BY <1>16, <1>a DEF Advanced, Checkpoint, CompleteStage
  <2>3. tracker.stage = at
    BY <1>16 DEF CompleteStage, TrackInv, TrackerInv
  <2>4. OwnTracker(Advanced)
    BY <1>16, <1>b, <2>2, <2>3 DEF CompleteStage, OwnRun, OwnTracker, Stages
  <2>5. OwnCkpt'
    BY <1>16, <1>b, <2>1, <2>4, SaveOwn DEF CompleteStage
  <2>6. OwnRun'
    BY <1>16, <1>b, <2>2, <2>4 DEF CompleteStage, OwnRun, OwnTracker, Stages
  <2>7. QED
    BY <1>16, <1>d, <1>e, <2>5, <2>6 DEF CompleteStage
<1>17. CASE Finalize
  <2>1. Finalized \in Checkpoint
    BY <1>17, <1>a, <1>b, TrackerTypes DEF Finalize
  <2>2. tracker.stage = Completed
    BY <1>17 DEF Finalize, TrackInv, TrackerInv
  <2>3. OwnTracker(Finalized)
    BY <1>17, <1>a, <2>2 DEF Finalize, Finalized, OwnRun, OwnTracker, Checkpoint
  <2>4. OwnCkpt'
    BY <1>17, <1>b, <2>1, <2>3, SaveOwn DEF Finalize
  <2>5. ply[job] = {job} /\ splat[job] = {job}
    BY <1>17, <2>2 DEF Finalize, OwnRun, OwnTracker
  <2>6. OutputsAreOwn'
    BY <1>17, <1>b, <2>5 DEF Finalize, OutputsAreOwn, TypeOK
  <2>7. QED
    BY <1>17, <1>d, <2>4, <2>6 DEF Finalize, Idle, OwnRun
<1>18. CASE SaveFails
  <2>1. OwnCkpt'
    BY <1>18, <1>a, <1>b, SaveOwn DEF SaveFails, OwnRun
  <2>2. QED
    BY <1>18, <2>1, <1>d, <1>e DEF SaveFails, OwnRun
<1>19. CASE WorkFails
  <2>1. OwnFiles'
    <3>1. CASE images' = images
      BY <1>19, <3>1, <1>d DEF WorkFails
    <3>2. CASE \E S \in SUBSET FilesOf[frames] : images' = Copied(S)
      BY <1>19, <3>2, <1>a, <1>b, CopiedOwn DEF WorkFails, OwnRun, OwnFiles
    <3>3. QED
      BY <1>19, <3>1, <3>2 DEF WorkFails
  <2>2. QED
    BY <1>19, <2>1, <1>c, <1>e DEF WorkFails, OwnRun
<1>20. CASE Crash
  <2>1. OwnCkpt'
    BY <1>20, <1>a, <1>b, <1>c, SaveOwn DEF Crash, OwnRun
  <2>2. OwnFiles'
    <3>1. CASE UNCHANGED <<images, sparse, model>>
      BY <3>1, <1>d
    <3>2. CASE /\ images' = [t \in TempDirs |-> [f \in FrameFiles |-> NoJob]]
               /\ sparse' = [t \in TempDirs |-> {}]
               /\ model' = [t \in TempDirs |-> {}]
      BY <3>2, JobsAssumption DEF OwnFiles
    <3>3. QED
      BY <1>20, <3>1, <3>2 DEF Crash
  <2>3. QED
    BY <1>20, <2>1, <2>2, <1>e DEF Crash, Idle, OwnRun
<1>21. CASE Tick
  BY <1>21, <1>c, <1>d, <1>e DEF Tick, OwnRun, OwnTracker
<1>22. CASE UNCHANGED vars
  BY <1>22, <1>c, <1>d, <1>e DEF vars, OwnRun, OwnTracker
<1>23. QED
  BY <1>1, <1>2, <1>3, <1>4, <1>5, <1>6, <1>7, <1>8, <1>9, <1>10, <1>11, <1>12,
     <1>13, <1>14, <1>15, <1>16, <1>17, <1>18, <1>19, <1>20, <1>21, <1>22
     DEF Next, Step, Run, Work, AllDone

\* There are no files at the start.
LEMMA OwnInit == Init => OwnInv
  BY JobsAssumption
     DEF Init, OwnInv, OwnFiles, OwnCkpt, OwnRun, OutputsAreOwn, Running, Loadable

\* If no two jobs share an output folder or a working folder, a successful job
\* has both its exports and they are made of its own videos only, whatever
\* failed, crashed, was lost or was resumed on the way.
THEOREM SeparateJobsDoNotMix == Separate => (Spec => []OutputsAreOwn)
<1> SUFFICES ASSUME Separate PROVE Spec => []OutputsAreOwn
  OBVIOUS
<1>1. TypeInv /\ TrackInv /\ DiskInv /\ OwnInv /\ [Next]_vars
        => TypeInv' /\ TrackInv' /\ DiskInv' /\ OwnInv'
  BY TypeStep, TrackStep, DiskStep, OwnStep
<1>2. Init => TypeInv /\ TrackInv /\ DiskInv /\ OwnInv
  BY TypeInit, TrackInit, DiskInit, OwnInit
<1>3. OwnInv => OutputsAreOwn
  BY DEF OwnInv
<1>4. QED
  BY <1>1, <1>2, <1>3, PTL DEF Spec

-----------------------------------------------------------------------------
(* Jobs mix only with those they share folders with. *)

\* The jobs of G share no folder with the others.
Apart(G) ==
  \A i \in G, j \in Jobs \ G : OutputOf[i] # OutputOf[j] /\ TempOf[i] # TempOf[j]

\* What a job of G has written is made of videos of G.
OutputsWithin(G) ==
  \A j \in G :
    ply[j] \subseteq G /\ splat[j] \subseteq G /\ manifest[OutputOf[j]] \subseteq G

\* So is what lies in the working folders of G.
FilesWithin(G) ==
  \A j \in G :
    /\ \A f \in FrameFiles : images[TempOf[j]][f] \in G \union {NoJob}
    /\ sparse[TempOf[j]] \subseteq G
    /\ model[TempOf[j]] \subseteq G

Within(G, set, folder) ==
  set \in G \union {NoJob} /\ (folder = NoDir \/ \E i \in G : folder = TempOf[i])

\* A checkpoint in an output folder of G refers to frames and to a model of G,
\* and a running job of G does, in its tracker and its locals.
CkptWithin(G) ==
  \A j \in G : Loadable(OutputOf[j]) =>
    Within(G, ckpt[OutputOf[j]].frames, ckpt[OutputOf[j]].model)

RunWithin(G) ==
  Running /\ job \in G =>
    Within(G, tracker.frames, tracker.model) /\ Within(G, frames, modelAt)

GroupInv(G) == OutputsWithin(G) /\ FilesWithin(G) /\ CkptWithin(G) /\ RunWithin(G)

\* Only a job of G writes its tracker to an output folder of G, and the tracker
\* refers to files of G then.
LEMMA SaveWithin ==
  ASSUME TypeInv, DiskInv, NEW G \in SUBSET Jobs, Apart(G), CkptWithin(G), Running,
         NEW c \in Checkpoint, c.job = tracker.job, Save(c) \/ SaveBroken(c),
         job \in G => Within(G, c.frames, c.model)
  PROVE  CkptWithin(G)'
<1> SUFFICES ASSUME NEW j \in G, Loadable(OutputOf[j])'
             PROVE  Within(G, ckpt[OutputOf[j]].frames, ckpt[OutputOf[j]].model)'
  BY DEF CkptWithin
<1> DEFINE o == OutputOf[j]
<1>1. o \in OutputDirs /\ job \in Jobs /\ TypeOK
  BY JobsAssumption DEF TypeInv, TypeOK, Running
<1>2. OutputOf[c.job] = OutputOf[job]
  BY DEF DiskInv, SameFolder
<1>3. ckpt'[o] # Torn
  BY DEF Loadable
<1>4. CASE job \notin G
  <2>1. o # OutputOf[c.job]
    BY <1>1, <1>2, <1>4 DEF Apart
  <2>2. ckpt'[o] = ckpt[o]
    BY <1>1, <2>1, SaveEffect
  <2>3. QED
    BY <2>2 DEF CkptWithin, Loadable, Within
<1>5. CASE job \in G /\ ckpt'[o] = c
  BY <1>5 DEF Within
<1>6. CASE job \in G /\ ckpt'[o] # c
  <2>1. ckpt'[o] = ckpt[o]
    BY <1>1, <1>3, <1>6, SaveEffect
  <2>2. QED
    BY <2>1 DEF CkptWithin, Loadable, Within
<1>7. QED
  BY <1>4, <1>5, <1>6

\* A job of G resumes with files of G.
LEMMA BeginWithin ==
  ASSUME NEW G \in SUBSET Jobs, CkptWithin(G), NEW j \in G, NEW r \in BOOLEAN
  PROVE  Within(G, TryResume(j, r).frames, TryResume(j, r).model)
<1>1. Fresh(j).frames = NoJob /\ Fresh(j).model = NoDir
  BY DEF Fresh
<1>2. CASE TryResume(j, r) = Fresh(j)
  BY <1>1, <1>2 DEF Within
<1>3. CASE TryResume(j, r) # Fresh(j)
  <2>1. Loadable(OutputOf[j]) /\ TryResume(j, r) = ckpt[OutputOf[j]]
    BY <1>3 DEF TryResume
  <2>2. QED
    BY <2>1 DEF CkptWithin
<1>4. QED
  BY <1>2, <1>3

\* The frames a running job copies stay in a folder of its group.
LEMMA CopiedWithin ==
  ASSUME TypeOK, NEW G \in SUBSET Jobs, Apart(G), FilesWithin(G), job \in Jobs,
         job \in G => frames \in G \union {NoJob}, NEW S, images' = Copied(S),
         NEW j \in G, NEW f \in FrameFiles
  PROVE  images'[TempOf[j]][f] \in G \union {NoJob}
<1> DEFINE g == [x \in FrameFiles |->
                   IF x \in S THEN frames ELSE images[TempOf[job]][x]]
<1>1. images' = [images EXCEPT ![TempOf[job]] = g]
  BY DEF Copied
<1>2. TempOf[j] \in TempDirs
  BY JobsAssumption
<1>3. CASE TempOf[j] = TempOf[job]
  <2>1. job \in G
    BY <1>3 DEF Apart
  <2>2. images'[TempOf[j]] = g
    BY <1>1, <1>2, <1>3 DEF TypeOK
  <2>3. g[f] \in {frames, images[TempOf[job]][f]}
    OBVIOUS
  <2>4. QED
    BY <2>1, <2>2, <2>3 DEF FilesWithin
<1>4. CASE TempOf[j] # TempOf[job]
  <2>1. images'[TempOf[j]] = images[TempOf[j]]
    BY <1>1, <1>2, <1>4 DEF TypeOK
  <2>2. QED
    BY <2>1 DEF FilesWithin
<1>5. QED
  BY <1>3, <1>4

\* No action brings videos of other jobs to G.
LEMMA GroupStep ==
  ASSUME TypeInv, TrackInv, DiskInv, NEW G \in SUBSET Jobs, Apart(G), GroupInv(G),
         [Next]_vars
  PROVE  GroupInv(G)'
<1> USE DEF GroupInv, Running, kept, saving, disk, local, Goto, NextStep, Due, Past
<1>a. Running => tracker \in Checkpoint /\ job \in Jobs
  BY DEF TypeInv, TypeOK
<1>b. TypeOK /\ NoJob \notin Jobs /\ NoDir \notin TempDirs
  BY JobsAssumption DEF TypeInv
<1>c. ASSUME ckpt' = ckpt PROVE CkptWithin(G)'
  BY <1>c DEF CkptWithin, Loadable, Within
<1>d. ASSUME images' = images, sparse' = sparse, model' = model PROVE FilesWithin(G)'
  BY <1>d DEF FilesWithin
<1>e. ASSUME ply' = ply, splat' = splat, manifest' = manifest PROVE OutputsWithin(G)'
  BY <1>e DEF OutputsWithin
<1>f. ASSUME NEW S, Running, images' = Copied(S), NEW j \in G, NEW f \in FrameFiles
      PROVE  images'[TempOf[j]][f] \in G \union {NoJob}
  BY <1>f, <1>a, <1>b, CopiedWithin DEF RunWithin, Within
<1>1. ASSUME NEW j \in Jobs, StartJob(j) PROVE GroupInv(G)'
  BY <1>1, <1>c, <1>d, <1>e, BeginWithin DEF StartJob, Begin, RunWithin, Within
<1>2. CASE Retry
  BY <1>2, <1>c, <1>d, <1>e, BeginWithin DEF Retry, Begin, RunWithin, Within
<1>3. CASE GiveUp
  BY <1>3, <1>c, <1>d, <1>e DEF GiveUp, Idle, RunWithin
<1>4. CASE SkipStage \/ Validate \/ ExtractMetadata
  BY <1>4, <1>c, <1>d, <1>e DEF SkipStage, Validate, ExtractMetadata, RunWithin, Within
<1>5. CASE ExtractFrames \/ UseCachedFrames
  BY <1>5, <1>c, <1>d, <1>e DEF ExtractFrames, UseCachedFrames, RunWithin, Within
<1>6. CASE GenerateManifest
  <2>1. OutputOf[job] \in OutputDirs /\ frames \in Jobs /\ job \in Jobs
    BY <1>6, <1>a, JobsAssumption DEF GenerateManifest, TypeInv, LocalsSet, Placed
  <2>2. \A o \in OutputDirs :
          manifest'[o] = IF o = OutputOf[job] THEN {job, frames} ELSE manifest[o]
    BY <1>6, <1>b, <2>1 DEF GenerateManifest, TypeOK
  <2>3. \A j \in G : OutputOf[j] \in OutputDirs /\ (OutputOf[j] = OutputOf[job] => job \in G)
    BY <2>1, JobsAssumption DEF Apart
  <2>4. job \in G => {job, frames} \subseteq G
    BY <1>6, <1>b, <2>1 DEF GenerateManifest, RunWithin, Within
  <2>5. OutputsWithin(G)'
    BY <1>6, <2>2, <2>3, <2>4 DEF GenerateManifest, OutputsWithin
  <2>6. QED
    BY <1>6, <1>c, <1>d, <2>5 DEF GenerateManifest, RunWithin, Within
<1>7. CASE Reconstruct
  <2>1. PICK reused \in {{}, sparse[TempOf[job]]} :
          sparse' = [sparse EXCEPT ![TempOf[job]] =
                       Owners(images'[TempOf[job]]) \union reused]
    BY <1>7 DEF Reconstruct
  <2>2. TempOf[job] \in TempDirs /\ job \in Jobs
    BY <1>7, <1>a, JobsAssumption DEF Reconstruct
  <2>3. \A j \in G : \A f \in FrameFiles : images'[TempOf[j]][f] \in G \union {NoJob}
    BY <1>7, <1>f DEF Reconstruct
  <2>4. \A j \in G : Owners(images'[TempOf[j]]) \subseteq G
    BY <1>b, <2>3 DEF Owners
  <2>5. \A j \in G : sparse'[TempOf[j]] \subseteq G
    <3>1. SUFFICES ASSUME NEW j \in G PROVE sparse'[TempOf[j]] \subseteq G
      OBVIOUS
    <3>2. TempOf[j] \in TempDirs
      BY JobsAssumption
    <3>3. CASE TempOf[j] = TempOf[job]
      BY <1>b, <2>1, <2>4, <3>2, <3>3 DEF FilesWithin, TypeOK
    <3>4. CASE TempOf[j] # TempOf[job]
      BY <1>b, <2>1, <3>2, <3>4 DEF FilesWithin, TypeOK
    <3>5. QED
      BY <3>3, <3>4
  <2>6. FilesWithin(G)'
    BY <1>7, <2>3, <2>5 DEF Reconstruct, FilesWithin
  <2>7. QED
    BY <1>7, <1>c, <1>e, <2>6 DEF Reconstruct, RunWithin, Within
<1>8. CASE Train
  <2>1. TempOf[job] \in TempDirs /\ job \in Jobs
    BY <1>8, <1>a, JobsAssumption DEF Train
  <2>2. \A j \in G : model'[TempOf[j]] \subseteq G
    <3>1. SUFFICES ASSUME NEW j \in G PROVE model'[TempOf[j]] \subseteq G
      OBVIOUS
    <3>2. TempOf[j] \in TempDirs
      BY JobsAssumption
    <3>3. Owners(images[TempOf[j]]) \union sparse[TempOf[j]] \subseteq G
      BY <1>b DEF Owners, FilesWithin
    <3>4. model'[TempOf[j]] =
            IF TempOf[j] = TempOf[job]
            THEN Owners(images[TempOf[j]]) \union sparse[TempOf[j]] ELSE model[TempOf[j]]
      BY <1>8, <1>b, <2>1, <3>2 DEF Train, TypeOK
    <3>5. QED
      BY <3>3, <3>4 DEF FilesWithin
  <2>3. FilesWithin(G)'
    BY <1>8, <2>2 DEF Train, FilesWithin
  <2>4. QED
    BY <1>8, <1>c, <1>e, <2>3 DEF Train, RunWithin, Within
<1>9. CASE UseCachedModel
  BY <1>9, <1>c, <1>d, <1>e DEF UseCachedModel, RunWithin, Within
<1>10. ASSUME ExportPly \/ ExportSplat PROVE job \in G => model[modelAt] \subseteq G
  <2>1. modelAt \in TempDirs
    BY <1>10 DEF ExportPly, ExportSplat, TypeInv, LocalsSet, Placed
  <2>2. job \in G => \E i \in G : modelAt = TempOf[i]
    BY <1>10, <1>b, <2>1 DEF ExportPly, ExportSplat, RunWithin, Within
  <2>3. QED
    BY <2>2 DEF FilesWithin
<1>11. CASE ExportPly
  BY <1>11, <1>a, <1>b, <1>c, <1>d, <1>10
     DEF ExportPly, OutputsWithin, RunWithin, Within, TypeOK
<1>12. CASE ExportSplat
  BY <1>12, <1>a, <1>b, <1>c, <1>d, <1>10
     DEF ExportSplat, OutputsWithin, RunWithin, Within, TypeOK
<1>13. CASE Record
  <2>1. Recorded \in Checkpoint
    BY <1>13, <1>a, <1>b, TrackerTypes DEF Record
  <2>2. /\ Recorded.job = tracker.job
        /\ Recorded.frames = IF at = FrameExtraction THEN frames ELSE tracker.frames
        /\ Recorded.model = IF at = Training THEN modelAt ELSE tracker.model
    BY <1>13, <1>a DEF Recorded, Checkpoint, Record
  <2>3. job \in G => Within(G, Recorded.frames, Recorded.model)
    BY <1>13, <2>2 DEF Record, RunWithin, Within
  <2>4. CkptWithin(G)'
    BY <1>13, <2>1, <2>2, <2>3, SaveWithin DEF Record
  <2>5. QED
    BY <1>13, <1>d, <1>e, <2>3, <2>4 DEF Record, RunWithin, Within
<1>14. CASE CompleteStage
  <2>1. Advanced \in Checkpoint
    BY <1>14, <1>a, <1>b, TrackerTypes DEF CompleteStage
  <2>2. /\ Advanced.job = tracker.job
        /\ Advanced.frames = tracker.frames
        /\ Advanced.model = tracker.model
    BY <1>14, <1>a DEF Advanced, Checkpoint, CompleteStage
  <2>3. job \in G => Within(G, Advanced.frames, Advanced.model)
    BY <1>14, <2>2 DEF CompleteStage, RunWithin
  <2>4. CkptWithin(G)'
    BY <1>14, <2>1, <2>2, <2>3, SaveWithin DEF CompleteStage
  <2>5. QED
    BY <1>14, <1>d, <1>e, <2>3, <2>4 DEF CompleteStage, RunWithin, Within
<1>15. CASE Finalize
  <2>1. Finalized \in Checkpoint
    BY <1>15, <1>a, <1>b, TrackerTypes DEF Finalize
  <2>2. /\ Finalized.job = tracker.job
        /\ Finalized.frames = tracker.frames
        /\ Finalized.model = tracker.model
    BY <1>15, <1>a DEF Finalized, Checkpoint, Finalize
  <2>3. job \in G => Within(G, Finalized.frames, Finalized.model)
    BY <1>15, <2>2 DEF Finalize, RunWithin
  <2>4. CkptWithin(G)'
    BY <1>15, <2>1, <2>2, <2>3, SaveWithin DEF Finalize
  <2>5. QED
    BY <1>15, <1>d, <1>e, <2>4 DEF Finalize, Idle, RunWithin
<1>16. CASE SaveFails
  <2>1. CkptWithin(G)'
    BY <1>16, <1>a, SaveWithin DEF SaveFails, RunWithin
  <2>2. QED
    BY <1>16, <2>1, <1>d, <1>e DEF SaveFails, RunWithin
<1>17. CASE WorkFails
  <2>1. FilesWithin(G)'
    <3>1. CASE images' = images
      BY <1>17, <3>1, <1>d DEF WorkFails
    <3>2. CASE \E S \in SUBSET FilesOf[frames] : images' = Copied(S)
      BY <1>17, <3>2, <1>f DEF WorkFails, FilesWithin
    <3>3. QED
      BY <1>17, <3>1, <3>2 DEF WorkFails
  <2>2. QED
    BY <1>17, <2>1, <1>c, <1>e DEF WorkFails, RunWithin
<1>18. CASE Crash
  <2>1. CkptWithin(G)'
    BY <1>18, <1>a, <1>c, SaveWithin DEF Crash, RunWithin
  <2>2. FilesWithin(G)'
    <3>1. CASE UNCHANGED <<images, sparse, model>>
      BY <3>1, <1>d
    <3>2. CASE /\ images' = [t \in TempDirs |-> [f \in FrameFiles |-> NoJob]]
               /\ sparse' = [t \in TempDirs |-> {}]
               /\ model' = [t \in TempDirs |-> {}]
      BY <3>2, JobsAssumption DEF FilesWithin
    <3>3. QED
      BY <1>18, <3>1, <3>2 DEF Crash
  <2>3. QED
    BY <1>18, <2>1, <2>2, <1>e DEF Crash, Idle, RunWithin
<1>19. CASE Tick \/ UNCHANGED vars
  BY <1>19, <1>c, <1>d, <1>e DEF Tick, vars, RunWithin, Within
<1>20. QED
  BY <1>1, <1>2, <1>3, <1>4, <1>5, <1>6, <1>7, <1>8, <1>9, <1>11, <1>12, <1>13,
     <1>14, <1>15, <1>16, <1>17, <1>18, <1>19 DEF Next, Step, Run, Work, AllDone

\* There are no files at the start.
LEMMA GroupInit == ASSUME NEW G \in SUBSET Jobs, Init PROVE GroupInv(G)
BY JobsAssumption
   DEF Init, GroupInv, OutputsWithin, FilesWithin, CkptWithin, RunWithin, Running, Loadable

\* Jobs that share folders among themselves and with no other job get exports and
\* manifests, finished or not, that are made of videos of theirs only; so the
\* mixing of watch mode never reaches beyond the jobs of one pair of folders.
THEOREM MixingStaysInFolders ==
  ASSUME NEW G \in SUBSET Jobs, Apart(G)
  PROVE  Spec => []OutputsWithin(G)
<1>1. TypeInv /\ TrackInv /\ DiskInv /\ GroupInv(G) /\ [Next]_vars
        => TypeInv' /\ TrackInv' /\ DiskInv' /\ GroupInv(G)'
  BY TypeStep, TrackStep, DiskStep, GroupStep
<1>2. Init => TypeInv /\ TrackInv /\ DiskInv /\ GroupInv(G)
  BY TypeInit, TrackInit, DiskInit, GroupInit
<1>3. GroupInv(G) => OutputsWithin(G)
  BY DEF GroupInv
<1>4. QED
  BY <1>1, <1>2, <1>3, PTL DEF Spec

-----------------------------------------------------------------------------
(* A job ends. *)

\* A job that runs is at its first attempt or a later one.
AttemptInv == phase # "idle" => attempt >= 1 /\ job \in Jobs

\* A result that was returned stays, and a job runs only until it has one.
ResultsStay ==
  /\ \A j \in Jobs : outcome[j] # "none" => outcome'[j] = outcome[j]
  /\ phase' # "idle" => outcome'[job'] = "none"

\* The job that runs has no result yet.
OpenInv == phase # "idle" => outcome[job] = "none"

\* They hold before the first job.
LEMMA RunInit == Init => AttemptInv /\ OpenInv
BY DEF Init, AttemptInv, OpenInv

\* What is left is a number, and at most 36 steps for each attempt.
LEMMA RemainingType ==
  ASSUME TypeInv, AttemptInv, phase # "idle"
  PROVE  Remaining \in Nat /\ Remaining < 36 * MaxAttempts
<1>1. attempt \in 1 .. MaxAttempts /\ MaxAttempts \in Nat /\ at \in 0 .. 8 /\ Rank(phase) \in 0 .. 3
  BY BoundsAssumption DEF TypeInv, TypeOK, AttemptInv, Stages, Rank
<1> QED
  BY <1>1 DEF Remaining

\* What the actions of a running job do to the measure.
LEMMA NearerStep ==
  ASSUME TypeInv, TrackInv, AttemptInv, OpenInv, [Next]_vars
  PROVE  [Nearer /\ ResultsStay]_vars /\ AttemptInv' /\ OpenInv'
<1> USE DEF TypeInv, TypeOK, AttemptInv, OpenInv, Stages
<1>0. attempt \in Nat /\ MaxAttempts \in Nat /\ at \in 0 .. 8
  BY BoundsAssumption
\* Within an attempt: the phase goes down, or control moves to the next step.
<1>a. ASSUME phase # "idle", phase' # "idle", UNCHANGED <<job, attempt, outcome>>,
             \/ at' = at /\ Rank(phase') < Rank(phase)
             \/ at' = at + 1 /\ Rank(phase') <= 3 /\ (Rank(phase) > 0)
      PROVE  Nearer /\ ResultsStay /\ AttemptInv' /\ OpenInv'
  <2>1. Rank(phase) \in 0 .. 3 /\ Rank(phase') \in 0 .. 3
    BY DEF Rank
  <2>2. Remaining' < Remaining
    BY <1>0, <1>a, <2>1 DEF Remaining
  <2>3. Remaining' \in Int /\ Remaining \in Int
    BY <1>0, <1>a, <2>1 DEF Remaining
  <2> QED
    BY <1>a, <2>2, <2>3 DEF Nearer, ResultsStay
<1>b. ASSUME phase # "idle", phase' = "idle",
             \/ \E r \in {"success", "failed"} : outcome' = [outcome EXCEPT ![job] = r]
             \/ outcome' = outcome /\ crashes' > crashes
      PROVE  Nearer /\ ResultsStay /\ AttemptInv' /\ OpenInv'
  BY <1>b DEF Nearer, ResultsStay
<1>1. ASSUME NEW j \in Jobs, StartJob(j) PROVE Nearer /\ ResultsStay /\ AttemptInv' /\ OpenInv'
  BY <1>1 DEF StartJob, Begin, Nearer, ResultsStay
<1>2. CASE Retry
  <2>1. attempt' = attempt + 1 /\ at' = 0 /\ phase' = "work" /\ job' = job /\ outcome' = outcome
        /\ phase = "failed"
    BY <1>2 DEF Retry, Begin
  <2>2. Rank(phase) = 0 /\ Rank(phase') = 3
    BY <2>1 DEF Rank
  <2>3. Remaining' < Remaining /\ Remaining' \in Int /\ Remaining \in Int
    BY <1>0, <2>1, <2>2 DEF Remaining
  <2> QED
    BY <1>0, <2>1, <2>3 DEF Nearer, ResultsStay
<1>3. CASE GiveUp
  BY <1>3, <1>b DEF GiveUp, Idle
<1>4. CASE SkipStage \/ UseCachedFrames \/ UseCachedModel \/ Record \/ CompleteStage
  <2>1. phase # "idle" /\ Rank(phase) > 0 /\ UNCHANGED <<job, attempt, outcome>>
    BY <1>4 DEF SkipStage, UseCachedFrames, UseCachedModel, Record, CompleteStage, Past, kept, saving, Rank
  <2>2. \/ at' = at /\ phase = "record" /\ phase' = "advance"
        \/ at' = at + 1 /\ phase' \in {"work", "advance"}
    BY <1>4 DEF SkipStage, UseCachedFrames, UseCachedModel, Record, CompleteStage, Goto, NextStep
  <2>3. phase' # "idle" /\ Rank(phase') <= 3 /\ (at' = at => Rank(phase') < Rank(phase))
    BY <1>0, <2>2 DEF Rank
  <2> QED
    BY <1>a, <2>1, <2>2, <2>3
<1>5. CASE Validate \/ ExtractFrames \/ ExtractMetadata \/ GenerateManifest \/ Reconstruct \/ Train
           \/ ExportPly \/ ExportSplat
  <2>1. phase = "work" /\ phase' \in {"record", "advance"} /\ at' = at
        /\ UNCHANGED <<job, attempt, outcome>>
    BY <1>5 DEF Validate, ExtractFrames, ExtractMetadata, GenerateManifest, Reconstruct, Train,
                ExportPly, ExportSplat, Due, Past, Goto, kept, saving
  <2> QED
    BY <1>a, <2>1 DEF Rank
<1>6. CASE SaveFails \/ WorkFails
  <2>1. phase \in {"work", "record", "advance"} /\ phase' = "failed" /\ at' = at
        /\ UNCHANGED <<job, attempt, outcome>>
    BY <1>6 DEF SaveFails, WorkFails
  <2> QED
    BY <1>a, <2>1 DEF Rank
<1>7. CASE Finalize
  BY <1>7, <1>b DEF Finalize, Idle
<1>8. CASE Crash
  <2>1. crashes' > crashes
    BY <1>8, BoundsAssumption DEF Crash
  <2> QED
    BY <1>8, <1>b, <2>1 DEF Crash, Idle
<1>9. CASE Tick
  <2>1. UNCHANGED <<job, at, phase, attempt, outcome>> /\ now' = now + 1
    BY <1>9 DEF Tick, local
  <2>2. Remaining' = Remaining /\ Remaining \in Int
    <3>1. Rank(phase) \in Int
      BY DEF Rank
    <3> QED
      BY <1>0, <2>1, <3>1 DEF Remaining
  <2> QED
    BY <2>1, <2>2 DEF Nearer, ResultsStay
<1>10. CASE UNCHANGED vars
  BY <1>10 DEF vars
<1> QED
  BY <1>1, <1>2, <1>3, <1>4, <1>5, <1>6, <1>7, <1>8, <1>9, <1>10 DEF Next, Step, Run, Work, AllDone

\* A job that runs has fewer than 36 steps left for each attempt it may make,
\* every one of them brings it nearer to its end, and at the end it has a
\* result, which stays; only a crash ends it without one.
THEOREM JobsEnd ==
  Spec => RunEnds /\ [][ResultsStay]_vars
          /\ [](phase # "idle" => Remaining \in Nat /\ Remaining < 36 * MaxAttempts)
<1> DEFINE Bound == phase # "idle" => Remaining \in Nat /\ Remaining < 36 * MaxAttempts
<1>1. TypeInv /\ TrackInv /\ AttemptInv /\ OpenInv /\ [Next]_vars
        => [Nearer]_vars /\ [ResultsStay]_vars /\ AttemptInv' /\ OpenInv'
  BY NearerStep
<1>2. TypeInv /\ TrackInv /\ [Next]_vars => TypeInv' /\ TrackInv'
  BY TypeStep, TrackStep
<1>3. TypeInv /\ AttemptInv => Bound
  BY RemainingType
<1> HIDE DEF Bound
<1>4. Spec => RunEnds /\ [][ResultsStay]_vars /\ []Bound
  BY <1>1, <1>2, <1>3, TypeInit, TrackInit, RunInit, PTL DEF Spec, RunEnds
<1> QED
  BY <1>4 DEF Bound

=============================================================================
