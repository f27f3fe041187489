--------------------------- MODULE TrainingProofs ---------------------------
(***************************************************************************)
(* What a job delivers, for any environments and any number of attempts.   *)
(***************************************************************************)
EXTENDS Training, TLAPS

USE AttemptsAssumption

-----------------------------------------------------------------------------
(* The selection. *)

\* Somebody always has a name for the backend.
LEMMA SelectedHasName == \A e : Selected(e) # "none"
BY DEF Selected, ConfigBackend, ResolveBackendName, AutoSelectBackend, RecommendBackend

\* A GPU that a probe has found has a platform.
LEMMA DetectedHasPlatform ==
  ASSUME NEW e, e.probes \subseteq {Detectors[i].probe : i \in DOMAIN Detectors}, e.probes # {}
  PROVE  DetectGpu(e) \in {"Cuda", "Metal", "Rocm"}
<1> DEFINE answers == {i \in DOMAIN Detectors : Detectors[i].probe \in e.probes}
<1>1. DOMAIN Detectors = 1 .. 4 /\ \A i \in 1 .. 4 : Detectors[i].platform \in {"Cuda", "Metal", "Rocm"}
  BY DEF Detectors
<1>2. answers # {} /\ answers \subseteq 1 .. 4
  BY <1>1
<1>3. \E i \in answers : \A k \in answers : i <= k
  <2>1. 1 \in answers \/ 2 \in answers \/ 3 \in answers \/ 4 \in answers
    BY <1>2
  <2> QED
    BY <1>2, <2>1
<1>4. Min(answers) \in answers
  BY <1>3 DEF Min
<1> QED
  BY <1>1, <1>2, <1>4 DEF DetectGpu

\* The mock runs only where it was asked for or no probe has found a GPU, for
\* every environment.
LEMMA MockIsAskedFor ==
  ASSUME NEW e \in Environments, Selected(e) = "mock"
  PROVE  e.BACKEND = "mock" \/ e.forced \/ e.probes = {}
BY EnvironmentsAssumption, DetectedHasPlatform
DEF Selected, ConfigBackend, ResolveBackendName, AutoSelectBackend, RecommendBackend

-----------------------------------------------------------------------------
(* Types. *)

\* The environment makes sense, and a version is a number.
LEMMA Domains ==
  /\ Versions \subseteq Nat /\ Missing \in Versions /\ Leftover \in Versions /\ Stub \in Versions
  /\ \A e \in Environments : e.writes \in Spots
<1>1. MaxAttempts \in Nat
  OBVIOUS
<1>2. Versions \subseteq Nat /\ Missing \in Versions /\ Leftover \in Versions /\ Stub \in Versions
  BY <1>1 DEF Versions, Missing, Leftover, Stub
<1> QED
  BY <1>2, EnvironmentsAssumption

\* Where a backend writes and looks is one of the places.
LEMMA PathTypes ==
  ASSUME TypeOK
  PROVE  \A b : WrittenTo(b) \in Spots /\ LooksFirst(b) \in Spots /\ LooksNext(b) \in Spots
<1>1. env.writes \in Spots /\ "own" \in Spots
  BY Domains DEF TypeOK, Spots
<1>2. \A b : WrittenTo(b) \in Spots
  BY <1>1, Zenon DEF WrittenTo
<1>3. \A b : LooksFirst(b) \in Spots
  BY Zenon DEF LooksFirst, Spots
<1>4. "iteration_N/point_cloud.ply" \in Spots
  BY DEF Spots
<1>5. \A b : LooksNext(b) \in Spots
  BY <1>3, <1>4, Zenon DEF LooksNext
<1> QED
  BY <1>2, <1>3, <1>5

\* The path a backend returns is one of its two.
LEMMA PathFacts ==
  ASSUME TypeOK
  PROVE  /\ ModelPath \in Spots /\ ModelPath \in {LooksFirst(backend), LooksNext(backend)}
         /\ output[LooksFirst(backend)] # Missing => ModelPath = LooksFirst(backend)
BY PathTypes DEF ModelPath

\* What an attempt writes has a version.
LEMMA MineType ==
  ASSUME TypeOK
  PROVE  Mine \in Versions /\ Mine # Missing /\ (attempt >= 1 => Mine # Leftover)
BY DEF TypeOK, Mine, Versions, Missing, Leftover, Stub

CheckpointType == [stage : Stages, model : Spots \union {"none"}]

\* Checkpoints are records.
LEMMA CheckpointTypes ==
  /\ Fresh \in CheckpointType
  /\ \A c \in CheckpointType, s \in Stages, m \in Spots :
       /\ [c EXCEPT !.stage = s] \in CheckpointType
       /\ [c EXCEPT !.model = m] \in CheckpointType
       /\ [c EXCEPT !.model = m].stage = c.stage /\ [c EXCEPT !.model = m].model = m
       /\ [c EXCEPT !.stage = s].stage = s /\ [c EXCEPT !.stage = s].model = c.model
BY DEF CheckpointType, Fresh, Stages

\* An attempt takes up at one of four places, and with a model at the last two.
LEMMA TakeUpFacts ==
  ASSUME NEW c \in CheckpointType
  PROVE  /\ TakeUp(c) \in {"reconstruct", "train", "ply", "splat"}
         /\ TakeUp(c) = "reconstruct" <=> c.stage = "ColmapReconstruction"
         /\ TakeUp(c) = "train" /\ c.stage # "Training" => CachedModel(c) = "none"
         /\ TakeUp(c) \in {"ply", "splat"} =>
              c.model # "none" /\ output[c.model] # Missing
         /\ TakeUp(c) = "ply" => c.stage = "PlyExport"
         /\ TakeUp(c) = "splat" => c.stage \in {"SplatExport", "Completed"}
<1>1. c.stage \in Stages /\ c.model \in Spots \union {"none"}
  BY DEF CheckpointType
<1>2. "none" \notin Spots
  BY DEF Spots
<1>3. CachedModel(c) # "none" => c.model # "none" /\ output[c.model] # Missing
  BY DEF CachedModel
<1> QED
  BY <1>1, <1>3 DEF TakeUp, Stages

\* The end of an attempt has the types.
LEMMA FailTypes ==
  ASSUME TypeOK, pc # "ended", NEW n, FailAttempt(n)
  PROVE  /\ pc' \in {"idle", "ended"} /\ backend' = "none" /\ model' = "none"
         /\ outcome' \in {"none", "success", "failed"}
BY DEF TypeOK, FailAttempt

\* The types hold when the process starts.
LEMMA TypeInit == Init => TypeOK
<1> SUFFICES ASSUME Init PROVE TypeOK
  OBVIOUS
<1>1. \A left \in {Missing, Leftover} : [bin |-> left, txt |-> left] \in [bin : Versions, txt : Versions]
  BY Domains
<1>2. ckpt \in CheckpointType
  BY CheckpointTypes DEF Init
<1>3. /\ sparse \in [bin : Versions, txt : Versions] /\ output \in [Spots -> Versions]
      /\ good \union trained \subseteq Versions
  BY <1>1, Domains DEF Init
<1>4. basis \in [Versions -> Versions] /\ {ply, splat} \subseteq Versions /\ counted \in Versions
  BY Domains DEF Init
<1>5. env \in Environments /\ attempt \in 0 .. MaxAttempts /\ lost \in BOOLEAN
      /\ outcome = "none" /\ model = "none" /\ pc = "idle" /\ backend = "none"
  <2>1. 0 \in 0 .. MaxAttempts
    OBVIOUS
  <2> QED
    BY <2>1 DEF Init
<1> QED
  BY <1>2, <1>3, <1>4, <1>5 DEF TypeOK, CheckpointType, Running

\* Every step keeps the types.
LEMMA TypeStep == TypeOK /\ [Next]_vars => TypeOK'
<1> SUFFICES ASSUME TypeOK, [Next]_vars PROVE TypeOK'
  OBVIOUS
<1> USE Domains DEF TypeOK
<1>0. ckpt \in CheckpointType /\ Fresh \in CheckpointType
  BY CheckpointTypes DEF CheckpointType
<1>a. /\ [ckpt EXCEPT !.stage = "Training"] \in CheckpointType
      /\ [ckpt EXCEPT !.stage = "SplatExport"] \in CheckpointType
      /\ [ckpt EXCEPT !.stage = "Completed"] \in CheckpointType
  <2>1. {"Training", "SplatExport", "Completed"} \subseteq Stages
    BY DEF Stages
  <2> QED
    BY <1>0, <2>1, CheckpointTypes
<1>b. ASSUME model \in Spots
      PROVE  /\ [ckpt EXCEPT !.model = model] \in CheckpointType
             /\ [[ckpt EXCEPT !.model = model] EXCEPT !.stage = "PlyExport"] \in CheckpointType
  <2>1. "PlyExport" \in Stages
    BY DEF Stages
  <2> QED
    BY <1>0, <1>b, <2>1, CheckpointTypes
<1>1. CASE StartAttempt
  <2>1. attempt' \in 0 .. MaxAttempts
    BY <1>1 DEF StartAttempt
  <2>2. ckpt' \in CheckpointType
    BY <1>1, <1>0 DEF StartAttempt
  <2>3. TakeUp(ckpt') \in {"reconstruct", "train", "ply", "splat"}
        /\ (TakeUp(ckpt') \in {"ply", "splat"} => ckpt'.model # "none")
    BY <2>2, TakeUpFacts
  <2>4. CASE Loads(env, Selected(env))
    BY <1>1, <2>1, <2>2, <2>3, <2>4, SelectedHasName DEF StartAttempt, Running, ghosts, CheckpointType
  <2>5. CASE ~ Loads(env, Selected(env))
    <3>1. FailAttempt(attempt')
      BY <1>1, <2>5 DEF StartAttempt
    <3> QED
      BY <1>1, <2>1, <2>2, <3>1 DEF StartAttempt, FailAttempt, Running, ghosts, CheckpointType
  <2> QED
    BY <2>4, <2>5
<1>2. CASE Crash
  BY <1>2 DEF Crash, Running, disk, ghosts
<1>3. CASE LoseModel
  BY <1>3 DEF LoseModel, Running
<1>4. CASE Reconstruct
  BY <1>4, FailTypes DEF Reconstruct, ExtractFeatures, ReadCameras, Tool, GoTo, Running, disk, ghosts
<1>5. CASE MatchFeatures
  BY <1>5, FailTypes DEF MatchFeatures, Tool, GoTo, Running, disk, ghosts
<1>6. CASE RunMapper
  <2>1. sparse' \in [bin : Versions, txt : Versions] /\ good' \subseteq Versions
    BY <1>6, MineType DEF RunMapper
  <2> QED
    BY <1>6, <2>1, FailTypes DEF RunMapper, GoTo, Running
<1>7. CASE ParseSparseOutput
  <2>1. sparse' \in [bin : Versions, txt : Versions] /\ counted' \in Versions
    BY <1>7 DEF ParseSparseOutput
  <2> QED
    BY <1>7, <2>1, FailTypes DEF ParseSparseOutput, Tool, GoTo, Running, ghosts
<1>8. CASE Validate
  BY <1>8, FailTypes DEF Validate, GoTo, Running, disk, ghosts
<1>9. CASE RecordReconstruction
  <2>1. ckpt' \in CheckpointType
    BY <1>9, <1>0, <1>a DEF RecordReconstruction, Save
  <2> QED
    BY <1>9, <2>1, FailTypes DEF RecordReconstruction, Save, GoTo, Running, CheckpointType, ghosts
<1>10. CASE Train
  <2>1. output' \in [Spots -> Versions] /\ trained' \subseteq Versions
    <3>1. WrittenTo(backend) \in Spots
      BY PathTypes
    <3> QED
      BY <1>10, <3>1, MineType DEF Train
  <2>2. basis' \in [Versions -> Versions]
    BY <1>10, MineType DEF Train, Basis, Searched, Workspace, Elsewhere
  <2> QED
    BY <1>10, <2>1, <2>2, FailTypes DEF Train, GoTo, Running
<1>11. CASE LocateModel
  BY <1>11, FailTypes, PathFacts DEF LocateModel, GoTo, Running, ghosts, Spots
<1>12. CASE RecordModel
  <2>1. model # "none" /\ model \in Spots
    BY <1>12 DEF RecordModel
  <2>2. ckpt' \in CheckpointType
    BY <1>12, <2>1, <1>0, <1>b DEF RecordModel, Save
  <2> QED
    BY <1>12, <2>1, <2>2, FailTypes DEF RecordModel, Save, GoTo, Running, CheckpointType, ghosts
<1>13. CASE ExportPly
  <2>1. ply' \in Versions
    BY <1>13 DEF ExportPly
  <2> QED
    BY <1>13, <2>1, FailTypes DEF ExportPly, Tool, GoTo, Running, ghosts
<1>14. CASE RecordPly
  <2>1. ckpt' \in CheckpointType
    BY <1>14, <1>0, <1>a DEF RecordPly, Save
  <2> QED
    BY <1>14, <2>1, FailTypes DEF RecordPly, Save, GoTo, Running, CheckpointType, ghosts
<1>15. CASE ExportSplat
  <2>1. splat' \in Versions
    BY <1>15 DEF ExportSplat, Converted, NotConverted
  <2> QED
    BY <1>15, <2>1, FailTypes DEF ExportSplat, Converted, NotConverted, Tool, GoTo, Running, ghosts
<1>16. CASE RecordSplat
  <2>1. ckpt' \in CheckpointType
    BY <1>16, <1>0, <1>a DEF RecordSplat
  <2> QED
    BY <1>16, <2>1, FailTypes DEF RecordSplat, Running, CheckpointType, ghosts
<1>17. CASE Done \/ UNCHANGED vars
  BY <1>17 DEF Done, vars
<1> QED
  BY <1>1, <1>2, <1>3, <1>4, <1>5, <1>6, <1>7, <1>8, <1>9, <1>10, <1>11, <1>12, <1>13, <1>14,
     <1>15, <1>16, <1>17 DEF Next

\* The types hold for any environments and any number of attempts.
THEOREM TypeCorrect == Spec => []TypeOK
BY TypeInit, TypeStep, PTL DEF Spec

-----------------------------------------------------------------------------
(* What is delivered. *)

\* Where the training tool of the job writes.
Place == WrittenTo(Selected(env))

\* A model trained in one of the job's own attempts.
Good(v) == v \in trained \ {Missing, Leftover}

Reconstructing == {"reconstruct", "match", "map", "count", "validate", "reconstructed"}
TrainingSteps == {"train", "locate", "trained"}

\* What the checkpoint and the locals of an attempt have to do with each other.
RunInv ==
  /\ pc \in Running => backend = Selected(env) /\ attempt >= 1
  /\ pc # "ended" => outcome = "none"
  /\ pc \in Reconstructing => ckpt.stage = "ColmapReconstruction"
  /\ pc \in TrainingSteps => ckpt.stage \in {"Training", "PlyExport", "SplatExport"}
  /\ pc \in {"ply", "plyDone"} => ckpt.stage = "PlyExport" /\ model = ckpt.model
  /\ pc \in {"splat", "splatDone"} => ckpt.stage = "SplatExport" /\ model = ckpt.model
  /\ ckpt.stage \in {"PlyExport", "SplatExport"} => ckpt.model # "none"

\* Both exports are of one model, if the converters leave their files.
BothFormats == env.converts => splat = ply

\* Models are where the tool writes or where they were left by earlier jobs: what
\* is missing elsewhere stays missing.
PlaceInv ==
  ~ IsStub => \A s \in Spots : output[s] # Missing => s \in env.left \union {Place}

\* Where no leftover misleads the backend, what is at the path the checkpoint
\* names was trained, or nothing is there and no training will put it there.
ModelInv ==
  ~ IsStub /\ ~ lost /\ NothingMisleads =>
    /\ ckpt.stage = "PlyExport" =>
         IF output[ckpt.model] = Missing THEN ckpt.model # Place ELSE Good(output[ckpt.model])
    /\ ckpt.stage = "SplatExport" => Good(ply) /\ output[ckpt.model] = ply
    /\ pc \in TrainingSteps /\ ckpt.stage # "Training" =>
         ckpt.stage = "PlyExport" /\ output[ckpt.model] = Missing
    /\ pc \in {"locate", "trained"} => Good(output[Place])
    /\ pc = "trained" /\ model # Place => output[model] = Missing
    /\ pc = "plyDone" => Good(ply) /\ ply = output[model]
    /\ pc = "splatDone" => BothFormats
    /\ outcome = "success" => BothFormats /\ Good(ply)

\* The reconstruction is done with.
Passed ==
  \/ ckpt.stage \in {"Training", "PlyExport", "SplatExport"}
  \/ pc = "reconstructed" \/ outcome = "success"

\* Whoever gets past the reconstruction has counted enough, or counted nothing.
CountInv == Passed => counted \in good \union {Missing}

DeliveryInv == TypeOK /\ RunInv /\ PlaceInv /\ ModelInv /\ CountInv

\* They hold when the process starts.
LEMMA DeliveryInit == Init => RunInv /\ PlaceInv /\ ModelInv /\ CountInv
<1> SUFFICES ASSUME Init PROVE RunInv /\ PlaceInv /\ ModelInv /\ CountInv
  OBVIOUS
<1>1. pc = "idle" /\ outcome = "none" /\ ckpt = Fresh /\ ckpt.stage = "ColmapReconstruction"
  BY DEF Init, Fresh
<1>2. RunInv
  BY <1>1 DEF RunInv, Running, Reconstructing, TrainingSteps
<1>3. PlaceInv
  BY DEF Init, PlaceInv
<1>4. ModelInv /\ CountInv
  BY <1>1 DEF ModelInv, CountInv, Passed, TrainingSteps
<1> QED
  BY <1>2, <1>3, <1>4

\* What the end of an attempt leaves to say.
LEMMA FailRun ==
  ASSUME RunInv, pc \in Running, NEW n, FailAttempt(n),
         ckpt'.stage \in {"PlyExport", "SplatExport"} => ckpt'.model # "none"
  PROVE  RunInv'
BY DEF RunInv, FailAttempt, Running, Reconstructing, TrainingSteps

\* The environment of a job stays the same, and so does what follows from it.
LEMMA SameEnvironment ==
  ASSUME env' = env
  PROVE  IsStub' = IsStub /\ Place' = Place /\ NothingMisleads' = NothingMisleads
BY DEF IsStub, Place, NothingMisleads, WrittenTo

\* What a save leaves: the checkpoint there was, an unfinished one or a new one.
LEMMA SaveFacts ==
  ASSUME NEW saved, NEW last, NEW next, Save(saved, last, next)
  PROVE  \/ ckpt' = last /\ pc' = next /\ UNCHANGED <<backend, outcome, model>>
         \/ ckpt' \in {ckpt, saved, Fresh} /\ FailAttempt(attempt)
BY DEF Save, GoTo

\* Every step keeps checkpoint and locals together.
LEMMA RunStep ==
  ASSUME TypeOK, RunInv, [Next]_vars
  PROVE  RunInv'
<1>0. /\ ckpt \in CheckpointType
      /\ Fresh.stage = "ColmapReconstruction" /\ Fresh.model = "none" /\ Fresh \in CheckpointType
      /\ attempt \in Nat
  BY CheckpointTypes DEF TypeOK, CheckpointType, Fresh
<1>e. /\ [ckpt EXCEPT !.stage = "Training"].stage = "Training"
      /\ [ckpt EXCEPT !.stage = "SplatExport"].stage = "SplatExport"
      /\ [ckpt EXCEPT !.stage = "SplatExport"].model = ckpt.model
      /\ [ckpt EXCEPT !.stage = "Completed"].stage = "Completed"
  BY <1>0, CheckpointTypes DEF Stages
<1>1. CASE StartAttempt
  <2> DEFINE c == IF ckpt.stage = "Completed" THEN Fresh ELSE ckpt
  <2>1. ckpt' = c /\ c \in CheckpointType /\ c.stage # "Completed" /\ UNCHANGED <<env, output>>
        /\ (c.stage \in {"PlyExport", "SplatExport"} => c.model # "none")
    BY <1>0, <1>1 DEF StartAttempt, RunInv
  <2>2. CASE Loads(env, Selected(env))
    <3>1. /\ TakeUp(ckpt') = TakeUp(c) /\ pc' = TakeUp(c) /\ backend' = Selected(env)
          /\ model' = IF TakeUp(c) \in {"ply", "splat"} THEN c.model ELSE "none"
          /\ outcome' = "none" /\ attempt' >= 1
      BY <1>0, <1>1, <2>1, <2>2 DEF StartAttempt, RunInv
    <3>2. /\ pc' \in {"reconstruct", "train", "ply", "splat"}
          /\ pc' = "reconstruct" => c.stage = "ColmapReconstruction"
          /\ pc' = "train" => c.stage \in {"Training", "PlyExport", "SplatExport"}
          /\ pc' = "ply" => c.stage = "PlyExport"
          /\ pc' = "splat" => c.stage = "SplatExport"
      BY <2>1, <3>1, TakeUpFacts DEF CheckpointType, Stages
    <3> QED
      BY <2>1, <3>1, <3>2 DEF RunInv, Reconstructing, TrainingSteps
  <2>3. CASE ~ Loads(env, Selected(env))
    <3>1. FailAttempt(attempt') /\ pc = "idle"
      BY <1>1, <2>3 DEF StartAttempt
    <3> QED
      BY <2>1, <3>1 DEF RunInv, FailAttempt, Running, Reconstructing, TrainingSteps
  <2> QED
    BY <2>2, <2>3
<1>2. CASE Crash \/ LoseModel
  BY <1>2 DEF Crash, LoseModel, RunInv, Running, Reconstructing, TrainingSteps, disk
<1>3. CASE Reconstruct
  BY <1>3, FailRun
  DEF Reconstruct, ExtractFeatures, ReadCameras, Tool, GoTo, RunInv, Running, Reconstructing, TrainingSteps, disk
<1>4. CASE MatchFeatures
  BY <1>4, FailRun DEF MatchFeatures, Tool, GoTo, RunInv, Running, Reconstructing, TrainingSteps, disk
<1>5. CASE RunMapper
  BY <1>5, FailRun DEF RunMapper, GoTo, RunInv, Running, Reconstructing, TrainingSteps
<1>6. CASE ParseSparseOutput
  BY <1>6, FailRun DEF ParseSparseOutput, Tool, GoTo, RunInv, Running, Reconstructing, TrainingSteps
<1>7. CASE Validate
  BY <1>7, FailRun DEF Validate, GoTo, RunInv, Running, Reconstructing, TrainingSteps, disk
<1>8. CASE RecordReconstruction
  <2>1. Save(ckpt, [ckpt EXCEPT !.stage = "Training"], "train") /\ UNCHANGED <<env, attempt>>
        /\ pc = "reconstructed"
    BY <1>8 DEF RecordReconstruction
  <2> QED
    BY <1>0, <1>e, <2>1, FailRun, SaveFacts DEF RunInv, Running, Reconstructing, TrainingSteps
<1>9. CASE Train
  BY <1>9, FailRun DEF Train, GoTo, RunInv, Running, Reconstructing, TrainingSteps
<1>10. CASE LocateModel
  BY <1>10, FailRun DEF LocateModel, GoTo, RunInv, Running, Reconstructing, TrainingSteps
<1>11. CASE RecordModel
  <2> DEFINE saved == [ckpt EXCEPT !.model = model]
             last == [saved EXCEPT !.stage = "PlyExport"]
  <2>1. model \in Spots /\ model # "none" /\ pc = "trained" /\ UNCHANGED <<env, attempt>>
    BY <1>11 DEF RecordModel, TypeOK
  <2>2. saved.stage = ckpt.stage /\ saved.model = model /\ saved \in CheckpointType
    BY <1>0, <2>1, CheckpointTypes DEF CheckpointType
  <2>3. last.stage = "PlyExport" /\ last.model = model
    BY <2>1, <2>2, CheckpointTypes DEF Stages
  <2>4. CASE ckpt.stage = "Training"
    <3>1. Save(saved, last, "ply")
      BY <1>11, <2>4 DEF RecordModel
    <3> HIDE DEF saved, last
    <3>2. \/ ckpt' = last /\ pc' = "ply" /\ UNCHANGED <<backend, outcome, model>>
          \/ ckpt' \in {ckpt, saved, Fresh} /\ FailAttempt(attempt)
      BY <3>1, SaveFacts
    <3>3. CASE FailAttempt(attempt) /\ ckpt' \in {ckpt, saved, Fresh}
      BY <1>0, <2>1, <2>2, <3>3, FailRun DEF RunInv, Running
    <3> QED
      BY <2>1, <2>3, <3>2, <3>3 DEF RunInv, Running, Reconstructing, TrainingSteps
  <2>5. CASE ckpt.stage # "Training"
    <3>1. Save(saved, saved, IF ckpt.stage = "PlyExport" THEN "ply" ELSE "splat")
      BY <1>11, <2>5 DEF RecordModel
    <3> HIDE DEF saved, last
    <3>2. \/ /\ ckpt' = saved /\ UNCHANGED <<backend, outcome, model>>
             /\ pc' = IF ckpt.stage = "PlyExport" THEN "ply" ELSE "splat"
          \/ ckpt' \in {ckpt, saved, Fresh} /\ FailAttempt(attempt)
      BY <3>1, SaveFacts
    <3>3. CASE FailAttempt(attempt) /\ ckpt' \in {ckpt, saved, Fresh}
      BY <1>0, <2>1, <2>2, <3>3, FailRun DEF RunInv, Running
    <3> QED
      BY <2>1, <2>2, <2>5, <3>2, <3>3 DEF RunInv, Running, Reconstructing, TrainingSteps
  <2> QED
    BY <2>4, <2>5
<1>12. CASE ExportPly
  BY <1>12, FailRun DEF ExportPly, Tool, GoTo, RunInv, Running, Reconstructing, TrainingSteps
<1>13. CASE RecordPly
  <2>1. Save(ckpt, [ckpt EXCEPT !.stage = "SplatExport"], "splat") /\ UNCHANGED <<env, attempt>>
        /\ pc = "plyDone"
    BY <1>13 DEF RecordPly
  <2>2. \/ /\ ckpt' = [ckpt EXCEPT !.stage = "SplatExport"] /\ pc' = "splat"
           /\ UNCHANGED <<backend, outcome, model>>
        \/ ckpt' \in {ckpt, Fresh} /\ FailAttempt(attempt)
    BY <2>1, SaveFacts
  <2>3. CASE ckpt' \in {ckpt, Fresh} /\ FailAttempt(attempt)
    BY <1>0, <2>1, <2>3, FailRun DEF RunInv, Running
  <2>4. CASE ckpt' = [ckpt EXCEPT !.stage = "SplatExport"] /\ pc' = "splat"
             /\ UNCHANGED <<backend, outcome, model>>
    <3>1. ckpt'.stage = "SplatExport" /\ ckpt'.model = ckpt.model
      BY <1>e, <2>4
    <3>2. pc = "plyDone" /\ ckpt.model # "none" /\ model = ckpt.model /\ outcome = "none"
      BY <2>1 DEF RunInv
    <3> QED
      BY <2>1, <2>4, <3>1, <3>2 DEF RunInv, Running, Reconstructing, TrainingSteps
  <2> QED
    BY <2>2, <2>3, <2>4
<1>14. CASE ExportSplat
  BY <1>14, FailRun
  DEF ExportSplat, Converted, NotConverted, Tool, GoTo, RunInv, Running, Reconstructing, TrainingSteps
<1>15. CASE RecordSplat
  BY <1>0, <1>15, <1>e, FailRun DEF RecordSplat, RunInv, Running, Reconstructing, TrainingSteps
<1>16. CASE Done \/ UNCHANGED vars
  BY <1>16 DEF Done, vars, RunInv
<1> QED
  BY <1>1, <1>2, <1>3, <1>4, <1>5, <1>6, <1>7, <1>8, <1>9, <1>10, <1>11, <1>12, <1>13, <1>14,
     <1>15, <1>16 DEF Next

\* Every step leaves other places empty.
LEMMA PlaceStep ==
  ASSUME TypeOK, RunInv, PlaceInv, [Next]_vars
  PROVE  PlaceInv'
<1> SUFFICES ASSUME ~ IsStub', NEW s \in Spots, output'[s] # Missing PROVE s \in (env.left \union {Place})'
  BY DEF PlaceInv
<1>1. env' = env
  BY DEF Next, vars, StartAttempt, Crash, LoseModel, Reconstruct, MatchFeatures, RunMapper,
         ParseSparseOutput, Validate, RecordReconstruction, Train, LocateModel, RecordModel,
         ExportPly, RecordPly, ExportSplat, RecordSplat, Done
<1>2. ~ IsStub /\ Place' = Place
  BY <1>1, SameEnvironment
<1>3. CASE output' = output
  BY <1>1, <1>2, <1>3 DEF PlaceInv
<1>4. CASE Train
  <2>1. WrittenTo(backend) = Place
    BY <1>4 DEF Train, RunInv, Running, Place
  <2>2. s = Place \/ output'[s] = output[s]
    BY <1>4, <2>1 DEF Train, TypeOK
  <2> QED
    BY <1>1, <1>2, <2>2 DEF PlaceInv
<1>5. CASE LocateModel
  <2>1. backend # "3dgs-cpp"
    BY <1>2, <1>5 DEF LocateModel, RunInv, Running, IsStub
  <2> QED
    BY <1>3, <1>5, <2>1 DEF LocateModel
<1>6. CASE LoseModel
  BY <1>6 DEF LoseModel
<1> QED
  BY <1>3, <1>4, <1>5, <1>6
  DEF Next, vars, StartAttempt, Crash, Reconstruct, MatchFeatures, RunMapper,
      ParseSparseOutput, Validate, RecordReconstruction, RecordModel,
      ExportPly, RecordPly, ExportSplat, RecordSplat, Done, disk

\* What the end of an attempt leaves to say of the model.
LEMMA FailModel ==
  ASSUME RunInv, ModelInv, pc \in Running, NEW n, FailAttempt(n),
         UNCHANGED <<env, output, trained, lost>>,
         \/ ckpt' = ckpt /\ ckpt.stage # "SplatExport"
         \/ ckpt' = ckpt /\ ply' = ply
         \/ ckpt'.stage \notin {"PlyExport", "SplatExport"}
  PROVE  ModelInv'
<1>1. outcome' # "success" /\ pc' \in {"idle", "ended"}
  BY DEF RunInv, FailAttempt, Running
<1>2. IsStub' = IsStub /\ Place' = Place /\ NothingMisleads' = NothingMisleads /\ \A v : Good(v)' = Good(v)
  BY SameEnvironment DEF Good
<1> QED
  BY <1>1, <1>2 DEF ModelInv, TrainingSteps

\* Every step keeps track of the model.
LEMMA ModelStep ==
  ASSUME TypeOK, RunInv, PlaceInv, ModelInv, [Next]_vars
  PROVE  ModelInv'
<1>0. /\ ckpt \in CheckpointType
      /\ Fresh.stage = "ColmapReconstruction" /\ Fresh \in CheckpointType
  BY CheckpointTypes DEF TypeOK, CheckpointType, Fresh
<1>e. /\ [ckpt EXCEPT !.stage = "Training"].stage = "Training"
      /\ [ckpt EXCEPT !.stage = "SplatExport"].stage = "SplatExport"
      /\ [ckpt EXCEPT !.stage = "SplatExport"].model = ckpt.model
      /\ [ckpt EXCEPT !.stage = "Completed"].stage = "Completed"
  BY <1>0, CheckpointTypes DEF Stages
<1>1. CASE StartAttempt
  <2> DEFINE c == IF ckpt.stage = "Completed" THEN Fresh ELSE ckpt
  <2>1. ckpt' = c /\ c \in CheckpointType /\ UNCHANGED <<env, output, ply, trained, lost>>
    BY <1>0, <1>1 DEF StartAttempt, ghosts
  <2>2. IsStub' = IsStub /\ Place' = Place /\ NothingMisleads' = NothingMisleads /\ \A v : Good(v)' = Good(v)
    BY <2>1, SameEnvironment DEF Good
  <2>3. outcome' # "success" /\ pc' \in {"idle", "ended"} \union {TakeUp(c)}
    <3>1. TakeUp(ckpt') = TakeUp(c)
      BY <2>1
    <3> QED
      BY <1>1, <3>1 DEF StartAttempt, RunInv, FailAttempt
  <2>4. ASSUME ~ IsStub, ~ lost, NothingMisleads, pc' = "train", c.stage # "Training"
        PROVE  c.stage = "PlyExport" /\ output[c.model] = Missing
    <3>1. TakeUp(c) = "train"
      BY <2>3, <2>4
    <3>2. CachedModel(c) = "none" /\ c.stage \in {"PlyExport", "SplatExport"}
      BY <1>0, <2>1, <2>4, <3>1, TakeUpFacts DEF CheckpointType, Stages
    <3>3. c = ckpt /\ c.model # "none"
      BY <1>0, <3>2 DEF RunInv
    <3>4. output[c.model] = Missing
      BY <3>2, <3>3 DEF CachedModel
    <3> QED
      BY <2>4, <3>2, <3>3, <3>4 DEF ModelInv, Good
  <2>5. TakeUp(c) \in {"reconstruct", "train", "ply", "splat"}
    BY <2>1, TakeUpFacts
  <2>6. c.stage \in {"PlyExport", "SplatExport"} => c = ckpt
    BY <1>0
  <2> HIDE DEF c
  <2> QED
    BY <2>1, <2>2, <2>3, <2>4, <2>5, <2>6 DEF ModelInv, TrainingSteps
<1>2. CASE Crash
  <2>1. IsStub' = IsStub /\ Place' = Place /\ NothingMisleads' = NothingMisleads /\ \A v : Good(v)' = Good(v)
    BY <1>2, SameEnvironment DEF Crash, Good, ghosts
  <2> QED
    BY <1>2, <2>1 DEF Crash, ModelInv, RunInv, Running, TrainingSteps, disk, ghosts
<1>3. CASE LoseModel
  BY <1>3 DEF LoseModel, ModelInv
<1>4. CASE Reconstruct \/ MatchFeatures \/ RunMapper \/ ParseSparseOutput \/ Validate
  <2>1. ckpt' = ckpt /\ pc \in Reconstructing
    BY <1>4 DEF Reconstruct, MatchFeatures, RunMapper, ParseSparseOutput, Validate, Reconstructing, disk
  <2>2. pc' \in Reconstructing \union {"idle", "ended"} /\ outcome' # "success"
    BY <1>4, <2>1
    DEF Reconstruct, ExtractFeatures, ReadCameras, MatchFeatures, RunMapper, ParseSparseOutput,
        Validate, Tool, GoTo, FailAttempt, RunInv, Reconstructing
  <2> QED
    BY <2>1, <2>2 DEF ModelInv, RunInv, Reconstructing, TrainingSteps
<1>5. CASE RecordReconstruction
  <2>1. Save(ckpt, [ckpt EXCEPT !.stage = "Training"], "train") /\ pc = "reconstructed"
        /\ ckpt.stage = "ColmapReconstruction" /\ outcome = "none"
    BY <1>5 DEF RecordReconstruction, RunInv, Reconstructing
  <2>2. ckpt'.stage \in {"Training", "ColmapReconstruction"}
        /\ pc' \in {"train", "idle", "ended"} /\ outcome' # "success"
        /\ (pc' = "train" => ckpt'.stage = "Training")
    BY <1>0, <1>e, <2>1 DEF Save, GoTo, FailAttempt
  <2> QED
    BY <2>2 DEF ModelInv, TrainingSteps
<1>6. CASE Train
  <2>1. pc = "train" /\ backend = Selected(env) /\ WrittenTo(backend) = Place /\ Place \in Spots
        /\ attempt >= 1 /\ outcome = "none"
    BY <1>6, PathTypes DEF Train, RunInv, Running, Place
  <2>2. UNCHANGED <<env, ckpt, lost, ply, splat>>
    BY <1>6 DEF Train
  <2>3. IsStub' = IsStub /\ Place' = Place /\ NothingMisleads' = NothingMisleads
    BY <2>2, SameEnvironment
  <2>4. \A s \in Spots \ {Place} : output'[s] = output[s]
    BY <1>6, <2>1 DEF Train, TypeOK
  <2>5. ~ IsStub => ~ IgnoresStatus
    BY <2>1 DEF IsStub, IgnoresStatus
  <2>6. ASSUME ~ IsStub, ~ lost, NothingMisleads
        PROVE  \/ FailAttempt(attempt)
               \/ pc' = "locate" /\ outcome' = "none" /\ Good(output[Place])'
    <3>1. Mine \notin {Missing, Leftover}
      BY <2>1, MineType
    <3>2. ASSUME output' = [output EXCEPT ![WrittenTo(backend)] = Mine], trained' = trained \union {Mine}
          PROVE  Good(output[Place])'
      BY <2>1, <2>3, <3>1, <3>2 DEF Good, TypeOK
    <3> QED
      BY <1>6, <2>1, <2>5, <2>6, <3>2 DEF Train, GoTo
  <2>7. ASSUME ~ IsStub, ~ lost, NothingMisleads, ckpt.stage \in {"PlyExport", "SplatExport"}
        PROVE  ckpt.stage = "PlyExport" /\ ckpt.model # Place /\ output'[ckpt.model] = Missing
    <3>1. ckpt.stage = "PlyExport" /\ output[ckpt.model] = Missing /\ ckpt.model # Place
      BY <2>1, <2>7 DEF ModelInv, TrainingSteps
    <3>2. ckpt.model \in Spots
      BY <2>7 DEF RunInv, TypeOK
    <3> QED
      BY <2>4, <3>1, <3>2
  <2>8. ASSUME ~ IsStub, ~ lost, NothingMisleads PROVE ckpt.stage \in {"Training", "PlyExport", "SplatExport"}
    BY <2>1 DEF RunInv, TrainingSteps
  <2>9. ASSUME FailAttempt(attempt) PROVE pc' \in {"idle", "ended"} /\ outcome' # "success"
    BY <2>1, <2>9 DEF FailAttempt
  <2> QED
    BY <2>2, <2>3, <2>6, <2>7, <2>8, <2>9 DEF ModelInv, TrainingSteps
<1>7. CASE LocateModel
  <2>1. pc = "locate" /\ backend = Selected(env) /\ outcome = "none"
    BY <1>7 DEF LocateModel, RunInv, Running
  <2>2. UNCHANGED <<env, ckpt, lost, ply, splat, trained>>
    BY <1>7 DEF LocateModel, ghosts
  <2>3. IsStub' = IsStub /\ Place' = Place /\ NothingMisleads' = NothingMisleads /\ \A v : Good(v)' = Good(v)
    BY <2>2, SameEnvironment DEF Good
  <2>4. ASSUME ~ IsStub
        PROVE  /\ output' = output
               /\ \/ FailAttempt(attempt)
                  \/ pc' = "trained" /\ outcome' = "none" /\ model' = ModelPath
    BY <1>7, <2>1, <2>4 DEF LocateModel, IsStub, GoTo
  <2>5. ASSUME ~ IsStub, ~ lost, NothingMisleads, ModelPath # Place
        PROVE  output[ModelPath] = Missing
    <3> DEFINE b == Selected(env)
    <3>1. /\ ModelPath \in Spots /\ ModelPath \in {LooksFirst(b), LooksNext(b)}
          /\ output[LooksFirst(b)] # Missing => ModelPath = LooksFirst(b)
      BY <2>1, PathFacts
    <3>2. output[Place] # Missing
      BY <2>1, <2>5 DEF ModelInv, Good
    <3>3. Place # LooksFirst(b)
      BY <2>5, <3>1, <3>2
    <3>4. env.left \intersect {LooksFirst(b), LooksNext(b)} \subseteq {Place}
      BY <2>5, <3>3 DEF NothingMisleads, Place
    <3> HIDE DEF b
    <3>5. ModelPath \notin env.left \union {Place}
      BY <2>5, <3>1, <3>4
    <3> QED
      BY <2>5, <3>1, <3>5 DEF PlaceInv
  <2>6. ASSUME FailAttempt(attempt) PROVE pc' \in {"idle", "ended"} /\ outcome' # "success"
    BY <2>1, <2>6 DEF FailAttempt
  <2> QED
    BY <2>1, <2>2, <2>3, <2>4, <2>5, <2>6 DEF ModelInv, TrainingSteps
<1>8. CASE RecordModel
  <2> DEFINE saved == [ckpt EXCEPT !.model = model]
             last == [saved EXCEPT !.stage = "PlyExport"]
  <2>1. model \in Spots /\ pc = "trained" /\ outcome = "none"
        /\ UNCHANGED <<env, output, ply, splat, trained, lost>>
    BY <1>8 DEF RecordModel, TypeOK, RunInv, ghosts
  <2>2. saved.stage = ckpt.stage /\ saved.model = model /\ saved \in CheckpointType
    BY <1>0, <2>1, CheckpointTypes DEF CheckpointType
  <2>3. last.stage = "PlyExport" /\ last.model = model
    BY <2>1, <2>2, CheckpointTypes DEF Stages
  <2>4. \/ ckpt' = last /\ pc' = "ply" /\ outcome' = "none"
        \/ /\ ckpt.stage # "Training" /\ ckpt' = saved /\ outcome' = "none"
           /\ pc' = IF ckpt.stage = "PlyExport" THEN "ply" ELSE "splat"
        \/ ckpt' \in {ckpt, saved, Fresh} /\ FailAttempt(attempt)
    BY <1>8, <2>1 DEF RecordModel, Save, GoTo
  <2>5. ASSUME FailAttempt(attempt) PROVE pc' \in {"idle", "ended"} /\ outcome' # "success"
    BY <2>1, <2>5 DEF FailAttempt
  <2>6. ASSUME ~ IsStub, ~ lost, NothingMisleads
        PROVE  /\ IF output[model] = Missing THEN model # Place ELSE Good(output[model])
               /\ ckpt.stage \in {"Training", "PlyExport"}
    <3>1. Good(output[Place]) /\ (model # Place => output[model] = Missing)
      BY <2>1, <2>6 DEF ModelInv
    <3>2. ckpt.stage \in {"Training", "PlyExport"}
      BY <2>1, <2>6 DEF ModelInv, RunInv, TrainingSteps
    <3> QED
      BY <3>1, <3>2 DEF Good
  <2>7. IsStub' = IsStub /\ Place' = Place /\ NothingMisleads' = NothingMisleads /\ \A v : Good(v)' = Good(v)
    BY <2>1, SameEnvironment DEF Good
  <2> HIDE DEF saved, last
  <2> SUFFICES ASSUME ~ IsStub, ~ lost, NothingMisleads PROVE ModelInv'
    BY <2>1, <2>7 DEF ModelInv
  <2>8. \/ ckpt'.stage = "PlyExport" /\ ckpt'.model = model
        \/ ckpt'.stage \notin {"PlyExport", "SplatExport"}
        \/ ckpt' = ckpt /\ ckpt.stage = "PlyExport"
    BY <1>0, <2>2, <2>3, <2>4, <2>6
  <2>9. pc' \in {"ply", "splat", "idle", "ended"} /\ outcome' # "success"
    BY <2>4, <2>5
  <2>10. ckpt'.stage = "PlyExport" =>
           IF output[ckpt'.model] = Missing THEN ckpt'.model # Place ELSE Good(output[ckpt'.model])
    BY <2>6, <2>8 DEF ModelInv
  <2> QED
    BY <2>1, <2>7, <2>8, <2>9, <2>10 DEF ModelInv, TrainingSteps
<1>9. CASE ExportPly
  <2>1. pc = "ply" /\ ckpt.stage = "PlyExport" /\ model = ckpt.model /\ outcome = "none"
        /\ UNCHANGED <<env, output, splat, ckpt, trained, lost>>
    BY <1>9 DEF ExportPly, RunInv, ghosts
  <2>2. \/ pc' = "plyDone" /\ outcome' = "none" /\ output[model] # Missing /\ ply' = output[model]
           /\ model' = model
        \/ FailAttempt(attempt)
    BY <1>9, <2>1 DEF ExportPly, Tool, GoTo
  <2>3. CASE FailAttempt(attempt)
    BY <2>1, <2>3, FailModel DEF Running
  <2>4. IsStub' = IsStub /\ Place' = Place /\ NothingMisleads' = NothingMisleads /\ \A v : Good(v)' = Good(v)
    BY <2>1, SameEnvironment DEF Good
  <2> QED
    BY <2>1, <2>2, <2>3, <2>4 DEF ModelInv, TrainingSteps
<1>10. CASE RecordPly
  <2>1. pc = "plyDone" /\ ckpt.stage = "PlyExport" /\ model = ckpt.model /\ outcome = "none"
        /\ UNCHANGED <<env, output, ply, splat, trained, lost>>
    BY <1>10 DEF RecordPly, RunInv, ghosts
  <2>2. \/ ckpt' = [ckpt EXCEPT !.stage = "SplatExport"] /\ pc' = "splat" /\ outcome' = "none"
        \/ ckpt' \in {ckpt, Fresh} /\ FailAttempt(attempt)
    BY <1>10, <2>1 DEF RecordPly, Save, GoTo
  <2>3. CASE ckpt' \in {ckpt, Fresh} /\ FailAttempt(attempt)
    BY <1>0, <2>1, <2>3, FailModel DEF Running
  <2>4. CASE ckpt' = [ckpt EXCEPT !.stage = "SplatExport"] /\ pc' = "splat" /\ outcome' = "none"
    <3>1. ckpt'.stage = "SplatExport" /\ ckpt'.model = ckpt.model
      BY <1>e, <2>4
    <3>2. IsStub' = IsStub /\ Place' = Place /\ NothingMisleads' = NothingMisleads /\ \A v : Good(v)' = Good(v)
      BY <2>1, SameEnvironment DEF Good
    <3> QED
      BY <2>1, <2>4, <3>1, <3>2 DEF ModelInv, TrainingSteps
  <2> QED
    BY <2>2, <2>3, <2>4
<1>11. CASE ExportSplat
  <2>1. pc = "splat" /\ ckpt.stage = "SplatExport" /\ model = ckpt.model /\ outcome = "none"
        /\ backend = Selected(env) /\ UNCHANGED <<env, output, ply, ckpt, trained, lost>>
    BY <1>11 DEF ExportSplat, RunInv, Running, ghosts
  <2>2. \/ pc' = "splatDone" /\ outcome' = "none" /\ (output[model] = ply => BothFormats')
        \/ FailAttempt(attempt)
    BY <1>11, <2>1 DEF ExportSplat, Converted, NotConverted, Tool, GoTo, BothFormats
  <2>3. CASE FailAttempt(attempt)
    BY <2>1, <2>3, FailModel DEF Running
  <2>4. IsStub' = IsStub /\ Place' = Place /\ NothingMisleads' = NothingMisleads /\ \A v : Good(v)' = Good(v)
    BY <2>1, SameEnvironment DEF Good
  <2> QED
    BY <2>1, <2>2, <2>3, <2>4 DEF ModelInv, TrainingSteps
<1>12. CASE RecordSplat
  <2>1. pc = "splatDone" /\ ckpt.stage = "SplatExport" /\ outcome = "none"
        /\ UNCHANGED <<env, output, ply, splat, trained, lost>>
    BY <1>12 DEF RecordSplat, RunInv, ghosts
  <2>2. \/ ckpt'.stage = "Completed" /\ pc' = "ended" /\ outcome' = "success"
        \/ FailAttempt(attempt) /\ (ckpt' = ckpt \/ ckpt'.stage \in {"Completed", "ColmapReconstruction"})
    BY <1>0, <1>12, <1>e DEF RecordSplat
  <2>3. CASE FailAttempt(attempt) /\ (ckpt' = ckpt \/ ckpt'.stage \in {"Completed", "ColmapReconstruction"})
    BY <2>1, <2>3, FailModel DEF Running
  <2>4. IsStub' = IsStub /\ Place' = Place /\ NothingMisleads' = NothingMisleads /\ \A v : Good(v)' = Good(v)
    BY <2>1, SameEnvironment DEF Good
  <2>5. BothFormats => BothFormats'
    BY <2>1 DEF BothFormats
  <2> QED
    BY <2>1, <2>2, <2>3, <2>4, <2>5 DEF ModelInv, TrainingSteps
<1>13. CASE Done \/ UNCHANGED vars
  BY <1>13, SameEnvironment DEF Done, vars, ModelInv, Good, BothFormats
<1> QED
  BY <1>1, <1>2, <1>3, <1>4, <1>5, <1>6, <1>7, <1>8, <1>9, <1>10, <1>11, <1>12, <1>13 DEF Next

\* Every step keeps the count.
LEMMA CountStep ==
  ASSUME TypeOK, RunInv, CountInv, [Next]_vars
  PROVE  CountInv'
<1>0. /\ ckpt \in CheckpointType
      /\ Fresh.stage = "ColmapReconstruction"
  BY DEF TypeOK, CheckpointType, Fresh
<1>1. CASE Reconstruct
  <2>1. counted' = Missing
    BY <1>1 DEF Reconstruct
  <2> QED
    BY <2>1 DEF CountInv
<1>2. CASE MatchFeatures \/ RunMapper \/ ParseSparseOutput
  <2>1. ckpt' = ckpt /\ ckpt.stage = "ColmapReconstruction" /\ outcome = "none"
    BY <1>2 DEF MatchFeatures, RunMapper, ParseSparseOutput, RunInv, Reconstructing, disk
  <2>2. pc' # "reconstructed" /\ outcome' # "success"
    BY <1>2, <2>1 DEF MatchFeatures, RunMapper, ParseSparseOutput, Tool, GoTo, FailAttempt
  <2> QED
    BY <2>1, <2>2 DEF CountInv, Passed
<1>3. CASE Validate
  <2>1. ckpt' = ckpt /\ ckpt.stage = "ColmapReconstruction" /\ outcome = "none"
        /\ UNCHANGED <<counted, good>>
    BY <1>3 DEF Validate, RunInv, Reconstructing, disk, ghosts
  <2>2. (pc' # "reconstructed" /\ outcome' # "success") \/ counted \in good
    BY <1>3, <2>1 DEF Validate, MeetsMinimum, GoTo, FailAttempt
  <2> QED
    BY <2>1, <2>2 DEF CountInv, Passed
<1>4. CASE UNCHANGED <<counted, good>> /\ (Passed' => Passed)
  BY <1>4 DEF CountInv
<1>5. CASE StartAttempt
  <2>1. ckpt' \in {ckpt, Fresh} /\ UNCHANGED <<counted, good>> /\ outcome' # "success"
    BY <1>5 DEF StartAttempt, RunInv, FailAttempt, ghosts
  <2>2. pc' # "reconstructed"
    <3>1. pc' \in {TakeUp(ckpt'), "idle", "ended"}
      BY <1>5 DEF StartAttempt, FailAttempt
    <3>2. TakeUp(ckpt') # "reconstructed"
      BY DEF TakeUp
    <3> QED
      BY <3>1, <3>2
  <2> QED
    BY <1>0, <1>4, <2>1, <2>2 DEF Passed
<1>6. CASE RecordReconstruction
  BY <1>4, <1>6 DEF RecordReconstruction, Passed, ghosts
<1>7. CASE Crash \/ LoseModel \/ Done \/ UNCHANGED vars
  BY <1>4, <1>7 DEF Crash, LoseModel, Done, vars, Passed, disk, ghosts
<1>8. CASE Train \/ LocateModel \/ RecordModel
  <2>1. Passed /\ UNCHANGED <<counted, good>>
    BY <1>8 DEF Train, LocateModel, RecordModel, RunInv, TrainingSteps, Passed, ghosts
  <2> QED
    BY <1>4, <2>1
<1>9. CASE ExportPly \/ RecordPly \/ ExportSplat \/ RecordSplat
  <2>1. Passed /\ UNCHANGED <<counted, good>>
    BY <1>9 DEF ExportPly, RecordPly, ExportSplat, RecordSplat, RunInv, Passed, ghosts
  <2> QED
    BY <1>4, <2>1
<1> QED
  BY <1>1, <1>2, <1>3, <1>5, <1>6, <1>7, <1>8, <1>9 DEF Next

\* Every step keeps all of it.
LEMMA DeliveryStep == DeliveryInv /\ [Next]_vars => DeliveryInv'
BY TypeStep, RunStep, PlaceStep, ModelStep, CountStep DEF DeliveryInv

\* Through all failures, crashes and resumptions, the PLY export of a successful
\* job is of a model that one of its own trainings has made, and the splat export
\* is of the same one when the converters leave their files.  The stub of the C++
\* backend is left out, and so are jobs whose models were removed between two
\* attempts, and jobs in a folder with a misleading model of an earlier one.
THEOREM OneTrainedModel == Spec => []DeliversOneTrainedModel
<1>1. DeliveryInv => DeliversOneTrainedModel
  BY DEF DeliveryInv, ModelInv, DeliversOneTrainedModel, Good, BothFormats
<1> QED
  BY <1>1, TypeInit, DeliveryInit, DeliveryStep, PTL DEF Spec, DeliveryInv

\* No job gets past a reconstruction that was counted and found too small.
THEOREM EnoughPoints == Spec => []TrainedOnEnoughPoints
<1>1. DeliveryInv => TrainedOnEnoughPoints
  BY DEF DeliveryInv, CountInv, Passed, TrainedOnEnoughPoints, Elsewhere
<1> QED
  BY <1>1, TypeInit, DeliveryInit, DeliveryStep, PTL DEF Spec, DeliveryInv

\* The mock delivers only where it was asked for, or no probe has found a GPU.
THEOREM MockOnlyAsked == Spec => []NoMockUnasked
<1>1. TypeOK => NoMockUnasked
  BY MockIsAskedFor DEF TypeOK, NoMockUnasked
<1> QED
  BY <1>1, TypeInit, TypeStep, PTL DEF Spec

-----------------------------------------------------------------------------
(* The backend of a job. *)

\* What a GPU decides when nothing else does: CUDA comes first, whatever has
\* found it.
ByGpu(e) ==
  IF e.probes \cap {"nvidia-smi", "pytorch"} # {} THEN "gsplat"
  ELSE IF e.probes # {} THEN "gaussian-splatting" ELSE "mock"

\* The rule for the name, without the order in which anybody is asked.
NameByRule(e) ==
  IF e.BACKEND # "none" THEN e.BACKEND
  ELSE IF e.program THEN "gaussian-splatting"
  ELSE IF e.forced THEN "mock"
  ELSE ByGpu(e)

\* The rule for plugins: there is a library that works, and none of its name in
\* a search path before it.
FoundByRule(e, name) ==
  \/ name \in Builtin
  \/ /\ name = e.named
     /\ \E i \in DOMAIN Places :
          /\ e.libs[Places[i]] = "good"
          /\ \A k \in 1 .. i - 1 : e.libs[Places[k]] \in {"no directory", "no library"}

\* The least of some of the first four numbers.
LEMMA LeastOfFour ==
  ASSUME NEW S \in SUBSET (1 .. 4), S # {}
  PROVE  /\ Min(S) \in S
         /\ \A i \in S : Min(S) <= i
<1>1. \E i \in S : \A k \in S : i <= k
  <2>1. 1 \in S \/ 2 \in S \/ 3 \in S \/ 4 \in S
    <3>1. PICK i \in S : i \in 1 .. 4
      OBVIOUS
    <3> QED
      BY <3>1
  <2> QED
    BY <2>1
<1> QED
  BY <1>1 DEF Min

\* The probes in their order come to what the GPU decides.
LEMMA ProbesByRule ==
  ASSUME NEW e \in Environments
  PROVE  RecommendBackend(DetectGpu(e)) = ByGpu(e)
<1> DEFINE answers == {i \in DOMAIN Detectors : Detectors[i].probe \in e.probes}
<1>1. /\ DOMAIN Detectors = 1 .. 4
      /\ Detectors[1].probe = "nvidia-smi" /\ Detectors[1].platform = "Cuda"
      /\ Detectors[2].probe = "pytorch" /\ Detectors[2].platform = "Cuda"
      /\ Detectors[3].probe = "sysctl" /\ Detectors[3].platform = "Metal"
      /\ Detectors[4].probe = "rocm-smi" /\ Detectors[4].platform = "Rocm"
  BY DEF Detectors
<1>2. e.probes \subseteq {"nvidia-smi", "pytorch", "sysctl", "rocm-smi"}
  <2>1. \A p \in e.probes : \E i \in 1 .. 4 : p = Detectors[i].probe
    BY <1>1, EnvironmentsAssumption
  <2> QED
    BY <1>1, <2>1
<1>3. /\ RecommendBackend("Cuda") = "gsplat"
      /\ RecommendBackend("Metal") = "gaussian-splatting"
      /\ RecommendBackend("Rocm") = "gaussian-splatting"
      /\ RecommendBackend("None") = "mock"
  BY Zenon DEF RecommendBackend
<1>4. answers = {} <=> e.probes = {}
  BY <1>1, <1>2
<1>5. CASE e.probes = {}
  BY <1>3, <1>4, <1>5 DEF DetectGpu, ByGpu
<1>6. CASE e.probes # {}
  <2>1. Min(answers) \in answers /\ \A i \in answers : Min(answers) <= i
    BY <1>1, <1>4, <1>6, LeastOfFour
  <2>2. DetectGpu(e) = Detectors[Min(answers)].platform
    BY <1>4, <1>6 DEF DetectGpu
  <2>3. Min(answers) \in {1, 2} <=> e.probes \cap {"nvidia-smi", "pytorch"} # {}
    <3>1. (1 \in answers <=> "nvidia-smi" \in e.probes) /\ (2 \in answers <=> "pytorch" \in e.probes)
      BY <1>1
    <3> QED
      BY <1>1, <2>1, <3>1
  <2>4. CASE Min(answers) \in {1, 2}
    BY <1>1, <1>3, <2>2, <2>3, <2>4 DEF ByGpu
  <2>5. CASE Min(answers) \in {3, 4}
    BY <1>1, <1>3, <1>6, <2>2, <2>3, <2>5 DEF ByGpu
  <2> QED
    BY <1>1, <2>1, <2>4, <2>5
<1> QED
  BY <1>5, <1>6

\* The name a job gets is the one of the rule.
LEMMA SelectedByRule == ASSUME NEW e \in Environments PROVE Selected(e) = NameByRule(e)
BY ProbesByRule, EnvironmentsAssumption
DEF Selected, ConfigBackend, ResolveBackendName, AutoSelectBackend, NameByRule

\* Of two numbers that are not apart.
LEMMA NotApart ==
  ASSUME NEW i \in 1 .. 4, NEW k \in 1 .. 4, i <= k, i \notin 1 .. k - 1
  PROVE  k = i
OBVIOUS

\* What loads is what is found by the rule.
LEMMA LoadsByRule ==
  ASSUME NEW e \in Environments, NEW name
  PROVE  Loads(e, name) <=> FoundByRule(e, name)
<1> DEFINE hits == {i \in DOMAIN Places :
                      name = e.named /\ e.libs[Places[i]] \in {"broken", "good"}}
<1>1. DOMAIN Places = 1 .. 4
  BY DEF Places
<1>2. \A i \in 1 .. 4 : e.libs[Places[i]] \in {"no directory", "no library", "broken", "good"}
  BY <1>1, EnvironmentsAssumption DEF Library
<1>3. CASE hits = {}
  <2>1. FindPlugin(e, name) = "no library"
    BY <1>3 DEF FindPlugin
  <2> QED
    BY <1>1, <1>3, <2>1 DEF Loads, FoundByRule
<1>4. CASE hits # {}
  <2>1. PICK first \in 1 .. 4 : /\ first = Min(hits) /\ first \in hits
                                /\ \A i \in hits : first <= i
    BY <1>1, <1>4, LeastOfFour
  <2>2. FindPlugin(e, name) = e.libs[Places[first]]
    BY <1>4, <2>1 DEF FindPlugin
  <2>3. name = e.named /\ e.libs[Places[first]] \in {"broken", "good"}
    BY <1>1, <2>1
  <2>4. \A k \in 1 .. first - 1 : e.libs[Places[k]] \in {"no directory", "no library"}
    <3> SUFFICES ASSUME NEW k \in 1 .. first - 1
                 PROVE  e.libs[Places[k]] \in {"no directory", "no library"}
      OBVIOUS
    <3>1. k \in 1 .. 4 /\ k \notin hits
      BY <2>1, <2>3
    <3> QED
      BY <1>1, <1>2, <2>3, <3>1
  <2>5. \A i \in 1 .. 4 :
          e.libs[Places[i]] = "good"
            /\ (\A k \in 1 .. i - 1 : e.libs[Places[k]] \in {"no directory", "no library"})
          => i = first
    <3> SUFFICES ASSUME NEW i \in 1 .. 4, e.libs[Places[i]] = "good",
                        \A k \in 1 .. i - 1 : e.libs[Places[k]] \in {"no directory", "no library"}
                 PROVE  i = first
      OBVIOUS
    <3>1. i \in hits
      BY <1>1, <2>3
    <3>2. first <= i
      BY <2>1, <3>1
    <3>3. first \notin 1 .. i - 1
      BY <2>3
    <3> QED
      BY <3>2, <3>3, NotApart
  <2> QED
    BY <1>1, <2>2, <2>3, <2>4, <2>5 DEF Loads, FoundByRule
<1> QED
  BY <1>3, <1>4

\* Every attempt at a job runs with the same backend, which is there.
RunsByRule == pc \in Running => backend = NameByRule(env) /\ FoundByRule(env, NameByRule(env))

\* The backend is chosen at the start of an attempt, and kept until its end.
LEMMA RuleStep == TypeOK /\ RunsByRule /\ [Next]_vars => RunsByRule'
<1> SUFFICES ASSUME TypeOK, RunsByRule, [Next]_vars PROVE RunsByRule'
  OBVIOUS
<1>1. env' = env /\ env \in Environments
  BY DEF TypeOK, Next, vars, StartAttempt, Crash, LoseModel, Reconstruct, MatchFeatures,
     RunMapper, ParseSparseOutput, Validate, RecordReconstruction, Train, LocateModel,
     RecordModel, ExportPly, RecordPly, ExportSplat, RecordSplat, Done
<1>2. CASE StartAttempt
  <2>1. \/ backend' = Selected(env) /\ Loads(env, Selected(env))
        \/ pc' \notin Running
    BY <1>2 DEF StartAttempt, FailAttempt, Running
  <2> QED
    BY <1>1, <2>1, SelectedByRule, LoadsByRule DEF RunsByRule
<1>3. CASE ~ StartAttempt
  <2>1. \/ pc' \notin Running
        \/ pc \in Running /\ backend' = backend
    BY <1>3 DEF Next, vars, Crash, LoseModel, Reconstruct, MatchFeatures,
       RunMapper, ParseSparseOutput, Validate, RecordReconstruction, Train, LocateModel,
       RecordModel, ExportPly, RecordPly, ExportSplat, RecordSplat, Done, Running,
       Tool, GoTo, FailAttempt, ExtractFeatures, ReadCameras, Save, Converted, NotConverted
  <2> QED
    BY <1>1, <2>1 DEF RunsByRule
<1> QED
  BY <1>2, <1>3

\* Whatever is probed, configured or lying in the search paths, every attempt at a
\* job runs with the one backend that a rule of four lines names: BACKEND, then the
\* configuration's own, then FORCE_CPU_BACKEND, then the best GPU; and with no
\* library but a working one in the first search path that has any.
THEOREM BackendByRule == Spec => []RunsByRule
<1>1. Init => RunsByRule
  BY DEF Init, RunsByRule, Running
<1> QED
  BY <1>1, RuleStep, TypeInit, TypeStep, PTL DEF Spec

=============================================================================
