------------------------------ MODULE Training ------------------------------
(***************************************************************************)
(* Steps 5 to 8 of execute_job_internal (processor/job.rs) seen from the   *)
(* tools they start: reconstruction by COLMAP or from given cameras        *)
(* (reconstruction, colmap), training and export by the backends           *)
(* (backends), over the attempts at one job in one working folder.         *)
(*                                                                         *)
(* Every tool is a process that may fail, may fail after it has written,   *)
(* and leaves its files behind for the next attempt.  What is in a file is *)
(* a version: Leftover is from an earlier job in the same folder, whose    *)
(* tools and settings may have been others, and attempt n produces version *)
(* n + 1, since it runs each tool once.  Where a training tool leaves its  *)
(* model is up to the tool; where a backend looks for it is up to the      *)
(* backend, and that a file is there is all it looks at.                   *)
(*                                                                         *)
(* The environment e has, next to what BackendSelection reads:             *)
(*   e.recon    RECONSTRUCTION_BACKEND, "colmap" when not set              *)
(*   e.cameras  the image folder holds the cameras a job can be given      *)
(*   e.sparse   the variable that leads to a reconstruction outside the    *)
(*              working folder: "COLMAP_SPARSE_DIR", "TEMP_PATH" or "none" *)
(*   e.writes   where the training tool leaves its model                   *)
(*   e.converts the converters leave a file whenever they end well         *)
(*   e.earlier  an earlier job has left its reconstruction                 *)
(*   e.left     where earlier jobs have left models                        *)
(***************************************************************************)
EXTENDS BackendSelection

CONSTANTS
  Environments,   \* environments a process runs in
  MaxAttempts     \* bound on the attempts, over restarts of the process too

Missing  == 0
Leftover == 1
Stub     == MaxAttempts + 2   \* the placeholder of the C++ backend
Versions == Missing .. Stub

\* Where a model file can be.  "own" is a file the backend names itself.
Spots == {"point_cloud.ply", "iteration_N/point_cloud.ply",
          "point_cloud/iteration_30000/point_cloud.ply", "model.ply", "own"}

ASSUME EnvironmentsAssumption ==
  \A e \in Environments :
    /\ {e.program, e.forced, e.cameras, e.converts, e.earlier} \subseteq BOOLEAN
    /\ e.probes \subseteq {Detectors[i].probe : i \in DOMAIN Detectors}
    /\ e.libs \in [{Places[i] : i \in DOMAIN Places} -> Library]
    /\ e.sparse \in {"COLMAP_SPARSE_DIR", "TEMP_PATH", "none"}
    /\ e.writes \in Spots /\ e.left \subseteq Spots
ASSUME AttemptsAssumption == MaxAttempts \in Nat \ {0}

VARIABLES
  env,        \* the environment, which does not change
  attempt,    \* number of the attempt, 0 before the first
  pc,         \* where execute_job_internal is
  ckpt,       \* the checkpoint: the stage to do and the path of the model
  sparse,     \* colmap/sparse/0: the binary model and its text
  output,     \* output[s]: the model file at spot s
  backend,    \* the name of the backend get_backend returned, or "none"
  counted,    \* the reconstruction whose points were counted
  model,      \* local model_output: where the model is, "none" before
  ply, splat, \* the exports
  outcome,    \* "none", "success" or "failed"
  good,       \* reconstructions with enough points and images
  trained,    \* models of this job whose training ended with exit status 0
  basis,      \* basis[v]: the reconstruction model v was trained on
  lost        \* the model was removed from the folder between two attempts

disk   == <<ckpt, sparse, output, ply, splat>>
ghosts == <<good, trained, basis, lost>>
vars   == <<env, attempt, pc, ckpt, sparse, output, backend, counted, model, ply,
            splat, outcome, good, trained, basis, lost>>

Stages  == {"ColmapReconstruction", "Training", "PlyExport", "SplatExport", "Completed"}
Running == {"reconstruct", "match", "map", "count", "validate", "reconstructed",
            "train", "locate", "trained", "ply", "plyDone", "splat", "splatDone"}

TypeOK ==
  /\ env \in Environments
  /\ attempt \in 0 .. MaxAttempts
  /\ pc \in Running \union {"idle", "ended"}
  /\ ckpt \in [stage : Stages, model : Spots \union {"none"}]
  /\ sparse \in [bin : Versions, txt : Versions]
  /\ output \in [Spots -> Versions]
  /\ counted \in Versions
  /\ model \in Spots \union {"none"}
  /\ {ply, splat} \subseteq Versions
  /\ outcome \in {"none", "success", "failed"}
  /\ good \union trained \subseteq Versions
  /\ basis \in [Versions -> Versions]
  /\ lost \in BOOLEAN
  /\ (backend # "none") <=> (pc \in Running)
  /\ pc \in {"trained", "ply", "plyDone", "splat", "splatDone"} => model # "none"

Fresh == [stage |-> "ColmapReconstruction", model |-> "none"]

\* What a job finds: an empty working folder, or what earlier jobs have left in
\* it, their points counted then.
Init ==
  /\ env \in Environments
  /\ LET left == IF env.earlier THEN Leftover ELSE Missing IN
       /\ sparse = [bin |-> left, txt |-> left]
       /\ good = {left} \ {Missing}
  /\ output = [s \in Spots |-> IF s \in env.left THEN Leftover ELSE Missing]
  /\ trained = {}
  /\ attempt = 0
  /\ pc = "idle"
  /\ ckpt = Fresh
  /\ backend = "none"
  /\ counted = Missing
  /\ model = "none"
  /\ ply = Missing
  /\ splat = Missing
  /\ outcome = "none"
  /\ basis = [v \in Versions |-> Missing]
  /\ lost = FALSE

\* The version this attempt's tools produce.
Mine == attempt + 1

-----------------------------------------------------------------------------
(* Attempts. *)

\* Going on within an attempt.
GoTo(next) == pc' = next /\ UNCHANGED <<backend, outcome>>

\* Variant of FailAttempt: the registry outlives the attempt.
FailKeepingBackend(n) ==
  /\ \/ n < MaxAttempts /\ pc' = "idle" /\ UNCHANGED outcome
     \/ pc' = "ended" /\ outcome' = "failed"
  /\ model' = "none"
  /\ UNCHANGED backend

\* Attempt n ends with an error.  That is final when the retries are used up
\* or the error is a permanent one.
FailAttempt(n) ==
  /\ \/ n < MaxAttempts /\ pc' = "idle" /\ UNCHANGED outcome
     \/ pc' = "ended" /\ outcome' = "failed"
  /\ backend' = "none"
  /\ model' = "none"

\* get_cached_model of checkpoint c: only that the file exists is looked at.
CachedModel(c) ==
  IF c.model # "none" /\ output[c.model] # Missing THEN c.model ELSE "none"

\* Where an attempt with checkpoint c takes up.  When the model is missing it is
\* trained again first, whatever the stage.
TakeUp(c) ==
  IF c.stage = "ColmapReconstruction" THEN "reconstruct"
  ELSE IF c.stage = "Training" \/ CachedModel(c) = "none" THEN "train"
  ELSE IF c.stage = "PlyExport" THEN "ply"
  ELSE "splat"

\* The opening of execute_job: a completed checkpoint is not resumed.
StartAttempt ==
  /\ pc = "idle" /\ attempt < MaxAttempts
  /\ attempt' = attempt + 1
  /\ ckpt' = IF ckpt.stage = "Completed" THEN Fresh ELSE ckpt
  /\ IF Loads(env, Selected(env))
     THEN /\ backend' = Selected(env)
          /\ pc' = TakeUp(ckpt')
          /\ model' = IF TakeUp(ckpt') \in {"ply", "splat"} THEN ckpt'.model ELSE "none"
          /\ UNCHANGED outcome
     ELSE FailAttempt(attempt')
  /\ UNCHANGED <<env, sparse, output, counted, ply, splat, ghosts>>

\* The process dies; a restart makes another attempt.
Crash ==
  /\ pc \in Running
  /\ pc' = "idle"
  /\ backend' = "none"
  /\ model' = "none"
  /\ UNCHANGED <<env, attempt, disk, counted, outcome, ghosts>>

\* Somebody clears the models out of the working folder.
LoseModel ==
  /\ pc = "idle" /\ attempt \in 1 .. MaxAttempts - 1
  /\ output' = [s \in Spots |-> Missing]
  /\ lost' = TRUE
  /\ UNCHANGED <<env, attempt, pc, ckpt, sparse, backend, counted, model, ply, splat,
                 outcome, good, trained, basis>>

\* The setters and complete_stage at the end of a stage save the checkpoint
\* several times.  A save that fails may leave what was there, what an earlier
\* one of them has saved, or a file that cannot be read.
Save(saved, last, next) ==
  \/ ckpt' = last /\ GoTo(next) /\ UNCHANGED model
  \/ ckpt' \in {ckpt, saved, Fresh} /\ FailAttempt(attempt)

-----------------------------------------------------------------------------
(* Step 5: reconstruction. *)

\* A COLMAP command that leaves nothing for the next attempt but its database.
Tool(next) ==
  \/ GoTo(next) /\ UNCHANGED model
  \/ FailAttempt(attempt)

ExtractFeatures == Tool("match")

\* Reading given cameras: missing or too few of them are an error.
ReadCameras == IF env.cameras THEN Tool("reconstructed") ELSE FailAttempt(attempt)

\* The registry's choice.  An unknown name is an error.
Reconstruct ==
  /\ pc = "reconstruct"
  /\ CASE env.recon = "colmap" -> ExtractFeatures
       [] env.recon \in {"nerfstudio", "precalibrated"} -> ReadCameras
       [] OTHER -> FailAttempt(attempt)
  /\ counted' = Missing
  /\ UNCHANGED <<env, attempt, disk, ghosts>>

MatchFeatures ==
  /\ pc = "match"
  /\ Tool("map")
  /\ UNCHANGED <<env, attempt, disk, counted, ghosts>>

\* The mapper writes the binary model only.  One that fails may have written.
RunMapper ==
  /\ pc = "map"
  /\ \/ /\ sparse' = [sparse EXCEPT !.bin = Mine]
        /\ \E enough \in SUBSET {Mine} : good' = good \union enough
        /\ GoTo("count") /\ UNCHANGED model
     \/ /\ sparse' \in {sparse, [sparse EXCEPT !.bin = Mine]}
        /\ FailAttempt(attempt) /\ UNCHANGED good
  /\ UNCHANGED <<env, attempt, ckpt, output, counted, ply, splat, trained, basis, lost>>

\* parse_sparse_output: the binary model is converted only when there is no
\* text yet.
ParseSparseOutput ==
  /\ pc = "count"
  /\ \/ sparse.txt # Missing /\ counted' = sparse.txt /\ Tool("validate") /\ UNCHANGED sparse
     \/ /\ sparse.txt = Missing
        /\ sparse' = [sparse EXCEPT !.txt = sparse.bin]
        /\ counted' = sparse.bin
        /\ Tool("validate")
     \/ sparse.txt = Missing /\ FailAttempt(attempt) /\ UNCHANGED <<sparse, counted>>
  /\ UNCHANGED <<env, attempt, ckpt, output, ply, splat, ghosts>>

\* Variant of MeetsMinimum: nothing is too little.
MeetsAnyMinimum(v) == TRUE

\* validate_output on the counts of reconstruction v.
MeetsMinimum(v) == v \in good

Validate ==
  /\ pc = "validate"
  /\ IF MeetsMinimum(counted)
     THEN GoTo("reconstructed") /\ UNCHANGED model
     ELSE FailAttempt(attempt)
  /\ UNCHANGED <<env, attempt, disk, counted, ghosts>>

RecordReconstruction ==
  /\ pc = "reconstructed"
  /\ Save(ckpt, [ckpt EXCEPT !.stage = "Training"], "train")
  /\ UNCHANGED <<env, attempt, sparse, output, counted, ply, splat, ghosts>>

-----------------------------------------------------------------------------
(* Step 6: training. *)

\* A reconstruction outside the working folder stands for Missing in basis.
Elsewhere == Missing

\* What the reference implementation and the C++ one look for.
Workspace == {sparse.bin} \ {Missing}

\* gsplat lets COLMAP_SPARSE_DIR come first and a folder below TEMP_PATH last.
Searched ==
  IF env.sparse = "COLMAP_SPARSE_DIR" \/ (env.sparse = "TEMP_PATH" /\ Workspace = {})
  THEN {Elsewhere}
  ELSE Workspace

\* What the backend trains on, as the singleton of a version, or {} when it
\* finds nothing.  The mock and plugins do not need a reconstruction.
Basis ==
  CASE backend = "gsplat"                            -> Searched
    [] backend \in {"gaussian-splatting", "3dgs-cpp"} -> Workspace
    [] OTHER                                         -> {Elsewhere}

\* Variant of IgnoresStatus: no backend looks at the exit status.
IgnoresAnyStatus == TRUE

\* Whether the backend goes on when its training tool has failed.
IgnoresStatus == backend = "3dgs-cpp"

\* Where backend b has its model written: the mock and plugins name a file of
\* their own.
WrittenTo(b) == IF b \in {"gsplat", "gaussian-splatting", "3dgs-cpp"}
                THEN env.writes ELSE "own"

\* train, up to the end of the tool.  A tool that fails may have written.
Train ==
  /\ pc = "train"
  /\ LET written == [output EXCEPT ![WrittenTo(backend)] = Mine] IN
     \/ \E b \in Basis :
          /\ output' = written
          /\ trained' = trained \union {Mine}
          /\ basis' = [basis EXCEPT ![Mine] = b]
          /\ GoTo("locate") /\ UNCHANGED model
     \/ /\ output' \in {output, written}
        /\ IF Basis # {} /\ IgnoresStatus
           THEN GoTo("locate") /\ UNCHANGED model
           ELSE FailAttempt(attempt)
        /\ UNCHANGED <<trained, basis>>
     \/ Basis = {} /\ FailAttempt(attempt) /\ UNCHANGED <<output, trained, basis>>
  /\ UNCHANGED <<env, attempt, ckpt, sparse, counted, ply, splat, good, lost>>

\* The paths backend b has for its model.  The reference implementation looks
\* for iteration 30000, whatever the number of iterations it has asked for.
LooksFirst(b) ==
  CASE b = "gsplat"             -> "point_cloud.ply"
    [] b = "gaussian-splatting" -> "point_cloud/iteration_30000/point_cloud.ply"
    [] b = "3dgs-cpp"           -> "model.ply"
    [] OTHER                    -> "own"
LooksNext(b) == IF b = "gsplat" THEN "iteration_N/point_cloud.ply" ELSE LooksFirst(b)

\* The path that is returned.
ModelPath == IF output[LooksFirst(backend)] # Missing
             THEN LooksFirst(backend) ELSE LooksNext(backend)

\* Files that are taken for the model when there is none at that path.
Alternatives ==
  CASE backend = "gsplat"             -> {"model.ply"}
    [] backend = "gaussian-splatting" -> {"point_cloud.ply"}
    [] OTHER                          -> {}

\* The end of train: the path is returned when there is a file there, or when
\* there is an alternative, which is not returned.  The C++ backend writes a
\* placeholder.
LocateModel ==
  /\ pc = "locate"
  /\ LET found == \E s \in {ModelPath} \union Alternatives : output[s] # Missing IN
     \/ found /\ model' = ModelPath /\ GoTo("trained") /\ UNCHANGED output
     \/ /\ ~found /\ backend = "3dgs-cpp"
        /\ output' = [output EXCEPT ![ModelPath] = Stub]
        /\ model' = ModelPath /\ GoTo("trained")
     \/ ~found /\ backend # "3dgs-cpp" /\ FailAttempt(attempt) /\ UNCHANGED output
  /\ UNCHANGED <<env, attempt, ckpt, sparse, counted, ply, splat, ghosts>>

\* The model's path and, unless this was a repeated training, the stage.
RecordModel ==
  /\ pc = "trained"
  /\ LET saved == [ckpt EXCEPT !.model = model] IN
     IF ckpt.stage = "Training"
     THEN Save(saved, [saved EXCEPT !.stage = "PlyExport"], "ply")
     ELSE Save(saved, saved, IF ckpt.stage = "PlyExport" THEN "ply" ELSE "splat")
  /\ UNCHANGED <<env, attempt, sparse, output, counted, ply, splat, ghosts>>

-----------------------------------------------------------------------------
(* Steps 7 and 8: the exports. *)

\* export_ply copies the file the model's path names.
ExportPly ==
  /\ pc = "ply"
  /\ \/ output[model] # Missing /\ ply' = output[model] /\ Tool("plyDone")
     \/ FailAttempt(attempt) /\ UNCHANGED ply
  /\ UNCHANGED <<env, attempt, ckpt, sparse, output, counted, splat, ghosts>>

RecordPly ==
  /\ pc = "plyDone"
  /\ Save(ckpt, [ckpt EXCEPT !.stage = "SplatExport"], "splat")
  /\ UNCHANGED <<env, attempt, sparse, output, counted, ply, splat, ghosts>>

\* export_splat has the file converted; gsplat tries three converters.
Converted == output[model] # Missing /\ splat' = output[model] /\ Tool("splatDone")

\* The converter ends well without a file.  Nobody looks for it but the C++
\* backend, which writes a placeholder; a file of an earlier attempt stays.
NotConverted ==
  /\ output[model] # Missing /\ backend # "mock" /\ ~ env.converts
  /\ splat' = IF splat = Missing /\ backend = "3dgs-cpp" THEN Stub ELSE splat
  /\ GoTo("splatDone") /\ UNCHANGED model

ExportSplat ==
  /\ pc = "splat"
  /\ Converted \/ NotConverted \/ (FailAttempt(attempt) /\ UNCHANGED splat)
  /\ UNCHANGED <<env, attempt, ckpt, sparse, output, counted, ply, ghosts>>

\* complete_stage and finalize, and the result of the job.
RecordSplat ==
  /\ pc = "splatDone"
  /\ LET last == [ckpt EXCEPT !.stage = "Completed"] IN
     \/ ckpt' = last /\ pc' = "ended" /\ outcome' = "success" /\ backend' = "none"
        /\ UNCHANGED model
     \/ ckpt' \in {ckpt, last, Fresh} /\ FailAttempt(attempt)
  /\ UNCHANGED <<env, attempt, sparse, output, counted, ply, splat, ghosts>>

\* The job has its result, or nobody attempts it again.
Done ==
  /\ pc = "ended" \/ (pc = "idle" /\ attempt = MaxAttempts)
  /\ UNCHANGED vars

Next ==
  \/ StartAttempt \/ Crash \/ LoseModel
  \/ Reconstruct \/ MatchFeatures \/ RunMapper \/ ParseSparseOutput \/ Validate
  \/ RecordReconstruction
  \/ Train \/ LocateModel \/ RecordModel
  \/ ExportPly \/ RecordPly \/ ExportSplat \/ RecordSplat
  \/ Done

Spec == Init /\ [][Next]_vars

-----------------------------------------------------------------------------
(* Properties. *)

\* The backend that is a stub by its own comments.
IsStub == Selected(env) = "3dgs-cpp"

\* The tool writes where the backend looks first, or no model of an earlier job is
\* at a path where the backend looks and the tool does not write.
NothingMisleads ==
  LET b == Selected(env)
  IN  \/ WrittenTo(b) = LooksFirst(b)
      \/ env.left \intersect {LooksFirst(b), LooksNext(b)} \subseteq {WrittenTo(b)}

\* A successful job delivers one model through all failures, crashes and
\* resumptions between the two exports, and that model was trained in one of its
\* own attempts by a tool that ended well: it is not what a failing tool had
\* written, nor a placeholder.  With a converter that leaves a file whenever it
\* ends well, both formats are of it.  This is so where no model of an earlier
\* job misleads the backend, and of models that are not removed behind the job's
\* back: the training that is to replace one may fail with the file written, and
\* the next attempt takes that for the model of the checkpoint.
DeliversOneTrainedModel ==
  outcome = "success" /\ ~IsStub /\ ~lost /\ NothingMisleads =>
    /\ ply \in trained
    /\ env.converts => splat = ply

\* A model delivered from a reconstruction whose points were the ones counted
\* was trained on one that passed the minimum.
TrainedOnEnoughPoints ==
  outcome = "success" /\ ~IsStub /\ basis[ply] # Elsewhere /\ basis[ply] = counted
    => basis[ply] \in good

\* No job that can have a GPU is given to the mock without anybody having asked
\* for it, and one that has asked for a backend gets that one or fails.
NoMockUnasked ==
  outcome = "success" /\ Selected(env) = "mock"
    => env.BACKEND = "mock" \/ env.forced \/ env.probes = {}

\* What the minimum is compared with is the reconstruction that training will
\* read (src/src/reconstruction/backend.rs:46).
CountsTheReconstruction ==
  pc = "reconstructed" /\ env.recon = "colmap" => counted = sparse.bin
=============================================================================
