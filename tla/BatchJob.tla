------------------------------ MODULE BatchJob ------------------------------
(***************************************************************************)
(* The batch mode (processor/batch.rs on azure/sdk.rs): one run of the     *)
(* process downloads the blobs under a prefix of the input container, runs *)
(* the pipeline on them, uploads the outputs, moves the input blobs to     *)
(* another container and exits.  The shutdown flag is never looked at, so  *)
(* that a signal is a crash like any other.                                *)
(*                                                                         *)
(* Blobs are written by users, who give each a new version with every      *)
(* write; version 0 is no blob.  A container maps blobs to versions.  All  *)
(* blobs are downloaded and moved, but discover_videos takes only the      *)
(* videos among them that do not lie in a folder of their own.  An output  *)
(* file is modelled by its sources, the set of blob versions it was made   *)
(* of; a file that does not exist has none.  The local folders are named   *)
(* by the job and the frames of all jobs go to one folder, so that a run   *)
(* finds what an earlier one on its host has left there.  What happens     *)
(* inside the pipeline is the subject of JobPipeline.                      *)
(***************************************************************************)
EXTENDS Naturals

CONSTANTS
  Blobs,        \* names of the blobs under the prefix
  Videos,       \* blobs directly under the prefix that have a video's extension
  Late,         \* blobs that users write while a job runs, too
  Outputs,      \* output files of a job
  MaxVersions,  \* bound on the versions of one blob
  MaxRuns,      \* bound on the runs of the job
  Faults        \* which operations may fail

ASSUME BlobsAssumption == Videos \subseteq Blobs /\ Late \subseteq Blobs
ASSUME BoundsAssumption == MaxVersions \in Nat /\ MaxRuns \in Nat
ASSUME FaultsAssumption ==
  Faults \subseteq {"list", "download", "pipeline", "upload", "copy", "delete", "clean", "crash"}

VARIABLES
  input,      \* the four containers
  processed,
  failed,
  output,
  versions,   \* versions[b]: versions of blob b so far
  local,      \* local[b]: version of the file in the local input folder
  results,    \* output files in the local output folder
  begun,      \* sources of the job whose checkpoint is in that folder
  frames,     \* sources of the frames in the working folder
  phase,      \* where run_batch_job is
  todo,       \* what the loop of this phase has not treated yet
  listed,     \* blobs that move_blobs has listed
  verdict,    \* what the run comes to: "success", "failure", "unsaved" or "none"
  code,       \* how the last run ended
  clean,      \* the run started on a host that no run has used before
  runs        \* runs so far

cloud == <<input, processed, failed, output, versions>>
disk  == <<local, results, begun, frames>>
run   == <<phase, todo, listed, verdict, code, clean, runs>>
vars  == <<cloud, disk, run>>

Versions == 0 .. MaxVersions
Sources == SUBSET (Blobs \X Versions)
Container == [Blobs -> Versions]
Files == [Outputs -> Sources]

In(container) == { b \in Blobs : container[b] # 0 }
Contents(container) == { <<b, container[b]>> : b \in In(container) }

\* discover_videos, of the files in the local folder.
Discovered == { s \in Contents(local) : s[1] \in Videos }

NoBlobs == [b \in Blobs |-> 0]
NoFiles == [f \in Outputs |-> {}]

Phases == {"down", "listing", "downloading", "running", "uploading",
           "moving", "copying", "deleting", "cleaning"}

TypeOK ==
  /\ input \in Container /\ processed \in Container /\ failed \in Container
  /\ versions \in Container
  /\ output \in Files /\ results \in Files
  /\ local \in Container
  /\ begun \in Sources /\ frames \in Sources
  /\ phase \in Phases
  /\ todo \in SUBSET (Blobs \union Outputs)
  /\ phase \in {"downloading", "copying", "deleting"} => todo \subseteq Blobs
  /\ phase = "uploading" => todo \subseteq Outputs
  /\ listed \subseteq Blobs
  /\ verdict \in {"none", "success", "failure", "unsaved"}
  /\ phase \in {"moving", "copying", "deleting", "cleaning"} => verdict # "none"
  /\ code \in {"none", "zero", "one", "killed"}
  /\ clean \in BOOLEAN
  /\ runs \in 0 .. MaxRuns

Init ==
  /\ input = NoBlobs /\ processed = NoBlobs /\ failed = NoBlobs
  /\ output = NoFiles
  /\ versions = NoBlobs
  /\ local = NoBlobs /\ results = NoFiles /\ begun = {} /\ frames = {}
  /\ phase = "down" /\ todo = {} /\ listed = {}
  /\ verdict = "none" /\ code = "none"
  /\ clean = TRUE
  /\ runs = 0

-----------------------------------------------------------------------------
(* Users upload, before a run or in it. *)

Write(b) ==
  /\ phase = "down" \/ b \in Late
  /\ versions[b] < MaxVersions
  /\ versions' = [versions EXCEPT ![b] = @ + 1]
  /\ input' = [input EXCEPT ![b] = versions[b] + 1]
  /\ UNCHANGED <<processed, failed, output, disk, run>>

-----------------------------------------------------------------------------
(* A run. *)

\* The run goes to the next phase, with S to be treated there.
Go(p, S) ==
  /\ phase' = p
  /\ todo' = S

\* The process exits.
Exits(c) ==
  /\ Go("down", {})
  /\ listed' = {}
  /\ verdict' = "none"
  /\ code' = c

\* The job is started on the host it ran on before, or on a new one.
Start ==
  /\ phase = "down"
  /\ runs < MaxRuns
  /\ runs' = runs + 1
  /\ Go("listing", {})
  /\ code' = "none"
  /\ \/ UNCHANGED disk /\ clean' = (runs = 0)
     \/ /\ local' = NoBlobs /\ results' = NoFiles /\ begun' = {} /\ frames' = {}
        /\ clean' = TRUE
  /\ UNCHANGED <<cloud, listed, verdict>>

\* list_blobs for download_prefix, which fails when there is nothing.
ListInput ==
  /\ phase = "listing"
  /\ \/ /\ "list" \in Faults \/ In(input) = {}
        /\ Exits("one")
     \/ /\ In(input) # {}
        /\ Go("downloading", In(input))
        /\ UNCHANGED <<listed, verdict, code>>
  /\ UNCHANGED <<cloud, disk, clean, runs>>

\* download_blob, over what the local folder has of that name.
Download(b) ==
  /\ phase = "downloading"
  /\ b \in todo
  /\ local' = [local EXCEPT ![b] = input[b]]
  /\ Go("downloading", todo \ {b})
  /\ UNCHANGED <<cloud, results, begun, frames, listed, verdict, code, clean, runs>>

\* A download fails and with it the run: nothing is moved or removed.
DownloadFails ==
  /\ "download" \in Faults
  /\ phase = "downloading"
  /\ todo # {}
  /\ Exits("one")
  /\ UNCHANGED <<cloud, disk, clean, runs>>

\* execute_job starts; it resumes from a checkpoint in the output folder, or
\* validates the videos it discovers.  Without videos, or when one of them is
\* refused, the job has begun with nothing.
RunPipeline ==
  /\ phase = "downloading"
  /\ todo = {}
  /\ Go("running", {})
  /\ IF begun = {} THEN begun' \in {{}, Discovered} ELSE begun' = begun
  /\ UNCHANGED <<cloud, local, results, frames, listed, verdict, code, clean, runs>>

\* It succeeds, with its frames and those older ones that no frame of its own
\* has overwritten; the checkpoint is of no more use.
PipelineSucceeds ==
  /\ phase = "running"
  /\ begun # {}
  /\ \E old \in SUBSET frames : frames' = begun \union old
  /\ results' = [f \in Outputs |-> frames']
  /\ begun' = {}
  /\ Go("uploading", Outputs)
  /\ UNCHANGED <<cloud, local, listed, verdict, code, clean, runs>>

\* Its frames may be there when it fails or is killed.
LeavesFrames == frames' \in {frames, frames \union begun}

\* It fails: move_to_error.
PipelineFails ==
  /\ phase = "running"
  /\ begun = {} \/ "pipeline" \in Faults
  /\ LeavesFrames
  /\ verdict' = "failure"
  /\ Go("moving", {})
  /\ UNCHANGED <<cloud, local, results, begun, listed, code, clean, runs>>

\* upload_blob overwrites.
Upload(f) ==
  /\ phase = "uploading"
  /\ f \in todo
  /\ output' = [output EXCEPT ![f] = results[f]]
  /\ Go("uploading", todo \ {f})
  /\ UNCHANGED <<input, processed, failed, versions, disk, listed, verdict, code, clean, runs>>

\* Variant of UploadFails: the error is only logged.
UploadFailsSilently ==
  /\ "upload" \in Faults
  /\ phase = "uploading"
  /\ \E f \in todo : Go("uploading", todo \ {f})
  /\ UNCHANGED <<cloud, disk, listed, verdict, code, clean, runs>>

\* Variant of UploadFails: the verdict is forgotten.
UploadFailsUnnoted ==
  /\ "upload" \in Faults
  /\ phase = "uploading"
  /\ todo # {}
  /\ Go("moving", {})
  /\ UNCHANGED <<cloud, disk, listed, verdict, code, clean, runs>>

\* An upload fails: move_to_error, with the outputs uploaded so far left there.
UploadFails ==
  /\ "upload" \in Faults
  /\ phase = "uploading"
  /\ todo # {}
  /\ verdict' = "unsaved"
  /\ Go("moving", {})
  /\ UNCHANGED <<cloud, disk, listed, code, clean, runs>>

Uploaded ==
  /\ phase = "uploading"
  /\ todo = {}
  /\ verdict' = "success"
  /\ Go("moving", {})
  /\ UNCHANGED <<cloud, disk, listed, code, clean, runs>>

-----------------------------------------------------------------------------
(* move_blobs. *)

\* list_blobs again, for what is in the input container by now.
ListMove ==
  /\ phase = "moving"
  /\ listed' = In(input)
  /\ Go("copying", In(input))
  /\ UNCHANGED <<cloud, disk, verdict, code, clean, runs>>

\* The move is over, or given up: an error of it is only logged.  The local
\* folders are kept when the outputs could not be uploaded.
MoveEnds ==
  IF verdict = "unsaved"
  THEN Exits("one")
  ELSE Go("cleaning", {}) /\ listed' = {} /\ UNCHANGED <<verdict, code>>

\* copy_blob: download and upload.
Copied(container, b) == container' = [container EXCEPT ![b] = input[b]]

\* Variant of Copy: everything but a failed job is archived as processed.
CopyUnlessFailed(b) ==
  /\ phase = "copying"
  /\ b \in todo
  /\ IF verdict # "failure"
     THEN Copied(processed, b) /\ failed' = failed
     ELSE Copied(failed, b) /\ processed' = processed
  /\ Go("copying", todo \ {b})
  /\ UNCHANGED <<input, output, versions, disk, listed, verdict, code, clean, runs>>

Copy(b) ==
  /\ phase = "copying"
  /\ b \in todo
  /\ IF verdict = "success"
     THEN Copied(processed, b) /\ failed' = failed
     ELSE Copied(failed, b) /\ processed' = processed
  /\ Go("copying", todo \ {b})
  /\ UNCHANGED <<input, output, versions, disk, listed, verdict, code, clean, runs>>

\* Variant of MoveFails: a copy that fails is skipped.
MoveFailsOne ==
  /\ phase = "copying"
  /\ "copy" \in Faults
  /\ \E b \in todo : Go("copying", todo \ {b})
  /\ UNCHANGED <<cloud, disk, listed, verdict, code, clean, runs>>

\* The listing fails, or one of the copies: those made so far stay.
MoveFails ==
  /\ \/ phase = "moving" /\ "list" \in Faults
     \/ phase = "copying" /\ todo # {} /\ "copy" \in Faults
  /\ MoveEnds
  /\ UNCHANGED <<cloud, disk, clean, runs>>

AllCopied ==
  /\ phase = "copying"
  /\ todo = {}
  /\ Go("deleting", listed)
  /\ UNCHANGED <<cloud, disk, listed, verdict, code, clean, runs>>

\* delete_blob; an error of it is only logged.
Delete(b) ==
  /\ phase = "deleting"
  /\ b \in todo
  /\ \/ input' = [input EXCEPT ![b] = 0]
     \/ "delete" \in Faults /\ input' = input
  /\ Go("deleting", todo \ {b})
  /\ UNCHANGED <<processed, failed, output, versions, disk, listed, verdict, code, clean, runs>>

AllDeleted ==
  /\ phase = "deleting"
  /\ todo = {}
  /\ MoveEnds
  /\ UNCHANGED <<cloud, disk, clean, runs>>

-----------------------------------------------------------------------------

\* cleanup_local removes the folders of the job, if it can, and the process exits.
CleanUp ==
  /\ phase = "cleaning"
  /\ \/ local' = NoBlobs
     \/ "clean" \in Faults /\ local' = local
  /\ \/ results' = NoFiles /\ begun' = {}
     \/ "clean" \in Faults /\ UNCHANGED <<results, begun>>
  /\ Exits(IF verdict = "success" THEN "zero" ELSE "one")
  /\ UNCHANGED <<cloud, frames, clean, runs>>

\* The process is killed, or its host goes down.
Crash ==
  /\ "crash" \in Faults
  /\ phase # "down"
  /\ IF phase = "running" THEN LeavesFrames ELSE frames' = frames
  /\ Exits("killed")
  /\ UNCHANGED <<cloud, local, results, begun, clean, runs>>

\* Nobody runs the job any more.
Finished ==
  /\ phase = "down"
  /\ runs = MaxRuns
  /\ UNCHANGED vars

Move == ListMove \/ MoveFails \/ AllCopied \/ AllDeleted
        \/ \E b \in Blobs : Copy(b) \/ Delete(b)

Run == Start \/ ListInput \/ DownloadFails \/ RunPipeline \/ PipelineSucceeds
       \/ PipelineFails \/ UploadFails \/ Uploaded \/ CleanUp \/ Crash
       \/ (\E b \in Blobs : Download(b)) \/ (\E f \in Outputs : Upload(f))

Next == Run \/ Move \/ Finished \/ \E b \in Blobs : Write(b)

Spec == Init /\ [][Next]_vars

-----------------------------------------------------------------------------
(* Properties. *)

\* The newest version of a blob is always in the input, processed or error
\* container: a move that is cut short or fails half-way leaves a blob twice,
\* never nowhere (move_blobs deletes only after all copies).  This is not so
\* for a blob that is written between its copy and its deletion.
NoBlobLost ==
  \A b \in Blobs \ Late : versions[b] \in {0, input[b], processed[b], failed[b]}

\* A video is archived as processed only when every file in the output container
\* was made of this version of it, provided that no run was on this host before
\* (batch.rs: upload first, then move).  Of the blobs that are no videos nothing
\* of the kind can be said: they are moved with the rest, and no output is made
\* of them (sdk.rs:272, job.rs:629).
ProcessedWasPublished ==
  [][\A b \in Videos \ Late : processed'[b] # processed[b] /\ clean
       => \A f \in Outputs : <<b, processed'[b]>> \in output[f]]_vars

\* After a run with exit code 0 the files of the output container belong
\* together, whatever an earlier run had left there half uploaded.
OutputsBelongTogether ==
  code = "zero" => \A f, g \in Outputs : output[f] = output[g]

=============================================================================
