--------------------------- MODULE BatchJobProofs ---------------------------
(***************************************************************************)
(* What the batch mode keeps, for every set of blobs and outputs, every    *)
(* number of runs and every fault: no blob is ever nowhere, a video that   *)
(* is archived as processed was published, and a run that exits with 0     *)
(* leaves outputs that belong together.                                    *)
(***************************************************************************)
EXTENDS BatchJob, TLAPS

USE BlobsAssumption, BoundsAssumption, FaultsAssumption

-----------------------------------------------------------------------------
(* Types. *)

CloudType ==
  /\ input \in Container /\ processed \in Container /\ failed \in Container
  /\ versions \in Container
  /\ output \in Files

DiskType ==
  /\ results \in Files
  /\ local \in Container
  /\ begun \in Sources /\ frames \in Sources

RunType ==
  /\ phase \in Phases
  /\ todo \in SUBSET (Blobs \union Outputs)
  /\ phase \in {"downloading", "copying", "deleting"} => todo \subseteq Blobs
  /\ phase = "uploading" => todo \subseteq Outputs
  /\ listed \subseteq Blobs
  /\ verdict \in {"none", "success", "failure", "unsaved"}
  /\ phase \in {"moving", "copying", "deleting", "cleaning"} => verdict # "none"
  /\ code \in {"none", "zero", "one", "killed"}
  /\ clean \in BOOLEAN
  /\ runs \in 0 .. MaxRuns

\* TypeOK by the groups of variables.
LEMMA TypeParts == TypeOK <=> CloudType /\ DiskType /\ RunType
BY DEF TypeOK, CloudType, DiskType, RunType

\* Nothing is anywhere at the start.
LEMMA TypeInit == Init => TypeOK
<1> SUFFICES ASSUME Init PROVE TypeOK
  OBVIOUS
<1>1. NoBlobs \in Container /\ NoFiles \in Files /\ {} \in Sources
  BY DEF NoBlobs, Container, Versions, NoFiles, Files, Sources
<1>2. clean \in BOOLEAN
  BY DEF Init
<1>3. CloudType /\ DiskType
  BY <1>1 DEF Init, CloudType, DiskType
<1>4. RunType
  BY <1>2 DEF Init, RunType, Phases
<1> QED
  BY <1>3, <1>4, TypeParts

\* What a container or a folder holds are sources.
LEMMA ContentsType == ASSUME NEW c \in Container PROVE Contents(c) \in Sources
BY DEF Container, Contents, In, Sources, Versions

\* Every step keeps the types of the containers.
LEMMA CloudStep == TypeOK /\ [Next]_vars => CloudType'
<1> SUFFICES ASSUME TypeOK, [Next]_vars PROVE CloudType'
  OBVIOUS
<1> USE TypeParts DEF CloudType, Container
<1>1. 0 \in Versions
  BY DEF Versions
<1>2. ASSUME NEW b \in Blobs, Write(b) PROVE CloudType'
  <2>1. versions[b] + 1 \in Versions
    BY <1>2 DEF Write, Versions
  <2> QED
    BY <1>2, <2>1 DEF Write
<1>3. ASSUME NEW b \in Blobs, Copy(b) PROVE CloudType'
  <2>1. CASE verdict = "success"
    BY <1>3, <2>1 DEF Copy, Copied
  <2>2. CASE verdict # "success"
    BY <1>3, <2>2 DEF Copy, Copied
  <2> QED
    BY <2>1, <2>2
<1>4. ASSUME NEW b \in Blobs, Delete(b) PROVE CloudType'
  BY <1>1, <1>4 DEF Delete
<1>5. ASSUME NEW f \in Outputs, Upload(f) PROVE CloudType'
  BY <1>5 DEF Upload, DiskType, Files
<1>6. CASE UNCHANGED cloud
  BY <1>6 DEF cloud
<1> QED
  BY <1>2, <1>3, <1>4, <1>5, <1>6
  DEF Next, Run, Move, Start, ListInput, Download, DownloadFails, RunPipeline,
      PipelineSucceeds, PipelineFails, UploadFails, Uploaded, ListMove, MoveFails, AllCopied,
      AllDeleted, CleanUp, Crash, Finished, vars

\* Every step keeps the types of the local folders.
LEMMA DiskStep == TypeOK /\ [Next]_vars => DiskType'
<1> SUFFICES ASSUME TypeOK, [Next]_vars PROVE DiskType'
  OBVIOUS
<1> USE TypeParts DEF DiskType
<1>1. NoBlobs \in Container /\ NoFiles \in Files /\ {} \in Sources
  BY DEF NoBlobs, Container, Versions, NoFiles, Files, Sources
<1>2. CASE Start \/ CleanUp
  BY <1>1, <1>2 DEF Start, CleanUp, disk
<1>3. ASSUME NEW b \in Blobs, Download(b) PROVE DiskType'
  BY <1>3 DEF Download, CloudType, Container
<1>4. CASE RunPipeline
  <2>1. Discovered \in Sources
    BY ContentsType DEF Discovered, Sources
  <2> QED
    BY <1>1, <1>4, <2>1 DEF RunPipeline
<1>5. CASE PipelineSucceeds
  <2>1. frames' \in Sources
    BY <1>5 DEF PipelineSucceeds, Sources
  <2> QED
    BY <1>1, <1>5, <2>1 DEF PipelineSucceeds, Files
<1>6. CASE PipelineFails \/ Crash
  <2>1. frames' \in {frames, frames \union begun}
    BY <1>6 DEF PipelineFails, Crash, LeavesFrames
  <2>2. frames' \in Sources
    BY <2>1 DEF Sources
  <2> QED
    BY <1>6, <2>2 DEF PipelineFails, Crash
<1>7. CASE UNCHANGED disk
  BY <1>7 DEF disk
<1> QED
  BY <1>2, <1>3, <1>4, <1>5, <1>6, <1>7
  DEF Next, Run, Move, Write, ListInput, DownloadFails, Upload, UploadFails, Uploaded,
      ListMove, MoveFails, Copy, AllCopied, Delete, AllDeleted, Finished, vars

\* Every step keeps the types of the run.
LEMMA RunStep == TypeOK /\ [Next]_vars => RunType'
<1> SUFFICES ASSUME TypeOK, [Next]_vars PROVE RunType'
  OBVIOUS
<1> USE TypeParts DEF RunType, Phases, Go, Exits
<1>1. In(input) \subseteq Blobs
  BY DEF In
<1>2. CASE Start
  <2>1. clean' \in BOOLEAN
    BY <1>2 DEF Start
  <2> QED
    BY <1>2, <2>1 DEF Start
<1>3. CASE ListInput \/ ListMove
  BY <1>1, <1>3 DEF ListInput, ListMove
<1>4. CASE \E b \in Blobs : Download(b) \/ Copy(b) \/ Delete(b)
  BY <1>4 DEF Download, Copy, Delete
<1>5. CASE \E f \in Outputs : Upload(f)
  BY <1>5 DEF Upload
<1>6. CASE DownloadFails \/ RunPipeline \/ PipelineSucceeds \/ PipelineFails \/ UploadFails
           \/ Uploaded
  BY <1>6 DEF DownloadFails, RunPipeline, PipelineSucceeds, PipelineFails, UploadFails, Uploaded
<1>7. CASE MoveFails \/ AllCopied \/ AllDeleted
  BY <1>7 DEF MoveFails, AllCopied, AllDeleted, MoveEnds
<1>8. CASE CleanUp \/ Crash
  BY <1>8 DEF CleanUp, Crash
<1>9. CASE UNCHANGED run
  BY <1>9 DEF run
<1> QED
  BY <1>2, <1>3, <1>4, <1>5, <1>6, <1>7, <1>8, <1>9 DEF Next, Run, Move, Write, Finished, vars

\* Every step keeps the types.
LEMMA TypeStep == TypeOK /\ [Next]_vars => TypeOK'
BY CloudStep, DiskStep, RunStep, TypeParts DEF TypeOK, CloudType, DiskType, RunType

\* TypeOK holds in every state of every run (run_batch_job).
THEOREM TypeCorrect == Spec => []TypeOK
BY TypeInit, TypeStep, PTL DEF Spec

-----------------------------------------------------------------------------
(* No blob is nowhere. *)

\* Where move_blobs copies to.
Archive == IF verdict = "success" THEN processed ELSE failed

\* What is in the input container is the newest version, and until its blob is
\* deleted a copied version is there twice.
MoveInv ==
  /\ \A b \in Blobs : input[b] \in {0, versions[b]}
  /\ phase = "copying" =>
       /\ todo \subseteq listed
       /\ \A b \in listed \ Late : input[b] # 0 /\ (b \notin todo => Archive[b] = input[b])
  /\ phase = "deleting" => \A b \in todo \ Late : Archive[b] = input[b]

LostInv == MoveInv /\ NoBlobLost

\* There is no blob at the start.
LEMMA LostInit == Init => LostInv
BY DEF Init, LostInv, MoveInv, NoBlobLost, NoBlobs, Container

\* A step that leaves the containers alone and is not on the way from a listing
\* to the deletions keeps LostInv.
LEMMA LostElsewhere ==
  ASSUME LostInv, UNCHANGED <<input, processed, failed, versions>>,
         phase' \notin {"copying", "deleting"}
  PROVE  LostInv'
BY DEF LostInv, MoveInv, NoBlobLost

\* Only a copied blob is deleted.
LEMMA LostStep == TypeOK /\ LostInv /\ [Next]_vars => LostInv'
<1> SUFFICES ASSUME TypeOK, LostInv, [Next]_vars PROVE LostInv'
  OBVIOUS
<1> USE DEF TypeOK, Container, LostInv, MoveInv, NoBlobLost, Go
<1>1. ASSUME NEW b \in Blobs, Write(b) PROVE LostInv'
  <2>1. /\ versions' = [versions EXCEPT ![b] = versions[b] + 1]
        /\ input' = [input EXCEPT ![b] = versions[b] + 1]
        /\ UNCHANGED <<processed, failed, phase, todo, listed, verdict>>
    BY <1>1 DEF Write, run
  <2>2. b \in Late \/ phase = "down"
    BY <1>1 DEF Write
  <2> QED
    BY <2>1, <2>2 DEF Archive
<1>2. CASE ListMove
  BY <1>2 DEF ListMove, In, cloud
<1>3. ASSUME NEW b \in Blobs, Copy(b) PROVE LostInv'
  <2>1. CASE verdict = "success"
    BY <1>3, <2>1 DEF Copy, Copied, Archive
  <2>2. CASE verdict # "success"
    BY <1>3, <2>2 DEF Copy, Copied, Archive
  <2> QED
    BY <2>1, <2>2
<1>4. CASE AllCopied
  BY <1>4 DEF AllCopied, Archive, cloud
<1>5. ASSUME NEW b \in Blobs, Delete(b) PROVE LostInv'
  <2>1. /\ phase = "deleting" /\ phase' = "deleting" /\ b \in todo /\ todo' = todo \ {b}
        /\ input' = [input EXCEPT ![b] = 0] \/ input' = input
        /\ UNCHANGED <<processed, failed, versions, verdict>>
    BY <1>5 DEF Delete
  <2>2. b \notin Late => versions[b] \in {0, processed[b], failed[b]}
    BY <2>1 DEF Archive
  <2> QED
    BY <2>1, <2>2 DEF Archive
<1>6. CASE /\ UNCHANGED <<input, processed, failed, versions>>
           /\ phase' \notin {"copying", "deleting"}
  BY <1>6, LostElsewhere
<1>7. CASE UNCHANGED vars
  BY <1>7 DEF vars, cloud, run, Archive
<1> QED
  BY <1>1, <1>2, <1>3, <1>4, <1>5, <1>6, <1>7
  DEF Next, Run, Move, cloud, Exits, Start, ListInput, Download, DownloadFails, RunPipeline,
      PipelineSucceeds, PipelineFails, Upload, UploadFails, Uploaded, MoveFails, MoveEnds,
      AllDeleted, CleanUp, Crash, Finished

\* Whatever fails, and whenever the process is killed, the newest version of a
\* blob nobody writes during a move is in the input, the processed or the error
\* container (move_blobs).
THEOREM NoBlobIsLost == Spec => []NoBlobLost
<1>1. LostInv => NoBlobLost
  BY DEF LostInv
<1> QED
  BY TypeInit, TypeStep, LostInit, LostStep, <1>1, PTL DEF Spec

-----------------------------------------------------------------------------
(* What is archived as processed was published. *)

Quiet == Videos \ Late

\* The videos nobody writes now are among the sources S.
Has(S) == \A b \in Quiet : input[b] # 0 => <<b, input[b]>> \in S

\* On a host that no run has used, the quiet videos go from the input container
\* to the local folder, the job, its results and the output container.
PublishInv ==
  /\ runs = 0 => begun = {} /\ phase = "down"
  /\ phase \notin {"moving", "copying", "deleting", "cleaning"} => verdict = "none"
  /\ clean /\ phase \in {"listing", "downloading"} => begun = {}
  /\ clean /\ phase = "downloading" =>
       \A b \in Quiet \ todo : input[b] # 0 => local[b] = input[b]
  /\ clean /\ phase = "running" /\ begun # {} => Has(begun)
  /\ clean /\ phase = "uploading" =>
       \A f \in Outputs : Has(results[f]) /\ (f \notin todo => Has(output[f]))
  /\ clean /\ verdict = "success" => \A f \in Outputs : Has(output[f])

\* No run has been on the host at the start.
LEMMA PublishInit == Init => PublishInv
BY DEF Init, PublishInv

\* What is among some sources stays there as long as users write no quiet blob.
LEMMA HasStays ==
  ASSUME TypeOK, NEW S, Has(S), \A b \in Quiet : input'[b] \in {0, input[b]}
  PROVE  Has(S)'
BY DEF Has

\* Every step keeps the quiet blobs on their way.
LEMMA PublishStep == TypeOK /\ PublishInv /\ [Next]_vars => PublishInv'
<1> SUFFICES ASSUME TypeOK, PublishInv, [Next]_vars PROVE PublishInv'
  OBVIOUS
<1> USE DEF PublishInv, Go, Exits
<1>1. ASSUME NEW b \in Blobs, Write(b) PROVE PublishInv'
  <2>1. b \in Late \/ phase = "down"
    BY <1>1 DEF Write
  <2>2. UNCHANGED <<output, disk, run>>
    BY <1>1 DEF Write
  <2>3. CASE phase = "down"
    BY <2>2, <2>3 DEF disk, run
  <2>4. CASE b \in Late
    <3>1. \A a \in Quiet : input'[a] = input[a]
      BY <1>1, <2>4 DEF Write, Quiet, TypeOK, Container
    <3> QED
      BY <2>2, <3>1 DEF disk, run, Has
  <2> QED
    BY <2>1, <2>3, <2>4
<1>2. CASE Start
  <2>1. runs' # 0 /\ phase' = "listing" /\ verdict' = "none"
    BY <1>2 DEF Start, TypeOK
  <2>2. begun' = {} \/ (begun' = begun /\ (clean' => runs = 0))
    BY <1>2 DEF Start, disk
  <2> QED
    BY <2>1, <2>2
<1>3. CASE ListInput
  BY <1>3 DEF ListInput, cloud, disk, In, Quiet, TypeOK
<1>4. ASSUME NEW b \in Blobs, Download(b) PROVE PublishInv'
  BY <1>4 DEF Download, cloud, TypeOK, Container
<1>5. CASE RunPipeline
  <2>1. clean => \A b \in Quiet : input[b] # 0 => <<b, input[b]>> \in Discovered
    BY <1>5 DEF RunPipeline, Discovered, Contents, In, Quiet
  <2> QED
    BY <1>5, <2>1 DEF RunPipeline, cloud, Has
<1>6. CASE PipelineSucceeds
  <2>1. clean => Has(frames')
    BY <1>6 DEF PipelineSucceeds, Has
  <2> QED
    BY <1>6, <2>1 DEF PipelineSucceeds, cloud, Has
<1>7. ASSUME NEW f \in Outputs, Upload(f) PROVE PublishInv'
  <2>1. \A g \in Outputs : output'[g] = IF g = f THEN results[f] ELSE output[g]
    BY <1>7 DEF Upload, TypeOK, Files
  <2> QED
    BY <1>7, <2>1 DEF Upload, disk, Has
<1>8. CASE PipelineFails \/ UploadFails \/ Uploaded
  BY <1>8 DEF PipelineFails, UploadFails, Uploaded, cloud, disk, Has
<1>9. CASE ListMove \/ AllCopied \/ \E b \in Blobs : Copy(b)
  BY <1>9 DEF ListMove, AllCopied, Copy, cloud, disk, Has
<1>10. ASSUME NEW b \in Blobs, Delete(b) PROVE PublishInv'
  <2>1. \A a \in Quiet : input'[a] \in {0, input[a]}
    BY <1>10 DEF Delete, TypeOK, Container, Quiet
  <2> QED
    BY <1>10, <2>1 DEF Delete, disk, Has
<1>11. CASE MoveFails \/ AllDeleted
  BY <1>11 DEF MoveFails, AllDeleted, MoveEnds, cloud, disk, Has
<1>12. CASE DownloadFails \/ CleanUp \/ Crash
  BY <1>12 DEF DownloadFails, CleanUp, Crash, TypeOK
<1>13. CASE UNCHANGED vars
  BY <1>13 DEF vars, cloud, disk, run, Has
<1> QED
  BY <1>1, <1>2, <1>3, <1>4, <1>5, <1>6, <1>7, <1>8, <1>9, <1>10, <1>11, <1>12, <1>13
  DEF Next, Run, Move, Finished

\* A video that nobody writes meanwhile is archived as processed only after all
\* outputs made of it are in the output container, if the host is a new one
\* (batch.rs: upload, then move).  The other blobs are archived with it.
THEOREM ProcessedIsPublished == Spec => ProcessedWasPublished
<1>1. ASSUME TypeOK, LostInv, PublishInv, [Next]_vars,
             NEW b \in Quiet, processed'[b] # processed[b], clean, NEW f \in Outputs
      PROVE  <<b, processed'[b]>> \in output[f]
  <2>1. PICK a \in Blobs : Copy(a)
    BY <1>1 DEF Next, Run, Move, Write, Start, ListInput, Download, DownloadFails,
       RunPipeline, PipelineSucceeds, PipelineFails, Upload, UploadFails, Uploaded, ListMove,
       MoveFails, AllCopied, Delete, AllDeleted, CleanUp, Crash, Finished, vars, cloud
  <2>2. verdict = "success" /\ processed' = [processed EXCEPT ![a] = input[a]]
    BY <1>1, <2>1 DEF Copy, Copied
  <2>3. a = b /\ processed'[b] = input[b]
    BY <1>1, <2>2 DEF TypeOK, Container, Quiet
  <2>4. input[b] # 0
    BY <1>1, <2>1, <2>3 DEF Copy, LostInv, MoveInv, Quiet
  <2> QED
    BY <1>1, <2>2, <2>3, <2>4 DEF PublishInv, Has
<1>2. TypeOK /\ LostInv /\ PublishInv /\ [Next]_vars =>
        [\A b \in Videos \ Late : processed'[b] # processed[b] /\ clean
           => \A f \in Outputs : <<b, processed'[b]>> \in output[f]]_vars
  BY <1>1 DEF Quiet
<1> QED
  BY TypeInit, TypeStep, LostInit, LostStep, PublishInit, PublishStep, <1>2, PTL
  DEF Spec, ProcessedWasPublished

-----------------------------------------------------------------------------
(* The outputs belong together. *)

\* All files of a folder or a container have the same sources.
Alike(files) == \A f, g \in Outputs : files[f] = files[g]

\* The results of a job are alike; what is uploaded is its result.
TogetherInv ==
  /\ phase = "uploading" =>
       Alike(results) /\ \A f \in Outputs \ todo : output[f] = results[f]
  /\ phase \notin {"moving", "copying", "deleting", "cleaning"} => verdict = "none"
  /\ phase # "down" => code = "none"
  /\ verdict = "success" \/ code = "zero" => Alike(output)

\* An upload that fails ends the run with another exit code.
LEMMA TogetherStep == TypeOK /\ TogetherInv /\ [Next]_vars => TogetherInv'
<1> SUFFICES ASSUME TypeOK, TogetherInv, [Next]_vars PROVE TogetherInv'
  OBVIOUS
<1> USE DEF TogetherInv, Alike, Go, Exits
<1>1. CASE PipelineSucceeds
  BY <1>1 DEF PipelineSucceeds, cloud
<1>2. ASSUME NEW f \in Outputs, Upload(f) PROVE TogetherInv'
  <2>1. \A g \in Outputs : output'[g] = IF g = f THEN results[f] ELSE output[g]
    BY <1>2 DEF Upload, TypeOK, Files
  <2> QED
    BY <1>2, <2>1 DEF Upload, disk
<1>3. CASE PipelineFails \/ UploadFails \/ Uploaded
  BY <1>3 DEF PipelineFails, UploadFails, Uploaded, cloud, disk
<1>4. CASE ListMove \/ AllCopied \/ \E b \in Blobs : Copy(b) \/ Delete(b)
  BY <1>4 DEF ListMove, AllCopied, Copy, Delete, cloud, disk
<1>5. CASE MoveFails \/ AllDeleted
  BY <1>5 DEF MoveFails, AllDeleted, MoveEnds, cloud, disk
<1>6. CASE CleanUp \/ Crash
  BY <1>6 DEF CleanUp, Crash, cloud
<1>7. CASE Start \/ ListInput \/ DownloadFails \/ RunPipeline \/ \E b \in Blobs : Download(b)
  BY <1>7 DEF Start, ListInput, DownloadFails, RunPipeline, Download, cloud, disk
<1>8. CASE UNCHANGED vars \/ \E b \in Blobs : Write(b)
  BY <1>8 DEF Write, vars, cloud, disk, run
<1> QED
  BY <1>1, <1>2, <1>3, <1>4, <1>5, <1>6, <1>7, <1>8 DEF Next, Run, Move, Finished

\* After a run that exits with 0 the files of the output container belong
\* together, whatever earlier runs have left there (batch.rs, upload_outputs).
THEOREM OutputsAreOfOneRun == Spec => []OutputsBelongTogether
<1>1. Init => TogetherInv
  BY DEF Init, TogetherInv
<1>2. TogetherInv => OutputsBelongTogether
  BY DEF TogetherInv, Alike, OutputsBelongTogether
<1> QED
  BY TypeInit, TypeStep, TogetherStep, <1>1, <1>2, PTL DEF Spec

-----------------------------------------------------------------------------
(* The archives. *)

\* A blob of the input container is the newest of its name, what is archived is
\* not newer, and what is to be copied is there.
AgeInv ==
  /\ \A b \in Blobs :
       /\ input[b] \in {0, versions[b]}
       /\ processed[b] <= versions[b] /\ failed[b] <= versions[b]
  /\ phase = "copying" => todo \subseteq In(input)

\* The archives never go back: a blob that is archived stays there until a newer
\* version of it, or the same, is put over it, though users may write it again
\* at any time, runs are repeated after crashes, and a move that is repeated
\* copies what is archived already (move_blobs).
ArchivesGoForward ==
  [][\A b \in Blobs : processed'[b] >= processed[b] /\ failed'[b] >= failed[b]]_vars

\* The containers, and what is to be copied, change in four ways.
LEMMA AgeStep == TypeOK /\ AgeInv /\ [Next]_vars => AgeInv'
<1> SUFFICES ASSUME TypeOK, AgeInv, [Next]_vars PROVE AgeInv'
  OBVIOUS
<1> USE DEF TypeOK, Container, Versions, AgeInv, In, Go
<1>1. ASSUME NEW b \in Blobs, Write(b) PROVE AgeInv'
  <2>1. /\ versions' = [versions EXCEPT ![b] = versions[b] + 1]
        /\ input' = [input EXCEPT ![b] = versions[b] + 1]
        /\ UNCHANGED <<processed, failed, phase, todo>>
    BY <1>1 DEF Write, run
  <2> QED
    BY <2>1
<1>2. CASE ListMove
  BY <1>2 DEF ListMove, cloud
<1>3. ASSUME NEW b \in Blobs, Copy(b) PROVE AgeInv'
  <2>1. /\ UNCHANGED <<input, versions>> /\ todo' \subseteq todo /\ phase = "copying"
        /\ input[b] <= versions[b]
    BY <1>3 DEF Copy
  <2>2. CASE processed' = [processed EXCEPT ![b] = input[b]] /\ failed' = failed
    BY <2>1, <2>2
  <2>3. CASE failed' = [failed EXCEPT ![b] = input[b]] /\ processed' = processed
    BY <2>1, <2>3
  <2> QED
    BY <1>3, <2>2, <2>3 DEF Copy, Copied
<1>4. ASSUME NEW b \in Blobs, Delete(b) PROVE AgeInv'
  BY <1>4 DEF Delete
<1>5. CASE UNCHANGED <<input, processed, failed, versions>> /\ phase' # "copying"
  BY <1>5
<1>6. CASE UNCHANGED vars
  BY <1>6 DEF vars, cloud, run
<1> QED
  BY <1>1, <1>2, <1>3, <1>4, <1>5, <1>6
  DEF Next, Run, Move, cloud, Exits, Start, ListInput, Download, DownloadFails, RunPipeline,
      PipelineSucceeds, PipelineFails, Upload, UploadFails, Uploaded, MoveFails, MoveEnds,
      AllCopied, AllDeleted, CleanUp, Crash, Finished

\* Only copying changes an archive, and it copies the newest version.
LEMMA CopiesAreNewer ==
  ASSUME TypeOK, AgeInv, [Next]_vars, NEW b \in Blobs
  PROVE  processed'[b] >= processed[b] /\ failed'[b] >= failed[b]
<1> USE DEF TypeOK, Container, Versions
<1>1. ASSUME NEW a \in Blobs, Copy(a)
      PROVE  processed'[b] >= processed[b] /\ failed'[b] >= failed[b]
  <2>1. input[a] >= processed[a] /\ input[a] >= failed[a]
    BY <1>1 DEF Copy, AgeInv, In
  <2>2. CASE processed' = [processed EXCEPT ![a] = input[a]] /\ failed' = failed
    BY <2>1, <2>2
  <2>3. CASE failed' = [failed EXCEPT ![a] = input[a]] /\ processed' = processed
    BY <2>1, <2>3
  <2> QED
    BY <1>1, <2>2, <2>3 DEF Copy, Copied
<1>2. CASE UNCHANGED <<processed, failed>>
  BY <1>2
<1> QED
  BY <1>1, <1>2
  DEF Next, Run, Move, Write, Start, ListInput, Download, DownloadFails, RunPipeline,
      PipelineSucceeds, PipelineFails, Upload, UploadFails, Uploaded, ListMove, MoveFails,
      AllCopied, Delete, AllDeleted, CleanUp, Crash, Finished, vars, cloud

\* Whatever users write and whatever fails, an archived blob is replaced only by
\* its own version or a newer one (move_blobs, copy_blob).
THEOREM ArchivesAreKept == Spec => ArchivesGoForward
<1>1. Init => AgeInv
  <2> SUFFICES ASSUME Init PROVE AgeInv
    OBVIOUS
  <2>1. \A b \in Blobs : input[b] = 0 /\ versions[b] = 0 /\ processed[b] = 0 /\ failed[b] = 0
    BY DEF Init, NoBlobs
  <2>2. phase # "copying"
    BY DEF Init
  <2> QED
    BY <2>1, <2>2 DEF AgeInv
<1>2. TypeOK /\ AgeInv /\ [Next]_vars =>
        [\A b \in Blobs : processed'[b] >= processed[b] /\ failed'[b] >= failed[b]]_vars
  BY CopiesAreNewer
<1> QED
  BY <1>1, <1>2, TypeInit, TypeStep, AgeStep, PTL DEF Spec, ArchivesGoForward

-----------------------------------------------------------------------------
(* The end of a run. *)

\* The phases that are left of a run.
PhasesAhead(p) ==
  CASE p = "listing"     -> 8
    [] p = "downloading" -> 7
    [] p = "running"     -> 6
    [] p = "uploading"   -> 5
    [] p = "moving"      -> 4
    [] p = "copying"     -> 3
    [] p = "deleting"    -> 2
    [] p = "cleaning"    -> 1
    [] p = "down"        -> 0

\* The phases one by one.
LEMMA PhasePlaces ==
  /\ PhasesAhead("listing") = 8 /\ PhasesAhead("downloading") = 7
  /\ PhasesAhead("running") = 6 /\ PhasesAhead("uploading") = 5
  /\ PhasesAhead("moving") = 4 /\ PhasesAhead("copying") = 3
  /\ PhasesAhead("deleting") = 2 /\ PhasesAhead("cleaning") = 1
  /\ PhasesAhead("down") = 0
BY Zenon DEF PhasesAhead

\* A run goes from phase to phase and never back, whatever fails in it; within
\* one, what is left to treat gets less with every step, and users who write
\* meanwhile neither add to it nor take away.
Forward ==
  phase # "down" =>
    \/ PhasesAhead(phase') < PhasesAhead(phase)
    \/ phase' = phase /\ todo' \subseteq todo /\ todo' # todo
    \/ UNCHANGED run

RunsGoForward == [][Forward]_vars

\* Every run ends after as many steps as there are blobs and outputs to treat and
\* phases to go through, at whatever point operations fail (run_batch_job); that
\* each operation returns is left to the libraries.
THEOREM EveryRunEnds == Spec => RunsGoForward
<1>1. TypeOK /\ [Next]_vars => [Forward]_vars
  <2> SUFFICES ASSUME TypeOK, Next, phase # "down" PROVE Forward
    BY DEF Forward
  <2> USE PhasePlaces DEF Go, Exits, Forward
  <2>1. CASE Start \/ Finished
    BY <2>1 DEF Start, Finished
  <2>2. CASE ListInput \/ DownloadFails \/ RunPipeline \/ PipelineSucceeds \/ PipelineFails
    BY <2>2 DEF ListInput, DownloadFails, RunPipeline, PipelineSucceeds, PipelineFails
  <2>3. CASE UploadFails \/ Uploaded \/ ListMove \/ AllCopied \/ CleanUp
    BY <2>3 DEF UploadFails, Uploaded, ListMove, AllCopied, CleanUp
  <2>4. CASE MoveFails \/ AllDeleted
    BY <2>4 DEF MoveFails, AllDeleted, MoveEnds
  <2>5. CASE Crash
    BY <2>5 DEF Crash, TypeOK, Phases
  <2>6. CASE (\E b \in Blobs : Download(b) \/ Copy(b) \/ Delete(b)) \/ (\E f \in Outputs : Upload(f))
    <3>1. \E x \in todo : phase' = phase /\ todo' = todo \ {x}
      BY <2>6 DEF Download, Copy, Delete, Upload
    <3> QED
      BY <3>1
  <2>7. CASE \E b \in Blobs : Write(b)
    BY <2>7 DEF Write
  <2> QED
    BY <2>1, <2>2, <2>3, <2>4, <2>5, <2>6, <2>7 DEF Next, Run, Move
<1> QED
  BY <1>1, TypeInit, TypeStep, PTL DEF Spec, RunsGoForward

=============================================================================
