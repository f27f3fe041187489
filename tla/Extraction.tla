----------------------------- MODULE Extraction -----------------------------
(***************************************************************************)
(* How the videos of one job become its manifest and the images of its     *)
(* reconstruction: validation, concurrent extraction of frames             *)
(* (processor/multi_video.rs), metadata, manifest (manifest/mod.rs) and    *)
(* the copy of all frames to one folder, in the attempts of                *)
(* processor/job.rs that resume from each other.                           *)
(*                                                                         *)
(* The k-th frame extracted from video v is <<v, k>>.  A frame set is a    *)
(* video with the attempt whose temporary directory holds its frames.      *)
(* Failures of saves and of the processes are the subject of JobPipeline;  *)
(* here an attempt ends early when a tool fails.                           *)
(***************************************************************************)
EXTENDS VideoMetadata

CONSTANTS
  Videos,       \* the videos of the job
  Probes,       \* what ffprobe may say of them
  Minima,       \* the validation configuration
  Rates,        \* values of FRAME_RATE, None if it is not set
  MaxCpus,      \* bound on the number of processors
  MaxFrames,    \* bound on the frames that are extracted from a video
  MaxAttempts   \* bound on the attempts

ASSUME VideosAssumption == IsFiniteSet(Videos) /\ Videos # {}
ASSUME ProbesAssumption == \A p \in Probes : p.format \in Discovered
ASSUME ReportsAssumption ==
  /\ None \notin Int \X Int
  /\ \A p \in Probes :
       /\ p.focal \in Seq((Int \X Int) \union {None})
       /\ p.focal35 \in Seq((Int \X Int) \union {None})
       /\ DOMAIN p.streams \subseteq Nat \ {0}
       /\ \A i \in DOMAIN p.streams : p.streams[i].width \in Nat \union {None}
ASSUME ExtractionBounds ==
  MaxCpus \in Nat \ {0} /\ MaxFrames \in Nat \ {0} /\ MaxAttempts \in Nat
ASSUME NoneAssumption == None \notin Videos \X (1 .. MaxFrames)

VARIABLES
  probe,      \* probe[v]: what ffprobe says of v
  rate,       \* FRAME_RATE
  cpus,       \* number of processors
  frames,     \* frames[v]: number of frames ffmpeg extracts from v
  step,       \* where execute_job_internal is
  attempt,    \* attempts so far
  stage,      \* the stage the checkpoint records
  cache,      \* the frame sets it records
  order,      \* the videos, in the order of the last read_dir
  started,    \* how many of them process_videos has taken from its stream
  flying,     \* those whose extraction runs
  broken,     \* one of the extractions has failed
  sets,       \* the frame sets of this attempt, in the order they were done
  dirs,       \* the temporary directories there are
  metas,      \* metadata of the videos in their order
  manifest,   \* None, or the manifest that was written
  images,     \* the reconstruction's folder: images[i, k] or None
  disturbed   \* directories or checkpoint were lost

inputs == <<probe, rate, cpus, frames>>
saved  == <<stage, cache, manifest, images, dirs>>
local  == <<order, started, flying, broken, sets, metas>>
vars   == <<inputs, saved, local, step, attempt, disturbed>>

Orders == { o \in [1 .. Cardinality(Videos) -> Videos] : \A v \in Videos : \E i \in DOMAIN o : o[i] = v }
FrameSets == Videos \X (1 .. MaxAttempts)
Slots == (1 .. Cardinality(Videos)) \X (1 .. MaxFrames)
Stages == {"validation", "frames", "metadata", "manifest", "colmap"}
Steps == {"idle", "validating", "finding", "extracting", "probing", "writing",
          "copying", "reconstructing", "done"}

TypeOK ==
  /\ probe \in [Videos -> Probes]
  /\ rate \in Rates
  /\ cpus \in 1 .. MaxCpus
  /\ frames \in [Videos -> 1 .. MaxFrames]
  /\ step \in Steps
  /\ attempt \in 0 .. MaxAttempts
  /\ stage \in Stages
  /\ order \in Seq(Videos) /\ started \in 0 .. Len(order)
  /\ flying \subseteq Videos /\ Cardinality(flying) <= cpus
  /\ broken \in BOOLEAN
  /\ sets \in Seq(FrameSets) /\ Len(sets) + Cardinality(flying) <= started
  /\ cache \in Seq(FrameSets)
  /\ dirs \subseteq FrameSets
  /\ DOMAIN metas = 1 .. Len(metas)
  /\ images \in [Slots -> (Videos \X (1 .. MaxFrames)) \union {None}]
  /\ disturbed \in BOOLEAN

Init ==
  /\ probe \in [Videos -> Probes]
  /\ rate \in Rates
  /\ cpus \in 1 .. MaxCpus
  /\ frames \in [Videos -> 1 .. MaxFrames]
  /\ step = "idle" /\ attempt = 0 /\ stage = "validation" /\ cache = <<>>
  /\ order = <<>> /\ started = 0 /\ flying = {} /\ broken = FALSE /\ sets = <<>>
  /\ dirs = {} /\ metas = <<>> /\ manifest = None
  /\ images = [s \in Slots |-> None]
  /\ disturbed = FALSE

-----------------------------------------------------------------------------

\* The attempt ends with an error, or the job with success.
Ends(where) ==
  /\ step' = where
  /\ order' = <<>> /\ started' = 0 /\ flying' = {} /\ broken' = FALSE
  /\ sets' = <<>> /\ metas' = <<>>

\* execute_job, at the stage of the checkpoint.
Attempt ==
  /\ step = "idle"
  /\ attempt < MaxAttempts
  /\ attempt' = attempt + 1
  /\ step' = IF stage = "validation" THEN "validating" ELSE "finding"
  /\ UNCHANGED <<inputs, saved, local, disturbed>>

\* Between two attempts the temporary directories, or the checkpoint, are lost.
Disturb ==
  /\ step = "idle"
  /\ \/ dirs' = {} /\ UNCHANGED <<stage, cache>>
     \/ stage' = "validation" /\ cache' = <<>> /\ dirs' = dirs
  /\ disturbed' = TRUE
  /\ UNCHANGED <<inputs, local, manifest, images, step, attempt>>

\* Step 1: every video must be valid.
Validate ==
  /\ step = "validating"
  /\ IF \A v \in Videos : Valid(probe[v], Minima)
     THEN stage' = "frames" /\ step' = "finding" /\ UNCHANGED local
     ELSE Ends("idle") /\ stage' = stage
  /\ UNCHANGED <<inputs, cache, manifest, images, dirs, attempt, disturbed>>

\* FrameCacheData::validate.
CacheValid == cache # <<>> /\ \A i \in DOMAIN cache : cache[i] \in dirs

\* discover_videos, in the order in which the directory is read, and the
\* decision of step 2.
Discover ==
  /\ step = "finding"
  /\ order' \in Orders
  /\ IF stage # "frames" /\ CacheValid
     THEN sets' = cache /\ started' = Cardinality(Videos) /\ step' = "probing"
     ELSE sets' = <<>> /\ started' = 0 /\ step' = "extracting"
  /\ UNCHANGED <<inputs, saved, flying, broken, metas, attempt, disturbed>>

-----------------------------------------------------------------------------
(* process_videos: buffer_unordered runs up to cpus extractions. *)

\* Variant of Extract: all extractions at once.
ExtractAll ==
  /\ step = "extracting"
  /\ started < Len(order)
  /\ started' = started + 1
  /\ flying' = flying \union {order[started + 1]}
  /\ UNCHANGED <<inputs, saved, order, broken, sets, metas, step, attempt, disturbed>>

Extract ==
  /\ step = "extracting"
  /\ started < Len(order)
  /\ Cardinality(flying) < cpus
  /\ started' = started + 1
  /\ flying' = flying \union {order[started + 1]}
  /\ UNCHANGED <<inputs, saved, order, broken, sets, metas, step, attempt, disturbed>>

\* Variant of Extracted: the directory goes with its TempDir.
ExtractedAndDropped(v) ==
  /\ step = "extracting"
  /\ v \in flying
  /\ flying' = flying \ {v}
  /\ sets' = Append(sets, <<v, attempt>>)
  /\ UNCHANGED <<inputs, saved, order, started, broken, metas, step, attempt, disturbed>>

\* Variant of Extracted: the frame sets pile up.
ExtractedOnTop(v) ==
  /\ step = "extracting"
  /\ v \in flying
  /\ flying' = flying \ {v}
  /\ sets' = <<<<v, attempt>>>> \o sets
  /\ dirs' = dirs \union {<<v, attempt>>}
  /\ UNCHANGED <<inputs, stage, cache, manifest, images, order, started, broken, metas,
                 step, attempt, disturbed>>

\* An extraction ends.  Its directory is there for good: TempDir is forgotten.
Extracted(v) ==
  /\ step = "extracting"
  /\ v \in flying
  /\ flying' = flying \ {v}
  /\ sets' = Append(sets, <<v, attempt>>)
  /\ dirs' = dirs \union {<<v, attempt>>}
  /\ UNCHANGED <<inputs, stage, cache, manifest, images, order, started, broken, metas,
                 step, attempt, disturbed>>

\* An extraction fails, and its directory is removed.  The others go on.
ExtractionFails(v) ==
  /\ step = "extracting"
  /\ v \in flying
  /\ flying' = flying \ {v}
  /\ broken' = TRUE
  /\ UNCHANGED <<inputs, saved, order, started, sets, metas, step, attempt, disturbed>>

AllTaken == step = "extracting" /\ started = Len(order) /\ flying = {}

\* Variant of Collect: what could be extracted is enough.
CollectSome ==
  /\ AllTaken
  /\ IF sets = <<>>
     THEN Ends("idle") /\ UNCHANGED <<stage, cache>>
     ELSE /\ step' = "probing"
          /\ cache' = sets
          /\ stage' = IF stage = "frames" THEN "metadata" ELSE stage
          /\ UNCHANGED local
  /\ UNCHANGED <<inputs, manifest, images, dirs, attempt, disturbed>>

\* All results are in: one failure fails the attempt.
Collect ==
  /\ AllTaken
  /\ IF broken
     THEN Ends("idle") /\ UNCHANGED <<stage, cache>>
     ELSE /\ step' = "probing"
          /\ cache' = sets
          /\ stage' = IF stage = "frames" THEN "metadata" ELSE stage
          /\ UNCHANGED local
  /\ UNCHANGED <<inputs, manifest, images, dirs, attempt, disturbed>>

-----------------------------------------------------------------------------

\* Step 3: extract_metadata_batch, one video after the other.
Probe ==
  /\ step = "probing"
  /\ metas' = [i \in DOMAIN order |-> Metadata(probe[order[i]])]
  /\ stage' = IF stage = "metadata" THEN "manifest" ELSE stage
  /\ step' = IF stage' = "manifest" THEN "writing" ELSE "copying"
  /\ UNCHANGED <<inputs, cache, manifest, images, dirs, order, started, flying, broken, sets,
                 attempt, disturbed>>

\* ffprobe fails.
ProbeFails ==
  /\ step = "probing"
  /\ Ends("idle")
  /\ UNCHANGED <<inputs, saved, attempt, disturbed>>

\* create_frame_entries: the k-th frame (from 1) is placed at (k - 1) / fps.
Offset(k, meta) == Over(Whole(k - 1), meta.fps)

\* create_video_entry, of the i-th video and the i-th frame set.
Entry(i) ==
  [video |-> order[i], framesOf |-> sets[i][1], since |-> sets[i][2],
   offsets |-> [k \in 1 .. frames[sets[i][1]] |-> Offset(k, metas[i])]]

\* Step 4: generate_manifest pairs metadata and frame sets by their positions.
WriteManifest ==
  /\ step = "writing"
  /\ IF Len(metas) # Len(sets)
     THEN Ends("idle") /\ UNCHANGED <<stage, manifest>>
     ELSE /\ manifest' = [written |-> attempt,
                          entries |-> [i \in DOMAIN sets |-> Entry(i)],
                          intrinsics |-> Intrinsics(metas)]
          /\ stage' = "colmap"
          /\ step' = "copying"
          /\ UNCHANGED local
  /\ UNCHANGED <<inputs, cache, images, dirs, attempt, disturbed>>

\* Variant of FileOf: the name says the frame only.
FileOfFrame(i, k) == <<1, k>>

\* The name of the copy: video{i}_frame{k}.jpg.
FileOf(i, k) == <<i, k>>

\* copy_frames_to_colmap_dir, over what is there; or one of the frames is gone.
CopyFrames ==
  /\ step = "copying"
  /\ IF \A i \in DOMAIN sets : sets[i] \in dirs
     THEN /\ images' = [s \in Slots |->
               LET from == { f \in (DOMAIN sets) \X (1 .. MaxFrames) :
                               f[2] <= frames[sets[f[1]][1]] /\ FileOf(f[1], f[2]) = s }
               IN  IF from = {} THEN images[s]
                   ELSE LET f == CHOOSE f \in from : TRUE IN <<sets[f[1]][1], f[2]>>]
          /\ step' = "reconstructing"
          /\ UNCHANGED local
     ELSE Ends("idle") /\ images' = images
  /\ UNCHANGED <<inputs, stage, cache, manifest, dirs, attempt, disturbed>>

\* Steps 5 to 8, with their outcome.
Reconstruct ==
  /\ step = "reconstructing"
  /\ Ends("done") \/ Ends("idle")
  /\ UNCHANGED <<inputs, saved, attempt, disturbed>>

\* There are no more attempts, or the job is done.
Finished ==
  /\ step = "done" \/ (step = "idle" /\ attempt = MaxAttempts)
  /\ UNCHANGED vars

Next ==
  \/ Attempt \/ Disturb \/ Validate \/ Discover \/ Extract \/ Collect
  \/ Probe \/ ProbeFails \/ WriteManifest \/ CopyFrames \/ Reconstruct \/ Finished
  \/ \E v \in Videos : Extracted(v) \/ ExtractionFails(v)

Spec == Init /\ [][Next]_vars

-----------------------------------------------------------------------------
(* Properties. *)

\* Extraction is all or nothing: whatever comes after it works with one frame
\* set of every video (multi_video.rs).
EveryVideoOnce ==
  step \in {"probing", "writing", "copying", "reconstructing"} =>
    /\ Len(sets) = Cardinality(Videos)
    /\ \A v \in Videos : \E i \in DOMAIN sets : sets[i][1] = v

\* The frames of a set stay where they are until they are copied, though
\* nothing holds their directory (the forgotten TempDir of frames.rs).
FramesStay ==
  step \in {"probing", "writing", "copying"} =>
    \A i \in DOMAIN sets : sets[i] \in dirs

Copies(v, k) == { s \in Slots : images[s] = <<v, k>> }

\* Every frame of every video goes to the reconstruction, and goes there once,
\* in a retry too, unless directories or the checkpoint were lost between the
\* attempts (copy_frames_to_colmap_dir copies over what it finds).
EveryFrameOnce ==
  step = "reconstructing" =>
    \A v \in Videos : \A k \in 1 .. frames[v] :
      /\ Copies(v, k) # {}
      /\ ~ disturbed => Cardinality(Copies(v, k)) = 1

\* An entry of the manifest lists the frames of its own video (models.rs:
\* "List of videos in this job with their extracted frames").
ManifestPairs ==
  manifest # None => \A i \in DOMAIN manifest.entries :
    manifest.entries[i].framesOf = manifest.entries[i].video

\* It does when the host has one processor, so that extraction keeps the order,
\* and the frames are of the attempt that wrote the manifest: the order of
\* read_dir may be another one in each attempt.
ManifestPairsInOrder ==
  /\ cpus = 1
  /\ manifest # None
  /\ \A i \in DOMAIN manifest.entries : manifest.entries[i].since = manifest.written
  => ManifestPairs

\* The time of the k-th frame in its video: ffmpeg samples at FRAME_RATE, or
\* takes every frame.
FrameTime(v, k) ==
  Over(Whole(k - 1), IF rate # None THEN rate ELSE Metadata(probe[v]).fps)

\* The offset of a frame is its time in the video, if FRAME_RATE is not set and
\* the entry lists the frames of its own video.
OffsetsAreTimes ==
  rate = None /\ manifest # None => \A i \in DOMAIN manifest.entries :
    LET e == manifest.entries[i] IN
    e.video = e.framesOf =>
      \A k \in DOMAIN e.offsets : Same(e.offsets[k], FrameTime(e.video, k))

\* What the manifest says of frames is true, as far as it can be relied on.
ManifestIsTrue == ManifestPairsInOrder /\ OffsetsAreTimes

\* Camera intrinsics hold for the resolution of every video.  A positive focal
\* length gives a positive and finite fx, by the 35 mm equivalent if that is
\* known too: fx / width = focal35 / 36.  (A 35 mm equivalent of zero, the value
\* for unknown in EXIF, is not looked at before the division.)
IntrinsicsFit ==
  manifest # None /\ manifest.intrinsics # None =>
    LET first == probe[manifest.entries[1].video]
        focal == FocalLength(first)
        focal35 == FocalLength35(first)
    IN
    /\ \A v \in Videos : Metadata(probe[v]).width = manifest.intrinsics.width
                         /\ Metadata(probe[v]).height = manifest.intrinsics.height
    /\ Positive(focal) /\ (focal35 # None => Positive(focal35)) /\ manifest.intrinsics.width > 0 =>
         Positive(manifest.intrinsics.fx)
    /\ Positive(focal) /\ focal35 # None /\ Positive(focal35) =>
         Same(Over(manifest.intrinsics.fx, Whole(manifest.intrinsics.width)),
              Over(focal35, Whole(36)))

=============================================================================
