# TLA+ models of the 3DGS video processor

These modules model the parts of this repository whose correctness depends on
the order of things: the job pipeline with its checkpoints and retries, the
watch mode with its two loops and its queue, the batch mode, the extraction of
frames with its manifest, reconstruction and training, what becomes of finished
folders, and the graceful shutdown. TLC checks them on small instances and
TLAPS proves their central invariants for every value of the constants. Paths
below are relative to the root of the repository; most of the program is in
`src/`.

    tlc -workers 2 -config MCJobPipelineShared.cfg MCJobPipeline.tla
    tlapm JobPipelineProofs.tla

## 1. Inventory

| Component | Source | State it keeps | Operations |
|---|---|---|---|
| Job pipeline | `processor/job.rs` | locals of `execute_job_internal`; files in the working and output folders | the numbered steps 1-8 and `finalize` |
| Progress tracker | `processor/progress.rs` | `JobCheckpoint` in memory, `.checkpoint.json` on disk | `new`, `try_resume`, `complete_stage`, the setters, `finalize` |
| Retry | `processor/retry.rs` | attempt number | `execute_with_retry` with backoff, cut short by a shutdown |
| Watch mode | `main.rs`, `watcher/*` | shutdown flag, where each loop is | `run_watcher_loop`, `run_processor_loop` |
| Duplicate detection | `processor/dedup.rs` | none: reads `processed/` and `error/` | `check` |
| Job queue | `processor/queue.rs` | bounded FIFO channel | `enqueue`, `dequeue` |
| Moving finished folders | `processor/cleanup.rs` | the folders | `move_to_processed`, `move_to_error` |
| Shutdown | `shutdown/*` | flag, token, `Notify` | `listen`, `wait_for_shutdown`, `shutdown_with_timeout` |
| Health endpoint | `health/*` | `ProcessorState`, current job, error | `update_state`, `update_job_progress` |
| Azure mounts | `azure/mount.rs`, `auth.rs` | mounted containers | mount, unmount |
| Upload stability | `watcher/stability.rs` | timers, last count of files | by events, by counting |
| Retention | `cleanup/*` | the time of the next sweep | scheduler, deletion by age |
| Batch mode | `processor/batch.rs`, `azure/sdk.rs` | blobs under a prefix | download, run, upload, move |
| Disk space | `storage/space.rs` | none | check before a job; cleanup of the oldest folders and waiting, both without a caller |
| Extraction | `extractors/*`, `processor/multi_video.rs` | frame files in directories nobody owns | as many at a time as there are processors |
| Manifest | `manifest/*` | `manifest.json` | pairs metadata and frame sets |
| Reconstruction | `reconstruction/*`, `colmap/*` | `colmap/` in the working folder | COLMAP commands, count of points, or given cameras |
| Training | `backends/*` | `output/` in the working folder | choice of a backend, training, exports |
| Exporters | `exporters/*` | `.ply`, `.splat` | conversion |
| Validation | `validation/*` | none | thresholds on values from ffprobe |
| Configuration | `config/*` | read once | environment and YAML |
| The rest | `processor/temp.rs`, `error.rs`, `logging/*`, `bin/preflight.rs`, deployment | | |

How they interact in watch mode: `main` spawns the signal task, the retention
scheduler, the watcher loop and the processor loop, and then waits to be
notified of a shutdown. The watcher waits for a new folder, checks that it is
no duplicate, waits until its upload is stable and puts it into the queue,
waiting for room if there is none. The processor looks at the flag, waits up to
a second for a job, checks the free disk space and calls `execute_with_retry`;
on success the folder is moved to `processed/`, else to `error/`. `main` keeps
a sender of the queue, so that the receiver never sees a closed channel. All
jobs share one output folder and one working folder (`main.rs:388-389`). Batch
mode runs one job per process, in an output folder of its own, between a
download from and an upload to blob containers. Within a job, all videos are
extracted at once, their frames are copied to one folder, and a chain of
external programs makes a reconstruction, a model and two exports of them, each
finding the files of the one before it by their paths.

What is hard:

- *failure in the middle of a stage*: a stage ends with two or three saves of
  the checkpoint, each of which may fail, or be cut off by a crash;
- *state that outlives a job*: checkpoint, images, reconstruction and model are
  found by the next attempt, the next process and the next job;
- *stale decisions*: the duplicate check is made minutes before the job runs,
  the folder is read at one time and moved at another;
- *events nobody reads*: between two detections no watch is on;
- *order of completion*: extractions end in any order, and their results are
  paired with other lists by position;
- *programs that fail with their files written*: the next attempt finds them;
- *two that clean up*: retention and the cleanup for space delete by paths they
  have looked at before, while the processor moves folders to such paths;
- *shutdown against everything*: a full queue, a job that takes long, a backoff,
  a notification that comes before anybody waits for it;
- *counters and clocks*: attempts, backoff lengths, the age of a checkpoint.

What makes each part correct, in a sentence: a checkpoint never claims what is
not there, and no progress is lost; the outputs of a job are made of its own
videos; every job that is started gets a result; a folder is never a job twice, is taken if it
is new, and ends in the one place its result says; no blob is lost, and none is
archived as processed before its outputs are published; the manifest says which
frames are of which video; what is delivered is a model that was trained;
retention keeps what is young and nothing else; a shutdown comes to an end,
cuts no job off unseen, and unmounts last. `PROJECT.json` lists every hazard at
its line with the property that is about it, or the reason why there is none.

## 2. The modules

### JobPipeline

One process that executes one job at a time, with its attempts.

| Model | Code |
|---|---|
| `ckpt[o]` | `.checkpoint.json` of output folder `o`; `NoCkpt`, `Torn`, or a record of the fields later stages read |
| `images`, `sparse`, `model` | `images/`, `colmap/`, `output/` of a working folder |
| `manifest`, `ply`, `splat` | files in the output folder |
| `tracker`, `frames`, `modelAt` | the `ProgressTracker` and the locals `frame_sets`, `model_output` |
| `at`, `phase` | the numbered step, and whether it works, records (setter and save) or advances (`complete_stage`) |
| `attempt`, `err`, `outcome` | `execute_with_retry` and what its caller gets |

A file is modelled by its *provenance*, the set of jobs whose videos went into
it, for that is what a checkpoint or a left-over frame of another job changes.
Frames carry a name (`FrameFiles`), because a job overwrites the names it uses
and leaves the others (`copy_frames_to_colmap_dir`). `OutputOf` and `TempOf`
say which folders a job runs with, and so tell watch mode from batch mode.

Every numbered step is an action for the stage being due and one for its being
past; the latter matters for frames and model, which are looked up and redone
when they are gone. Each step may fail, with errors of the class its outermost
message has in `retry.rs`; each save may fail, leaving the old file or a torn
one; the process may crash anywhere, with the working folders kept or lost. An
attempt may be unable to read the checkpoint it finds, torn or intact, and then
starts from the first stage (`job.rs:152`); `unread` records an intact one until
the attempt's first save has replaced it. `Run` is what `execute_with_retry`
does once it was called, `StartJob` its caller.

### WatchService

The two loops, the queue, the users and the container that restarts the
process. A folder is a version number: a name uploaded again, or changed, has a
new version, so that *which* folder was run, checked or moved can be told.

| Model | Code |
|---|---|
| `input`, `processed`, `failed`, `aside` | the input, `processed/` and `error/` directories, and the names with a timestamp |
| `watcher`: head, watching, polling, checking, waiting, sending | top of the loop; `watch_for_new_folder`; `poll_for_new_folder`; `DuplicateDetector::check`; `wait_for_stability`; `enqueue` |
| `events`, `known` | the events of the inotify watch, `known_folders` of polling |
| `processor`: head, receiving, space, running, backoff, moving | top of the loop; `dequeue` with its timeout; the disk check; an attempt; the delay; `move_to_*` |
| `late` | history: jobs dequeued after the shutdown was requested |

`Edits`, `Faults`, `Stops` and `Silent` say what the environment does in a run:
users who add to or delete uploads; inotify, listing, waiting, space and moving
that fail; signals, timeouts and crashes; folders that appear without an event
(a rename, or the far side of a network mount). With all of them on, the model
has every behaviour of the others.

### FolderLedger

What the watch mode promises about folders, and nothing of how: a folder is
uploaded, taken into hand, and put back or filed, in one step and in one place,
under a name that nothing is filed under. `WatchService` implements it with
`Hand`, the folders that the watcher, the queue or the processor has, for
`hand` (`Ledger == INSTANCE FolderLedger WITH hand <- Hand`). `KeepsLedger` is
the refinement, as an action property since the ledger has no liveness.

### BatchJob

`run_batch_job` on `BlobStorageClient`, run after run. Containers map blobs to
versions, so that a blob that users write again can be told from the one that
was processed; an output file is the set of the versions it was made of. All
blobs are downloaded and moved, but only `Videos`, which lie directly under the
prefix and have a video's extension, are sources of the pipeline
(`discover_videos`), which refuses to run without any. Each
blob is downloaded, uploaded, copied and deleted by a step of its own, each of
which may fail in the way the code handles it, or be the last one before a
crash. The local folders are kept or new at the start of a run (`clean`: no run
was on this host), and the pipeline resumes whatever job it finds begun there.

### VideoMetadata and Extraction

`VideoMetadata` has the pure part: what `extract_metadata` makes of an ffprobe
report, which reports `validate_video` accepts, and `compute_intrinsics`, as
operators on records. Numbers are fractions, and a denominator of zero stands
for infinity and NaN, which the code's floating point numbers reach by the same
divisions. `Extraction` runs steps 1 to 4 of the pipeline, the copy of the
frames, and as much of the rest as an attempt needs to end: `read_dir` yields
any order, `buffer_unordered` keeps up to `cpus` extractions in flight, each
ends or fails at any time, and an attempt resumes from the frame sets of an
earlier one if their directories are there.

### ArchiveCleanup

Folders from their upload to their deletion, with everything that moves or
deletes them: `move_to_*` in its two halves (the destination is chosen, the
rename is made), the scheduler that sweeps at midnight, one entry at a time, and
`check_and_auto_cleanup`. Time passes in ticks, which are also the resolution of
the timestamp a taken name gets; a sweep is over within a tick. A rename may fail
wherever it goes, and a sweep skips entries it cannot look at. Nothing in the
program calls the cleanup for space, so that this part shows what a caller in
the processor would get.

### BackendSelection and Training

`BackendSelection` has the operators that choose a training backend: the
configuration, the environment, the GPU probes in their order, and the search
for a plugin library. `Training` runs steps 5 to 8 over the attempts at a job,
at the level of the files the tools leave: a reconstruction or a model is the
number of the attempt that made it, a tool that fails may have written, and a
backend looks where its code looks, whatever place the tool has chosen
(`writes`), and takes what is there, also when an earlier job has left it
(`left`). Converters may end well without a file (`converts`). `good`, `trained` and `basis` record what is true of a version; the
code only has the files.

### ShutdownCoordinator

The signal task, the main task and the closure of `shutdown_with_timeout`, with
the loops reduced to when they look at the flag. `notify_waiters` of tokio is
modelled from its use: it wakes the futures that exist (`seen` is the number of
calls when main made its future) and leaves nothing behind for later ones.
Unmounting calls a command and waits for it without giving the runtime control,
so that the timer cannot fire there. `CHECK_DEADLOCK` is off in its run,
because the process really can hang with nothing left to do, when the signal
comes before main waits.

### ServiceLoops

What the graceful shutdown and the two loops rely on of each other: `main`
starts both loops, the watcher ends once the flag is set, and the processor
looks at the flag before it waits for a job and not again until that job is
over. `ShutdownCoordinator` reduces the loops to this and `WatchService` reduces
the shutdown to it (a flag, and a process that may end at any time). Both
implement the module (`Service == INSTANCE ServiceLoops WITH ...` in their proof
modules: `stop` or `flag` for `flag`, and the steps of each loop grouped to
`running`, `idle`, `receiving`, `job` and `done` by `WatcherLoop` and
`ProcessorLoop`), so that what is shown of one with the other left out is not
shown of something the other does not do.

### The MC modules

They give the constants their values where a configuration file cannot. The
definitions of the other modules that are called "Variant of X" are X with a plausible mistake, with which the
property listed for it in `PROJECT.json` is shown to fail.

## 3. Runs

| Run | Instance | Distinct states | Shows |
|---|---|---|---|
| `pipeline_shared` | 2 jobs, shared folders | 1.98 million | checkpoints are complete, no progress is discarded but by an attempt that cannot read it, success retires the checkpoint, every step but a crash brings a job nearer to its result |
| `pipeline_own` | 2 jobs, own folders | 3.9 million | outputs are made of the job's own videos |
| `watch_safety` | 3 folders, queue of 2, a restart | 152,474 (with symmetry) | the ledger is implemented; no folder twice or in two places, the check stays true, processed is what was run, retries are used |
| `watch_live` | 2 folders, queue of 1, users edit, no restart, fair | 158,085 | at most one late job, both loops end after a shutdown request, queued jobs end |
| `shutdown` | 3 jobs, 2 signals, fair | 876 | exit code 0 was asked for and cut nothing off, unmounting comes last, Processing is shown only while a job runs, a notified process ends |
| `batch` | 2 videos and another blob, 2 outputs, 2 runs, all faults | 4.1 million | no blob is lost, processed videos are published, outputs belong together |
| `extraction` | 2 videos, 10 reports, 2 processors, 2 attempts | 1.14 million | all or nothing, frames stay and are copied once; pairing, offsets and intrinsics of the manifest |
| `archive` | 3 uploads of one name, 2 days | 1.3 million (with symmetry) | a sweep every midnight, nothing overstays, the young stay, the oldest go first, destinations of moves are free |
| `training` | 112 environments, 3 attempts | 1.78 million | what is delivered was trained by the job, both exports are of one model, on enough points, no mock unasked |

*Bounds.* Two jobs are one that leaves something behind and one that finds it;
job `a` has a frame more than `b`, so that one of its frames is not overwritten.
Two attempts are a first and a last one; one crash, together with any number of
failed steps and saves within the attempts, gives a resume after a crash, after
a failure and after both. `ResumeWindow = 1` and `MaxTime = 1` let a checkpoint
be fresh or too old. In WatchService two folders are enough for one with the
watcher and one with the processor, the third fills the queue; two versions
are a folder and its successor; a queue of one or two places is full and
empty within three folders. In `watch_safety` one restart is a process that
starts with folders present; in `watch_live` nobody restarts the process.
In BatchJob one video is left alone, one is written while the job runs, one blob
is no video, and the second run finds what the first one left, in the containers and on its
host. Two videos are enough to be out of order, two processors to run both and
one to run them in turn, a second attempt to resume; the ten reports are the
branches of `VideoMetadata` and a number of zero where it divides; frames and sizes only have to be different. In
ArchiveCleanup `Day = 2` and `MaxTime = 4` give two midnights with a tick
between them and one after; `Retention = 2` lets a folder be younger, as old
and older than the limit at one of them; a disk of ten folders with seven taken
becomes critical with two uploads and has enough room again without them. Three
attempts in Training are one that leaves a model, one that loses or replaces it,
and one that delivers. The environments are every backend with its tool writing
to each of the places some backend looks at, with converters that leave a file
and that do not, with nothing left by earlier jobs, or a model where the tool
writes, or one everywhere else; and two for each other branch of the selection.

*Fairness.* `watch_live`, `watch_missed`: weak fairness of the
watcher and of the processor, since tokio polls a task that is ready. Nothing is
assumed of users, signals, the timeout, crashes, restarts and failures, nor that
the process ends when both loops have, which it does not when the signal came too
early (see below). `shutdown`: weak fairness of the signal task, the main task and the timer, none of the loops: a job may take longer than
anybody waits. `fusermount` is assumed to return. The other runs check safety
only. That a job ends is checked there as `RunEnds`, with a measure instead of
fairness: each step leaves less to do, and TLC, which looks for deadlocks, finds a
step as long as a job has no result. Nothing is assumed of anybody
handing a job over again that a crash has interrupted, since in the watch mode
nobody does (`main.rs:242`). A batch job, an extraction and a training end if
the tools terminate, and what happens at midnight is bounded by the clock of the
model.

### Where code and documents disagree

Three more runs of these models find behaviours of the code that a document or
a comment rules out. Each checks one property, stated from the text that is
quoted in `PROJECT.json`.

| Run | Behaviour |
|---|---|
| `pipeline_foreign` | With shared folders a job resumes the checkpoint of another one, or trains on its frames |
| `watch_missed` | A folder created after the watcher has detected another one, and before it watches again, is never taken |
| `training_points` | The minimum of points is compared with the count of an earlier reconstruction, whose text files nobody removes |

Others are visible in the actions, and the properties that hold name them as
their exceptions:

- *jobs*: after a crash that loses the working folder (`TEMP_PATH`, inside the
  container) but not the checkpoint, a job resumes at the training stage without
  the images and the reconstruction it needs, and fails until the checkpoint is
  too old (`job.rs:541`, `docs/PROGRESS_TRACKING.md:192`); an intact checkpoint that cannot be read is given up and overwritten
  (`job.rs:152`); a crash in a save destroys the checkpoint (`SaveBroken`;
  `progress.rs:289` writes in place, `progress.rs:5` says "restart-resilient");
  no path of `execute_job` empties the working folder, although `job.rs:116`
  says so; images an earlier attempt has left stay in their folder (`job.rs:674`);
- *watch mode*: folders queued or running when the process ends are not taken up
  after the restart (`main.rs:242`, PRD lines 337 and 449); a shutdown in a
  backoff sends a folder to `error/` with retries left (`retry.rs:242`, but
  `retry.rs:4`); a full disk sends one there untried, where the PRD wants the
  processor to pause; files added while a job runs do not restart it;
- *shutdown*: a signal handled before main waits for it stops both loops, and the
  process never ends (`signal_handler.rs:68`, USER_GUIDE lines 398-403); a job that still runs overwrites the health state main has set
  (`main.rs:178`), and the job it names is the one of the checkpoint, in a shared
  folder perhaps another one that has failed (`job.rs:224`);
- *batch mode*: a download that fails leaves the inputs where they are
  (`docs/DEPLOYMENT.md:1022`); a blob that is written between the listing of the
  move and its deletion is archived unprocessed, or lost; blobs that are no videos,
  or lie in a folder of their own, are archived as processed with the rest
  (`sdk.rs:272`, `job.rs:629`); an upload that fails
  leaves a mixture of outputs in the container until the next run;
- *manifest*: with more than one processor the frames of one video are listed
  with the metadata of another (`ManifestPairs` fails, `ManifestIsTrue`
  says when it holds; `manifest/mod.rs:61` zips what `multi_video.rs:71` has put
  in the order of completion); with `FRAME_RATE` set, offsets are not times
  (`manifest/mod.rs:143`); a file with a focal length of zero gives intrinsics
  that are not numbers, and one with a 35 mm equivalent of zero a horizontal
  focal length of zero, since only one of the two is looked at before they are
  divided (`intrinsics.rs:116`); `IntrinsicsFit` names both as its premises;
- *retention*: it counts from the upload's modification time, not from the end
  of the job (`docs/CONFIGURATION.md:252`); a process that is down at midnight
  skips the day; `docs/3DGS/PROCESS_FLOW.md:468` says "every hour";
- *training*: a model that an earlier job has left where the backend looks is
  delivered when the tool has written its own elsewhere, as with other
  `--iterations` than 30000 (`gaussian_splatting.rs:251`, `gsplat.rs:438`), which
  is why `DeliversOneTrainedModel` is about jobs where `NothingMisleads`; after the model was removed from the folder, a training that fails
  may leave half a file at the path of the checkpoint, which the next attempt
  delivers (`progress.rs:548` looks whether it exists), and the PLY of the old
  model may go with the SPLAT of the new one; gsplat and the reference
  implementation accept a model at an alternative path but return the primary
  one, so that the export fails (`gsplat.rs:447-475`); the C++ backend ignores
  the exit status and delivers placeholders (`three_dgs_cpp.rs:263`); nobody looks
  whether a converter has left a SPLAT, so that the one of an earlier attempt, or
  none, may be delivered (`gaussian_splatting.rs:386-419`, `gsplat.rs:581-684`); reading
  given cameras makes no `sparse/0`, so that those backends fail or train on a
  left-over; the automatic choice of a backend is never made, since `main.rs`
  always passes the one of the configuration (README.md:563).

## 4. Proofs

TLAPS checks all theorems. They hold for every value of the constants and assume
only the named assumptions about those, which TLC evaluates in every run, and
what a theorem itself assumes.

**JobPipelineProofs.** `TypeInv` is `TypeOK` and that the locals a step uses
are set. `CheckpointComplete` is not inductive by itself: a save writes the
tracker in memory, which may be ahead of the disk or belong to a failed attempt.
`TrackInv` adds that the tracker is complete, and that a step that is recorded or
advanced has the result the stage claims (`CheckpointsAreComplete`). For
`ProgressIsKept` the invariant relates memory and disk: while an attempt works,
the checkpoint on disk, as long as it could be resumed, is at the stage of the
tracker unless the attempt could not read it, it lies in the folder its job runs
with, and its time is not in the future (`DiskInStep`, `AtHome`, `SameFolder`,
`TimesPast`). `SuccessIsRetired`
needs only the step. `SeparateJobsDoNotMix` assumes `Separate`, that no two jobs
share a folder; its invariant follows the provenance of every file: the
checkpoint, the images, the reconstruction and the model of a job's folders are
the job's own or absent. That the assumption is needed is what
`pipeline_foreign` shows. `MixingStaysInFolders` is what remains without it: for
any set of jobs that shares folders with no job outside, what they deliver is
made of videos of that set (`GroupInv`), so that a mixture never goes further
than the folders do. With sets of one job it is the theorem before.

`JobsEnd` is `RunEnds` for every value of the constants: a
number, `Remaining`, which counts the attempts, the steps and the phases that
are left, and which every step of the job makes smaller, whether it succeeds,
fails or resumes, with a bound known when the job starts. A result, once
there, stays (`ResultsStay`), and a job that has one is not run again
(`OpenInv`).

**WatchServiceProofs.** `AtMostOneLateJob` strengthens `late <= 1` with where
the processor can be while `late` is 0 or 1. `NoFolderTwice` rests on an
observation that is nowhere in the code: the duplicate check does not look at
the queue, and a folder is nevertheless never queued twice, because every
detection is of a folder that is *new*, and one that is queued or running is
still in the input directory. So the invariant is that what is in hand is
present, that a pending event is of a folder not in hand, and that what polling
has not seen is not in hand. It holds as long as users delete no folder
(`FoldersStay`); with deletions it is false. `TheCheckStaysTrue` rests on it:
only the processor fills `processed/` and `error/`, with its own job.
`MovedWasRun` needs that uploads are left alone altogether (`FoldersKept`): nothing
in the processor notices a change, so that files added while a job runs are filed
as processed with the rest. `AllRetriesAreUsed` needs no assumption: a job whose
result is a retryable error was not tried, has had its last attempt, or a
shutdown was requested, which only the end of the process takes back.

Two theorems are the safety halves of the liveness properties of `watch_live`.
`ShutdownEndsLoops`: once the flag is set it stays, every step of the processor
makes `ProcessorAhead` smaller, which is at most `6 + 2 * MaxAttempts`, nothing
else makes it larger, and the watcher begins no other watch. `EveryJobHasItsTurn`:
as long as the loop runs, a job at any place of the queue is over after at most
`Cycle * (Capacity + 1)` steps of the processor; it moves up in order, and neither the failures and
retries of those before it nor what is uploaded meanwhile costs it more.
`WatchServes` is the refinement of ServiceLoops; it needs to know
whether the job that is moved was ever tried (`AttemptInv`), since one that the
space check has sent to `error/` never started for the shutdown.

**FolderLedgerProofs.** `WatchKeepsLedger` is the refinement: under
`FoldersStay` the initial states of WatchService are those of the ledger, and
every step of it is one of the ledger or leaves `Hand` and the directories
alone. It needs the invariants of the two theorems before: a folder that enters
the queue was not in hand (else `Take` would not be enabled), and the check that
was made before the job still holds when the folder is moved (else `File` would
overwrite). `NoVersionTwice` is then proved of the *abstract* steps: the
invariant `PlaceInv` says that what is filed under a name is older than what
lies under it in the input directory, and the refinement carries it over.
`NoFolderIsLost` says of the program what users would ask: a folder leaves the
input directory only into `processed/` or `error/`, to a place that was free,
and is kept there until it expires. `NeverSetAside` is a consequence that
surprises: under `FoldersStay` the branch of `cleanup.rs` that appends a timestamp
to a name in use is never taken, since the duplicate check has kept the name
free; it is there for users who delete or replace folders while they are in hand.

**ShutdownCoordinatorProofs.** `ShutdownIsOrderly` (`CleanExitIsClean`) and
`UnmountsLast` follow from one invariant, `ProgressInv`, which says what is
known at each point of the closure. `CleanExitIsClean` says nothing of the mounts,
whose failures are only logged. `ProcessingOnlyWhileRunning` needs only that the
loops have not started before main has set the health state for the first time;
it says that some job runs when one is shown, not that it is the one named.
`ShutdownServes` is the refinement of ServiceLoops, and `LoopsGoOneWay` is proved
of the abstract steps and carried over by it. `ShutdownGoesForward` is what is
true of `NotifiedProcessEnds` without fairness: the steps that main has ahead of
it (`MainAhead`, eight at most) only become fewer, and main misses a notification
only if it came before main had made its future (`NotificationHeld`, with
`SeenInv`); that case is the hang of section 3.

**BatchJobProofs.** `NoBlobIsLost` needs `MoveInv`: while a blob is copied or
deleted, the copy in the archive is the version that is listed, but for the blobs
users write during a run (`Late`). `ProcessedIsPublished` follows a video of a
run that began on a host without leftovers: what was downloaded is what the run is begun with, its
results have it as a source, and all results are uploaded before anything is
archived as processed. `OutputsAreOfOneRun` needs that the results are alike
when the upload starts and that what is uploaded is one of them. `ArchivesAreKept`
holds without any assumption on users and hosts: what lies in an archive is only
ever replaced by something as new or newer, because what
is in the input container is the newest version, the archives hold none that is
newer, and only what is still in the input container is copied (`AgeInv`).
`EveryRunEnds` orders the phases and, within each, what is left of the listing or the outputs: every step of a run
goes forward in that order, also the failing ones.

**ArchiveCleanupProofs.** Everything here deletes or renames by a *path* that it
looked at before, and the invariant `PathInv` is what stays true of such a path.
No two folders are at one path, and a timestamp in a name is not later than the
move that made it (`PlaceInv`); the destination of a move was free or bears the
time of its choice (`MoveInv`); a name is uploaded again only after the folder
before it was filed (`InputInv`); the victim of a sweep is too old unless it
came in this tick (`VictimInv`); what the cleanup for space still finds at a
path has the age it has noted (`SnapshotInv`, since the processor moves nothing
while it cleans). From these, `OnlyByAge` is a fact about single
steps, and `DestinationsAreFree` one about the state between the choice of a
destination and the rename. `NothingIsLeft` adds `AheadInv`: in a sweep without failures, a
folder that is too old and was there before is still ahead of it, in a path not
yet looked at or in the directory that comes second. `SweepsEveryNight` is the
one with multiplication: the time to wake at is a multiple of the length of a
day, at most a day ahead, and while the scheduler sleeps untroubled it is a day
after the last sweep (`SleepInv`). It rests on two facts about `NextMidnight`
that are proved once, from the definition of the quotient (`MidnightFacts`).

**ExtractionProofs.** `SetInv` says that while frames are extracted a video that
was taken from the stream is in flight or has its frame set. When all are taken,
the sets reach every video; since there are never more sets than videos were
taken, each has exactly one (`OnePerVideo`, a counting argument). That and the
directories, which only a loss between attempts removes, give `AllVideos` and
`DirectoriesStay`. `FramesOnce` needs `KeptInv`: as long as nothing was lost, all
attempts work with the sets of the first extraction, in the order in which the
checkpoint has them, so that a later copy writes the files of an earlier one and
no others. `TrueManifest` follows the age of the frame sets: one processor keeps
the order (`OrderInv`), and sets of the attempt itself are in the order of its
own look at the directory, while older ones need not be (`AgeInv`).
`FittingIntrinsics` has two parts. That the intrinsics are those of the first
video, and hold for the resolution of all, is the invariant `IntrInv`: they were
computed from the metadata of valid videos in some order. That the focal length
fits the width is arithmetic of the fractions, for every report: `FxFits`
follows the conversion through the two divisions, with lemmas about the products
that are not linear. Which of several tags is used is the first one that is
there; that there is a first one comes from the well-foundedness of the numbers
(`Least`). `ExtractionEnds` counts the
videos that are not taken, those in flight, and the attempts that may follow
(`Left`): whatever order the extractions end in, each step of an attempt makes it
smaller, and until all results are there the stream always has an extraction to
start or one to wait for (`NeverStuck`).

**TrainingProofs.** `RunInv` ties the stage in the checkpoint to where the job is.
`PlaceInv` says that models are only where the tool writes or where earlier jobs
have left some. With it and `NothingMisleads` (the tool writes where the backend
looks first, or no leftover lies where the backend looks and the tool does not
write) `ModelInv` follows the model from the training to both exports: what lies
at the checkpoint's path was trained, or there is nothing and the job trains
again. The theorem leaves out the stub, jobs whose models somebody removes, and
misleading leftovers: with any of them the conclusion fails.
`CountInv` adds that a job beyond the reconstruction has passed the minimum with
what was counted. `OneTrainedModel` and `EnoughPoints` follow at the success.
`MockOnlyAsked` is about the choice alone, for every environment the constants
allow. `BackendByRule` compares the choice as the code makes it, a chain of
functions and a search through directories, with a reference definition of the
rule (`NameByRule`, `FoundByRule`) that has no search in it: what `BACKEND` names,
else the default of the
configuration where `main.rs` passes it, else the mock if it is forced, else the best
the GPU probes allow; and of a plugin the library of that name in the first place
that has one, if it works. Every attempt at a job runs with that backend or does
not run.

**Only model-checked.** The liveness properties (`ShutdownStopsLoops`,
`QueuedJobsEnd`, `NotifiedProcessEnds`), since TLAPS does
not prove liveness under fairness or reason about `ENABLED`. What remains of them
for TLC is that a step which is due is taken: that the steps lead there, and in
how many, is proved (`ShutdownEndsLoops`, `EveryJobHasItsTurn`,
`ShutdownGoesForward`). Every invariant and every action property of the first
table in section 3 is stated by a theorem; the properties of the second table
have counterexamples.

## 5. Not modelled

- *Timers.* The delays between retries and polls, and the two timers and the
  counts of `stability.rs`: no property is about a duration but those of
  ArchiveCleanup. In WatchService the wait for stability ends, fails or is
  cancelled at any time; that a folder with a stable number of growing files
  counts as stable is listed as a hazard without a property.
- *Contents.* Pixels, points and videos are versions or members of small sets.
  The readers and writers of `exporters/` have no caller in the pipeline, the
  backends export themselves.
- *Configuration*, but for the choice of the backend: it is read once, before
  anything runs, and the modules take what they need of it as constants.
- *The outside.* The wire of Azure Storage, mounting (commands in sequence
  before the loops start), the HTTP server of the health endpoint, the loading of
  a plugin library and the lifetime of what it exports (`registry.rs:55`),
  external tools that never return. Tools, inotify, storage and the file system
  are modelled by the results the code distinguishes.
- *The clock* never goes back; differences that would be negative then, and the
  width of the counters, are hazards without a property.
- *Code without a caller* outside the tests: `JobCheckpoint::delete`,
  `DuplicateDetector::check_batch`, `detect_new_files_during_processing`,
  `JobTempDir`, and of `storage/space.rs` `wait_for_space` and the checks before
  COLMAP and training, which only read. Its cleanup is modelled although it has
  none either, since its documentation says where it belongs.
- Errors, wording and logging, the preflight program, and deployment.

## 6. Plan

Done: the job pipeline with its checkpoints; the watch mode, its abstract ledger
and the refinement; the shutdown; the batch mode; extraction and the manifest;
retention and the cleanup for space; the backends, their selection and their
exports; the loops as the shutdown sees them, implemented from both sides; the
theorems of section 4.

What is left, in the order of what it would add:

1. `UploadStability` (`stability.rs`): the timers of both methods against
   uploads that go on; what "stable" promises, as an abstract specification that
   WatchService assumes and this module implements.
2. `JobLifecycle`: attempts, then one result, as an abstract specification that
   JobPipeline and the processor of WatchService both implement, so that the two
   compose.
3. The delays of `retry.rs` and the ages of `progress.rs` as arithmetic of a
   given width, against a reference definition.
4. The measure of Training: how many steps its attempts have left, as for the
   pipeline and the extraction.
5. `Mounts` (`azure/mount.rs`): containers that stay mounted when a later one
   cannot be.
