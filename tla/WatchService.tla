---------------------------- MODULE WatchService ----------------------------
(***************************************************************************)
(* The watch mode of main.rs: the watcher loop finds folders that appear   *)
(* in the input directory and queues them, the processor loop runs them    *)
(* one at a time and moves them to processed/ or error/, and main waits    *)
(* for both when a shutdown is requested.                                  *)
(*                                                                         *)
(* The folders are on disk and outlive the process; the queue, the events  *)
(* and the loops do not.  The contents of a folder are modelled by a       *)
(* version number, 0 when the folder does not exist: a name that is        *)
(* uploaded again, or whose files change, gets a new version.              *)
(*                                                                         *)
(* What happens inside an attempt is the subject of JobPipeline; here it   *)
(* succeeds, fails for good or fails and may be retried.                   *)
(***************************************************************************)
EXTENDS Naturals, Sequences

CONSTANTS
  Names,        \* folder names
  NoName,       \* not a folder name
  Capacity,     \* of the job queue (100 in main.rs)
  MaxAttempts,  \* max_retries + 1
  MaxVersions,  \* bound on the versions of one folder
  MaxRestarts,  \* bound on the number of restarts
  Edits,        \* what users do to a folder after creating it
  Faults,       \* which operations of the environment may fail
  Stops,        \* how the process may end
  Silent        \* whether folders may appear without a Create event

ASSUME NamesAssumption == NoName \notin Names
ASSUME LimitsAssumption ==
  /\ Capacity \in Nat \ {0}
  /\ MaxAttempts \in Nat \ {0}
  /\ MaxVersions \in Nat
  /\ MaxRestarts \in Nat
ASSUME EnvironmentAssumption ==
  /\ Edits \subseteq {"add", "remove"}
  /\ Faults \subseteq {"inotify", "list", "wait", "space", "move"}
  /\ Stops \subseteq {"signal", "timeout", "crash"}
  /\ Silent \in BOOLEAN

VARIABLES
  input,      \* input[n]: version of folder n in the input directory
  versions,   \* versions[n]: versions of folder n so far
  processed,  \* processed[n]: version in processed/n
  failed,     \* failed[n]: version in error/n
  aside,      \* <<n, v>>: moved to a name with a timestamp, n being taken
  up,         \* the process is running
  stop,       \* the shutdown flag
  watcher,    \* where the watcher loop is
  events,     \* Create events since the inotify watch began
  known,      \* known_folders of the polling watcher
  candidate,  \* the folder the watcher has detected
  queue,      \* the job queue
  processor,  \* where the processor loop is
  job,        \* the job it has dequeued
  attempt,    \* attempts made on it
  ran,        \* version of the folder that attempt works from
  verdict,    \* result of execute_with_retry with its error, or "none"
  restarts,   \* restarts so far
  late        \* jobs dequeued since the shutdown was requested

disk  == <<input, versions, processed, failed, aside>>
wvars == <<watcher, events, known, candidate>>
pvars == <<processor, job, attempt, ran, verdict>>
past  == <<restarts, late>>
vars  == <<disk, up, stop, wvars, queue, pvars, past>>

Versions == 0 .. MaxVersions
Present == { n \in Names : input[n] # 0 }

DiskType ==
  /\ input \in [Names -> Versions]
  /\ versions \in [Names -> Versions]
  /\ processed \in [Names -> Versions]
  /\ failed \in [Names -> Versions]
  /\ aside \subseteq Names \X Versions

WatcherType ==
  /\ watcher \in {"head", "watching", "polling", "checking", "waiting", "sending", "stopped"}
  /\ events \in Seq(Names)
  /\ known \subseteq Names
  /\ candidate \in Names \union {NoName}
  /\ watcher \in {"checking", "waiting", "sending"} <=> candidate \in Names

ProcessorType ==
  /\ processor \in {"head", "receiving", "space", "running", "backoff", "moving", "stopped"}
  /\ job \in Names \union {NoName}
  /\ attempt \in 0 .. MaxAttempts
  /\ ran \in Versions
  /\ verdict \in {"none", "success", "permanent", "retryable"}
  /\ processor \in {"space", "running", "backoff", "moving"} <=> job \in Names

ServiceType ==
  /\ up \in BOOLEAN
  /\ stop \in BOOLEAN
  /\ queue \in Seq(Names)
  /\ Len(queue) <= Capacity
  /\ restarts \in 0 .. MaxRestarts
  /\ late \in Nat

TypeOK == DiskType /\ WatcherType /\ ProcessorType /\ ServiceType

\* Both loops at their start, with an empty queue.
Started ==
  /\ stop' = FALSE
  /\ watcher' = "head" /\ processor' = "head"

Init ==
  /\ input = [n \in Names |-> 0]
  /\ versions = [n \in Names |-> 0]
  /\ processed = [n \in Names |-> 0]
  /\ failed = [n \in Names |-> 0]
  /\ aside = {}
  /\ up = TRUE
  /\ stop = FALSE
  /\ watcher = "head" /\ events = <<>> /\ known = {} /\ candidate = NoName
  /\ queue = <<>>
  /\ processor = "head" /\ job = NoName /\ attempt = 0 /\ ran = 0 /\ verdict = "none"
  /\ restarts = 0
  /\ late = 0

-----------------------------------------------------------------------------
(* The users of the input directory. *)

\* A folder is created; a watch that is on sees it, unless it comes by a rename
\* or from the other side of a network mount.
Arrive(n) ==
  /\ input[n] = 0
  /\ versions[n] < MaxVersions
  /\ versions' = [versions EXCEPT ![n] = @ + 1]
  /\ input' = [input EXCEPT ![n] = versions[n] + 1]
  /\ \/ events' = IF watcher = "watching" THEN Append(events, n) ELSE events
     \/ Silent /\ events' = events
  /\ UNCHANGED <<processed, failed, aside, up, stop, watcher, known, candidate,
                 queue, pvars, past>>

\* Files are added to a folder, or replaced: the watch is not recursive.
AddFiles(n) ==
  /\ "add" \in Edits
  /\ input[n] # 0
  /\ versions[n] < MaxVersions
  /\ versions' = [versions EXCEPT ![n] = @ + 1]
  /\ input' = [input EXCEPT ![n] = versions[n] + 1]
  /\ UNCHANGED <<processed, failed, aside, up, stop, wvars, queue, pvars, past>>

\* A folder is deleted, or renamed away.
Remove(n) ==
  /\ "remove" \in Edits
  /\ input[n] # 0
  /\ input' = [input EXCEPT ![n] = 0]
  /\ UNCHANGED <<versions, processed, failed, aside, up, stop, wvars, queue, pvars,
                 past>>

\* The retention scheduler deletes an old folder of processed/ or error/.
Expire(n) ==
  /\ up
  /\ \/ processed[n] # 0 /\ processed' = [processed EXCEPT ![n] = 0] /\ failed' = failed
     \/ failed[n] # 0 /\ failed' = [failed EXCEPT ![n] = 0] /\ processed' = processed
  /\ UNCHANGED <<input, versions, aside, up, stop, wvars, queue, pvars, past>>

-----------------------------------------------------------------------------
(* The watcher loop. *)

atWatcher(pc) == up /\ watcher = pc

\* Control goes back to the head of the loop; events of a watch that is over
\* are gone.
WatchAgain ==
  /\ watcher' = "head"
  /\ events' = <<>>
  /\ known' = {}
  /\ candidate' = NoName

Detected(n) ==
  /\ watcher' = "checking"
  /\ candidate' = n
  /\ events' = <<>>
  /\ known' = {}

WatcherStops ==
  /\ watcher' = "stopped"
  /\ events' = <<>>
  /\ known' = {}
  /\ candidate' = NoName

\* Variant of StartWatching: polling starts from nothing.
StartWatchingUnlisted ==
  /\ atWatcher("head")
  /\ ~ stop
  /\ known' = {}
  /\ \/ watcher' = "watching"
     \/ "inotify" \in Faults /\ watcher' = "polling"
  /\ UNCHANGED <<disk, up, stop, events, candidate, queue, pvars, past>>

\* The head of the loop, and the start of detect_new_folder: an inotify watch,
\* or polling from the folders there are now.
StartWatching ==
  /\ atWatcher("head")
  /\ ~ stop
  /\ \/ watcher' = "watching" /\ known' = {}
     \/ "inotify" \in Faults /\ watcher' = "polling" /\ known' = Present
  /\ UNCHANGED <<disk, up, stop, events, candidate, queue, pvars, past>>

\* Variant of StopWatcher: the token does not reach the inotify watch.
StopWatcherDeaf ==
  /\ \E pc \in {"head", "polling", "waiting"} : atWatcher(pc)
  /\ stop
  /\ WatcherStops
  /\ UNCHANGED <<disk, up, stop, queue, pvars, past>>

\* The loop sees the flag at its head, or the token cancels what it waits for.
StopWatcher ==
  /\ \E pc \in {"head", "watching", "polling", "waiting"} : atWatcher(pc)
  /\ stop
  /\ WatcherStops
  /\ UNCHANGED <<disk, up, stop, queue, pvars, past>>

\* handle_event: the first event whose folder is there ends the watch.
HandleEvent ==
  /\ atWatcher("watching")
  /\ events # <<>>
  /\ IF Head(events) \in Present
     THEN Detected(Head(events))
     ELSE events' = Tail(events) /\ UNCHANGED <<watcher, known, candidate>>
  /\ UNCHANGED <<disk, up, stop, queue, pvars, past>>

\* One round of polling.
Poll ==
  /\ atWatcher("polling")
  /\ IF Present \subseteq known
     THEN known' = Present /\ UNCHANGED <<watcher, events, candidate>>
     ELSE \E n \in Present \ known : Detected(n)
  /\ UNCHANGED <<disk, up, stop, queue, pvars, past>>

\* list_folders fails: detection is started anew.
PollFails ==
  /\ "list" \in Faults
  /\ atWatcher("polling")
  /\ WatchAgain
  /\ UNCHANGED <<disk, up, stop, queue, pvars, past>>

\* DuplicateDetector::check.
IsDuplicate(n) == processed[n] # 0 \/ failed[n] # 0

\* Variant of CheckDuplicate: folders that failed are not duplicates.
CheckDuplicateProcessed ==
  /\ atWatcher("checking")
  /\ IF processed[candidate] # 0
     THEN WatchAgain
     ELSE watcher' = "waiting" /\ UNCHANGED <<events, known, candidate>>
  /\ UNCHANGED <<disk, up, stop, queue, pvars, past>>

CheckDuplicate ==
  /\ atWatcher("checking")
  /\ IF IsDuplicate(candidate)
     THEN WatchAgain
     ELSE watcher' = "waiting" /\ UNCHANGED <<events, known, candidate>>
  /\ UNCHANGED <<disk, up, stop, queue, pvars, past>>

\* wait_for_stability succeeds.
Stable ==
  /\ atWatcher("waiting")
  /\ watcher' = "sending"
  /\ UNCHANGED <<disk, up, stop, events, known, candidate, queue, pvars, past>>

\* It fails, because the folder is gone or cannot be read.
WaitFails ==
  /\ atWatcher("waiting")
  /\ candidate \notin Present \/ "wait" \in Faults
  /\ WatchAgain
  /\ UNCHANGED <<disk, up, stop, queue, pvars, past>>

\* Variant of Enqueue: the queue has no limit.
EnqueueUnbounded ==
  /\ atWatcher("sending")
  /\ \/ processor = "stopped" /\ queue' = queue
     \/ processor # "stopped" /\ queue' = Append(queue, candidate)
  /\ WatchAgain
  /\ UNCHANGED <<disk, up, stop, pvars, past>>

\* enqueue waits for room, or fails when the receiver has been dropped.
Enqueue ==
  /\ atWatcher("sending")
  /\ \/ processor = "stopped" /\ queue' = queue
     \/ /\ processor # "stopped"
        /\ Len(queue) < Capacity
        /\ queue' = Append(queue, candidate)
  /\ WatchAgain
  /\ UNCHANGED <<disk, up, stop, pvars, past>>

-----------------------------------------------------------------------------
(* The processor loop. *)

atProcessor(pc) == up /\ processor = pc

\* The job is over: back to the head of the loop.
NextJob ==
  /\ processor' = "head"
  /\ job' = NoName
  /\ attempt' = 0
  /\ ran' = 0
  /\ verdict' = "none"

\* Variant of CheckFlag: the flag is not looked at.
CheckFlagNever ==
  /\ atProcessor("head")
  /\ processor' = "receiving"
  /\ UNCHANGED <<disk, up, stop, wvars, queue, job, attempt, ran, verdict, past>>

CheckFlag ==
  /\ atProcessor("head")
  /\ ~ stop
  /\ processor' = "receiving"
  /\ UNCHANGED <<disk, up, stop, wvars, queue, job, attempt, ran, verdict, past>>

Queued == { n \in Names : \E i \in DOMAIN queue : queue[i] = n }

\* The loop ends and drops the receiver, with the jobs that are queued.
StopProcessor ==
  /\ atProcessor("head")
  /\ stop
  /\ processor' = "stopped"
  /\ queue' = <<>>
  /\ UNCHANGED <<disk, up, stop, wvars, job, attempt, ran, verdict, past>>

\* Nothing arrives within a second.
ReceiveTimeout ==
  /\ atProcessor("receiving")
  /\ queue = <<>>
  /\ processor' = "head"
  /\ UNCHANGED <<disk, up, stop, wvars, queue, job, attempt, ran, verdict, past>>

Dequeue ==
  /\ atProcessor("receiving")
  /\ queue # <<>>
  /\ job' = Head(queue)
  /\ queue' = Tail(queue)
  /\ processor' = "space"
  /\ late' = IF stop THEN late + 1 ELSE late
  /\ UNCHANGED <<disk, up, stop, wvars, attempt, ran, verdict, restarts>>

\* execute_with_retry has its result, which the loop acts on.
Ends(v) ==
  /\ processor' = "moving"
  /\ verdict' = v

\* There is not enough free disk space.
NoSpace ==
  /\ "space" \in Faults
  /\ atProcessor("space")
  /\ Ends("retryable")
  /\ UNCHANGED <<disk, up, stop, wvars, queue, job, attempt, ran, past>>

FirstAttempt ==
  /\ atProcessor("space")
  /\ processor' = "running"
  /\ attempt' = 1
  /\ ran' = input[job]
  /\ UNCHANGED <<disk, up, stop, wvars, queue, job, verdict, past>>

\* execute_job succeeds: the folder was there to be read.
Succeed ==
  /\ atProcessor("running")
  /\ ran # 0
  /\ Ends("success")
  /\ UNCHANGED <<disk, up, stop, wvars, queue, job, attempt, ran, past>>

\* Variant of Fail: there are no retries.
FailAtOnce ==
  /\ atProcessor("running")
  /\ Ends("permanent") \/ Ends("retryable")
  /\ UNCHANGED <<disk, up, stop, wvars, queue, job, attempt, ran, past>>

\* It fails: for good, at the last attempt, or to be retried after a delay.
Fail ==
  /\ atProcessor("running")
  /\ \/ Ends("permanent")
     \/ attempt = MaxAttempts /\ Ends("retryable")
     \/ attempt < MaxAttempts /\ processor' = "backoff" /\ verdict' = verdict
  /\ UNCHANGED <<disk, up, stop, wvars, queue, job, attempt, ran, past>>

\* Variant of Retry: the attempts are not counted.
RetryUncounted ==
  /\ atProcessor("backoff")
  /\ processor' = "running"
  /\ attempt' = attempt
  /\ ran' \in {ran, input[job]}
  /\ UNCHANGED <<disk, up, stop, wvars, queue, job, verdict, past>>

\* The delay is over.  The attempt resumes from the checkpoint of the one
\* before, or reads the folder again.
Retry ==
  /\ atProcessor("backoff")
  /\ processor' = "running"
  /\ attempt' = attempt + 1
  /\ ran' \in {ran, input[job]}
  /\ UNCHANGED <<disk, up, stop, wvars, queue, job, verdict, past>>

\* The shutdown cuts the delay short, and with it the retries.
AbortRetries ==
  /\ atProcessor("backoff")
  /\ stop
  /\ Ends("retryable")
  /\ UNCHANGED <<disk, up, stop, wvars, queue, job, attempt, ran, past>>

\* The folder as it is now goes to place, under its name if that is free.
MovedTo(place) ==
  IF place[job] = 0
  THEN place' = [place EXCEPT ![job] = input[job]] /\ aside' = aside
  ELSE aside' = aside \union {<<job, input[job]>>} /\ place' = place

\* Variant of Move: only a permanent error sends a folder to error/.
MoveUnlessPermanent ==
  /\ atProcessor("moving")
  /\ job \in Present
  /\ IF verdict # "permanent"
     THEN MovedTo(processed) /\ failed' = failed
     ELSE MovedTo(failed) /\ processed' = processed
  /\ input' = [input EXCEPT ![job] = 0]
  /\ NextJob
  /\ UNCHANGED <<versions, up, stop, wvars, queue, past>>

\* Variant of Move: the folder is copied and stays in the input directory.
MoveByCopy ==
  /\ atProcessor("moving")
  /\ job \in Present
  /\ IF verdict = "success"
     THEN MovedTo(processed) /\ failed' = failed
     ELSE MovedTo(failed) /\ processed' = processed
  /\ NextJob
  /\ UNCHANGED <<input, versions, up, stop, wvars, queue, past>>

\* Variant of Move: a folder that failed is deleted.
MoveOrDelete ==
  /\ atProcessor("moving")
  /\ job \in Present
  /\ IF verdict = "success"
     THEN MovedTo(processed) /\ failed' = failed
     ELSE UNCHANGED <<processed, failed, aside>>
  /\ input' = [input EXCEPT ![job] = 0]
  /\ NextJob
  /\ UNCHANGED <<versions, up, stop, wvars, queue, past>>

\* move_to_processed and move_to_error.
Move ==
  /\ atProcessor("moving")
  /\ job \in Present
  /\ IF verdict = "success"
     THEN MovedTo(processed) /\ failed' = failed
     ELSE MovedTo(failed) /\ processed' = processed
  /\ input' = [input EXCEPT ![job] = 0]
  /\ NextJob
  /\ UNCHANGED <<versions, up, stop, wvars, queue, past>>

\* The rename fails, which is only logged.
MoveFails ==
  /\ atProcessor("moving")
  /\ job \notin Present \/ "move" \in Faults
  /\ NextJob
  /\ UNCHANGED <<disk, up, stop, wvars, queue, past>>

-----------------------------------------------------------------------------
(* The process. *)

\* SIGTERM or SIGINT.
Shutdown ==
  /\ "signal" \in Stops
  /\ up /\ ~ stop
  /\ stop' = TRUE
  /\ UNCHANGED <<disk, up, wvars, queue, pvars, past>>

\* The process is gone, and everything in memory with it.
Ended ==
  /\ up' = FALSE
  /\ stop' = FALSE
  /\ watcher' = "stopped" /\ events' = <<>> /\ known' = {} /\ candidate' = NoName
  /\ queue' = <<>>
  /\ processor' = "stopped" /\ job' = NoName /\ attempt' = 0 /\ ran' = 0
  /\ verdict' = "none"
  /\ late' = 0
  /\ UNCHANGED <<disk, restarts>>

\* main has waited for both loops.
Exit ==
  /\ up /\ stop
  /\ watcher = "stopped" /\ processor = "stopped"
  /\ Ended

\* shutdown_with_timeout gives up on them.
ForcedExit ==
  /\ "timeout" \in Stops
  /\ up /\ stop
  /\ Ended

Crash ==
  /\ "crash" \in Stops
  /\ up
  /\ Ended

\* The container is started again.
Restart ==
  /\ ~ up
  /\ restarts < MaxRestarts
  /\ restarts' = restarts + 1
  /\ up' = TRUE
  /\ Started
  /\ UNCHANGED <<disk, events, known, candidate, queue, job, attempt, ran, verdict,
                 late>>

\* Nobody restarts the process any more.
Gone ==
  /\ ~ up
  /\ restarts = MaxRestarts
  /\ UNCHANGED vars

-----------------------------------------------------------------------------
Watcher ==
  \/ StartWatching \/ StopWatcher \/ HandleEvent \/ Poll \/ PollFails
  \/ CheckDuplicate \/ Stable \/ WaitFails \/ Enqueue

Processor ==
  \/ CheckFlag \/ StopProcessor \/ ReceiveTimeout \/ Dequeue \/ NoSpace
  \/ FirstAttempt \/ Succeed \/ Fail \/ Retry \/ AbortRetries \/ Move \/ MoveFails

Users == \E n \in Names : Arrive(n) \/ AddFiles(n) \/ Remove(n) \/ Expire(n)

Main == Shutdown \/ Exit \/ ForcedExit \/ Crash \/ Restart \/ Gone

Next == Watcher \/ Processor \/ Users \/ Main

Spec == Init /\ [][Next]_vars

\* The runtime polls both tasks, and what an attempt runs terminates.  Nothing
\* is assumed of users, of signals, of the timeout, of failures or of restarts,
\* nor that main leaves once both loops have: it does not when the signal came
\* before it waited for one (ShutdownCoordinator).
FairSpec == Spec /\ WF_vars(Watcher) /\ WF_vars(Processor)

-----------------------------------------------------------------------------
(* Properties. *)

\* A folder is never a job twice: it is in one place of the queue, or with the
\* watcher, or with the processor.  The duplicate check does not look at the
\* queue (dedup.rs); what keeps it true is that a folder is detected only when
\* it is created, and cannot be created while it is there.
OnceInHand ==
  /\ \A i, k \in DOMAIN queue : queue[i] = queue[k] => i = k
  /\ candidate \notin Queued
  /\ job \notin Queued
  /\ candidate \in Names => candidate # job

\* The duplicate check is made before the upload is stable and the job has
\* waited its turn; it still holds when the job runs and its folder is moved
\* (the timestamp of cleanup.rs is never needed).
CheckStaysTrue ==
  \A n \in Queued \union {job} : n \in Names => ~ IsDuplicate(n)

\* Once a shutdown is requested the processor takes at most one more job: the
\* one it was about to receive when it last saw the flag (main.rs).
OneLateJob == late <= 1

\* What is moved to processed/ is what the successful attempt worked from.
ProcessedWasRun ==
  [][\A n \in Names : processed'[n] \notin {0, processed[n]} => processed'[n] = ran]_vars

\* A folder goes to error/ only after an error that is not retried or after the
\* last attempt, except when a shutdown cuts the retries short or the disk was
\* too full to try at all (retry.rs, run_processor_loop).
RetriesAreUsed ==
  [][\A n \in Names : failed'[n] \notin {0, failed[n]}
       => verdict = "permanent" \/ attempt \in {0, MaxAttempts} \/ stop]_vars

\* After a shutdown is requested both loops end, whether main waits for them or
\* not: neither waits for the other for ever, not even a watcher that sends to
\* a queue that is full (main.rs).
ShutdownStopsLoops == up /\ stop ~> watcher = "stopped" /\ processor = "stopped"

\* A queued job comes to its end, unless the process does.
QueuedJobsEnd ==
  \A n \in Names : n \in Queued ~> (n \notin Queued /\ job # n) \/ stop \/ ~ up

\* A folder that is created after the watcher has detected another one becomes
\* a job, unless one of its name was already processed or failed (main.rs:
\* "continuously watches for new folders").
EveryUploadIsTaken ==
  \A n \in Names :
    [](candidate \notin {n, NoName} /\ input[n] = 0
         => (input[n] # 0 ~> job = n \/ IsDuplicate(n)))

\* The folders the service has in hand.
Hand == (Queued \union {candidate, job}) \ {NoName}

\* The loops and the queue, their failures and the restarts do no more to the
\* folders than the ledger says, as long as users delete none.
Ledger == INSTANCE FolderLedger WITH hand <- Hand
KeepsLedger == Ledger!Spec

\* No version of a folder is in two places.
OnePlace == Ledger!OnePlace

=============================================================================
