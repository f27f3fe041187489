------------------------ MODULE ShutdownCoordinator ------------------------
(***************************************************************************)
(* Graceful shutdown: the signal task of shutdown/signal_handler.rs, the   *)
(* main task of main.rs that starts the loops, waits to be notified and    *)
(* then waits for them under a timeout, and the two loops reduced to when  *)
(* they look at the flag (WatchService has the rest of them).              *)
(*                                                                         *)
(* tokio's Notify is modelled from its use: notify_waiters wakes the       *)
(* futures that notified() has already made, and leaves nothing behind for *)
(* the ones made later.                                                    *)
(***************************************************************************)
EXTENDS Naturals

CONSTANTS MaxJobs,     \* bound on the jobs the processor runs
          MaxSignals,  \* bound on the signals sent
          Mounted      \* Azure containers were mounted at the start

ASSUME ShutdownAssumption ==
  MaxJobs \in Nat /\ MaxSignals \in Nat /\ Mounted \in BOOLEAN

VARIABLES
  sent,       \* signals sent so far
  task,       \* the signal task
  flag,       \* the shutdown flag and its token
  calls,      \* calls of notify_waiters
  main,       \* where the main task is
  seen,       \* calls of notify_waiters when main made its future
  watcher,    \* the watcher loop
  processor,  \* the processor loop
  jobs,       \* jobs run so far
  scheduler,  \* the retention scheduler is running
  mounts,     \* containers are mounted
  health,     \* ProcessorState of the health endpoint
  code        \* exit code, 0 or 1, or 2 when there is none

vars == <<sent, task, flag, calls, main, seen, watcher, processor, jobs, scheduler,
          mounts, health, code>>

\* The steps of the closure that shutdown_with_timeout runs.
Cleanup == {"cleanup", "joinWatcher", "joinProcessor", "unmount"}

TypeOK ==
  /\ sent \in 0 .. MaxSignals
  /\ task \in {"starting", "listening", "notifying", "ended"}
  /\ flag \in BOOLEAN
  /\ calls \in 0 .. 1
  /\ main \in {"setup", "spawned", "waiting", "finishing", "exited"} \union Cleanup
  /\ seen \in 0 .. 1
  /\ watcher \in {"off", "running", "done"}
  /\ processor \in {"off", "idle", "receiving", "job", "done"}
  /\ jobs \in 0 .. MaxJobs
  /\ scheduler \in BOOLEAN
  /\ mounts \in BOOLEAN
  /\ health \in {"Watching", "Processing", "Idle"}
  /\ code \in 0 .. 2

Init ==
  /\ sent = 0
  /\ task = "starting"
  /\ flag = FALSE
  /\ calls = 0
  /\ main = "setup"
  /\ seen = 0
  /\ watcher = "off"
  /\ processor = "off"
  /\ jobs = 0
  /\ scheduler = FALSE
  /\ mounts = Mounted
  /\ health = "Watching"
  /\ code = 2

Alive == main # "exited"

-----------------------------------------------------------------------------
(* The signal task. *)

\* The task is polled for the first time and installs the handlers.
Listen ==
  /\ Alive /\ task = "starting"
  /\ task' = "listening"
  /\ UNCHANGED <<sent, flag, calls, main, seen, watcher, processor, jobs, scheduler,
                 mounts, health, code>>

\* SIGTERM or SIGINT.  Without a handler it kills the process; when the task has
\* had one, the handler stays and nobody listens.
Signal ==
  /\ Alive /\ sent < MaxSignals
  /\ sent' = sent + 1
  /\ IF task = "starting"
     THEN main' = "exited" /\ UNCHANGED <<task, flag>>
     ELSE /\ main' = main
          /\ IF task = "listening"
             THEN task' = "notifying" /\ flag' = TRUE
             ELSE UNCHANGED <<task, flag>>
  /\ UNCHANGED <<calls, seen, watcher, processor, jobs, scheduler, mounts, health, code>>

\* Variant of NotifyWaiters: the task listens for the next signal.
NotifyWaitersAgain ==
  /\ Alive /\ task = "notifying"
  /\ task' = "listening"
  /\ calls' = calls + 1
  /\ UNCHANGED <<sent, flag, main, seen, watcher, processor, jobs, scheduler, mounts,
                 health, code>>

\* notify_waiters, after the flag is set.
NotifyWaiters ==
  /\ Alive /\ task = "notifying"
  /\ task' = "ended"
  /\ calls' = calls + 1
  /\ UNCHANGED <<sent, flag, main, seen, watcher, processor, jobs, scheduler, mounts,
                 health, code>>

-----------------------------------------------------------------------------
(* The loops. *)

StopWatcher ==
  /\ Alive /\ watcher = "running" /\ flag
  /\ watcher' = "done"
  /\ UNCHANGED <<sent, task, flag, calls, main, seen, processor, jobs, scheduler, mounts,
                 health, code>>

\* The processor looks at the flag, and then waits for a job for a while.
CheckFlag ==
  /\ Alive /\ processor = "idle" /\ ~ flag
  /\ processor' = "receiving"
  /\ UNCHANGED <<sent, task, flag, calls, main, seen, watcher, jobs, scheduler, mounts,
                 health, code>>

\* No job arrives, or there is no disk space for the one that does.
ReceiveTimeout ==
  /\ Alive /\ processor = "receiving"
  /\ processor' = "idle"
  /\ UNCHANGED <<sent, task, flag, calls, main, seen, watcher, jobs, scheduler, mounts,
                 health, code>>

StartJob ==
  /\ Alive /\ processor = "receiving"
  /\ jobs < MaxJobs
  /\ processor' = "job"
  /\ jobs' = jobs + 1
  /\ health' = "Processing"
  /\ UNCHANGED <<sent, task, flag, calls, main, seen, watcher, scheduler, mounts, code>>

\* The job tells the health endpoint how far it is (update_job_progress).
ReportProgress ==
  /\ Alive /\ processor = "job"
  /\ health' = "Processing"
  /\ UNCHANGED <<sent, task, flag, calls, main, seen, watcher, processor, jobs, scheduler,
                 mounts, code>>

\* Variant of EndJob: the health state is left as it is.
EndJobSilently ==
  /\ Alive /\ processor = "job"
  /\ processor' = "idle"
  /\ UNCHANGED <<sent, task, flag, calls, main, seen, watcher, jobs, scheduler, mounts,
                 health, code>>

EndJob ==
  /\ Alive /\ processor = "job"
  /\ processor' = "idle"
  /\ health' = "Watching"
  /\ UNCHANGED <<sent, task, flag, calls, main, seen, watcher, jobs, scheduler, mounts, code>>

StopProcessor ==
  /\ Alive /\ processor = "idle" /\ flag
  /\ processor' = "done"
  /\ UNCHANGED <<sent, task, flag, calls, main, seen, watcher, jobs, scheduler, mounts,
                 health, code>>

-----------------------------------------------------------------------------
(* The main task. *)

\* It has spawned the signal task before; now the scheduler and the loops.
SpawnLoops ==
  /\ main = "setup"
  /\ main' = "spawned"
  /\ scheduler' = TRUE
  /\ watcher' = "running"
  /\ processor' = "idle"
  /\ UNCHANGED <<sent, task, flag, calls, seen, jobs, mounts, health, code>>

\* wait_for_shutdown makes the future it waits for.
WaitForShutdown ==
  /\ main = "spawned"
  /\ main' = "waiting"
  /\ seen' = calls
  /\ UNCHANGED <<sent, task, flag, calls, watcher, processor, jobs, scheduler, mounts,
                 health, code>>

Notified ==
  /\ main = "waiting"
  /\ calls > seen
  /\ main' = "cleanup"
  /\ UNCHANGED <<sent, task, flag, calls, seen, watcher, processor, jobs, scheduler,
                 mounts, health, code>>

\* The cleanup closure: the health state first, then one thing after the other.
ShowShutdown ==
  /\ main = "cleanup"
  /\ main' = "joinWatcher"
  /\ health' = "Idle"
  /\ UNCHANGED <<sent, task, flag, calls, seen, watcher, processor, jobs, scheduler,
                 mounts, code>>

JoinWatcher ==
  /\ main = "joinWatcher"
  /\ watcher = "done"
  /\ main' = "joinProcessor"
  /\ UNCHANGED <<sent, task, flag, calls, seen, watcher, processor, jobs, scheduler,
                 mounts, health, code>>

\* Variant of JoinProcessor: the loop is not waited for.
JoinProcessorDetached ==
  /\ main = "joinProcessor"
  /\ main' = "unmount"
  /\ scheduler' = FALSE
  /\ UNCHANGED <<sent, task, flag, calls, seen, watcher, processor, jobs, mounts,
                 health, code>>

JoinProcessor ==
  /\ main = "joinProcessor"
  /\ processor = "done"
  /\ main' = "unmount"
  /\ scheduler' = FALSE
  /\ UNCHANGED <<sent, task, flag, calls, seen, watcher, processor, jobs, mounts,
                 health, code>>

\* A failure to unmount is only logged.
Unmount ==
  /\ main = "unmount"
  /\ main' = "finishing"
  /\ mounts' \in {FALSE, mounts}
  /\ code' = 0
  /\ UNCHANGED <<sent, task, flag, calls, seen, watcher, processor, jobs, scheduler, health>>

\* Variant of Timeout: it passes for a success.
TimeoutIgnored ==
  /\ main \in Cleanup \ {"unmount"}
  /\ main' = "finishing"
  /\ code' = 0
  /\ UNCHANGED <<sent, task, flag, calls, seen, watcher, processor, jobs, scheduler,
                 mounts, health>>

\* Variant of Timeout: it does not cover the wait for the processor.
TimeoutTooEarly ==
  /\ main \in {"cleanup", "joinWatcher"}
  /\ main' = "finishing"
  /\ code' = 1
  /\ UNCHANGED <<sent, task, flag, calls, seen, watcher, processor, jobs, scheduler,
                 mounts, health>>

\* SHUTDOWN_TIMEOUT passes while the closure waits.  Unmounting waits for nothing
\* the runtime knows of, so that the timer is not looked at there.
Timeout ==
  /\ main \in Cleanup \ {"unmount"}
  /\ main' = "finishing"
  /\ code' = 1
  /\ UNCHANGED <<sent, task, flag, calls, seen, watcher, processor, jobs, scheduler,
                 mounts, health>>

\* main waits for the signal task and leaves; every task goes with it.
ExitProcess ==
  /\ main = "finishing"
  /\ task = "ended"
  /\ main' = "exited"
  /\ UNCHANGED <<sent, task, flag, calls, seen, watcher, processor, jobs, scheduler,
                 mounts, health, code>>

Gone == ~ Alive /\ UNCHANGED vars

-----------------------------------------------------------------------------
SignalTask == Listen \/ NotifyWaiters
MainTask == SpawnLoops \/ WaitForShutdown \/ Notified \/ ShowShutdown \/ JoinWatcher
            \/ JoinProcessor \/ Unmount \/ ExitProcess
Loops == StopWatcher \/ CheckFlag \/ ReceiveTimeout \/ StartJob \/ ReportProgress \/ EndJob
         \/ StopProcessor

Next == SignalTask \/ MainTask \/ Loops \/ Signal \/ Timeout \/ Gone

Spec == Init /\ [][Next]_vars

\* The runtime polls both tasks, the timer fires and fusermount returns.  A loop
\* may never look at the flag, for a job may take longer than the shutdown waits.
FairSpec == Spec /\ WF_vars(SignalTask) /\ WF_vars(MainTask) /\ WF_vars(Timeout)

-----------------------------------------------------------------------------
(* Properties. *)

\* Exit code 0 means that the shutdown was asked for, that both loops have ended
\* and no job was cut off, and that the scheduler is stopped (main.rs); every
\* other way out of the closure reports 1.
CleanExitIsClean ==
  code = 0 =>
    flag /\ watcher = "done" /\ processor = "done" /\ ~ scheduler

\* The containers are unmounted only when no loop can use them any more.
UnmountedLast == Mounted /\ ~ mounts => watcher = "done" /\ processor = "done"

\* When main waits before the notification comes, the process comes to its end,
\* however long a job takes and whether or not the loops answer
\* (shutdown_with_timeout).
NotifiedProcessEnds == main = "waiting" /\ task = "notifying" ~> ~ Alive

\* The health endpoint shows Processing only while some job runs, though the
\* processor, the progress callback of its job and main's closure all write the
\* field, in any order (main.rs, health/mod.rs).  Which job it names is another
\* matter: the id is the one of the checkpoint (job.rs), in a shared output
\* folder that of the job that left it.
ProcessingMeansRunning == health = "Processing" => processor = "job"

=============================================================================
