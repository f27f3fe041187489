--------------------- MODULE ShutdownCoordinatorProofs ---------------------
(***************************************************************************)
(* The safety of the graceful shutdown, for any number of jobs and signals. *)
(***************************************************************************)
EXTENDS ShutdownCoordinator, TLAPS

USE ShutdownAssumption

\* How far the graceful shutdown has come: it begins after a notification, which
\* comes after the flag; what main has waited for stays as it is; and there is
\* an exit code only when the closure is over.
ProgressInv ==
  /\ task = "ended" => calls = 1
  /\ task # "ended" => calls = 0
  /\ task \in {"notifying", "ended"} => flag
  /\ calls = 1 => flag
  /\ main \in Cleanup \union {"finishing"} => calls = 1
  /\ main \in {"joinProcessor", "unmount"} => watcher = "done"
  /\ main = "unmount" => processor = "done" /\ ~ scheduler
  /\ code = 0 => watcher = "done" /\ processor = "done" /\ ~ scheduler /\ flag
  /\ code # 2 => main \in {"finishing", "exited"}
  /\ main = "setup" => ~ scheduler
  /\ Mounted /\ ~ mounts => code = 0

ShutdownInv == TypeOK /\ ProgressInv

\* It holds when the process starts.
LEMMA ShutdownInit == Init => ShutdownInv
<1> SUFFICES ASSUME Init PROVE ShutdownInv
  OBVIOUS
<1>1. TypeOK
  <2>1. flag \in BOOLEAN /\ scheduler \in BOOLEAN /\ mounts \in BOOLEAN
    BY DEF Init
  <2> QED
    BY <2>1 DEF Init, TypeOK
<1>2. ProgressInv
  BY DEF Init, ProgressInv, Cleanup
<1> QED
  BY <1>1, <1>2 DEF ShutdownInv

\* Every step keeps the types.
LEMMA TypeStep == TypeOK /\ ProgressInv /\ [Next]_vars => TypeOK'
<1> SUFFICES ASSUME TypeOK, ProgressInv, [Next]_vars PROVE TypeOK'
  OBVIOUS
<1>1. flag' \in BOOLEAN /\ scheduler' \in BOOLEAN /\ mounts' \in BOOLEAN
  BY DEF TypeOK, Next, SignalTask, MainTask, Loops, vars, Listen, NotifyWaiters, SpawnLoops,
     WaitForShutdown, Notified, ShowShutdown, JoinWatcher, JoinProcessor, Unmount,
     ExitProcess, StopWatcher, CheckFlag, ReceiveTimeout, StartJob, ReportProgress, EndJob, StopProcessor,
     Signal, Timeout, Gone
<1>2. sent' \in 0 .. MaxSignals /\ jobs' \in 0 .. MaxJobs /\ calls' \in 0 .. 1
      /\ seen' \in 0 .. 1 /\ code' \in 0 .. 2
  <2> USE DEF TypeOK
  <2>1. CASE SignalTask
    BY <2>1 DEF SignalTask, Listen, NotifyWaiters, ProgressInv
  <2>2. CASE Signal
    BY <2>2 DEF Signal
  <2>3. CASE Loops
    BY <2>3 DEF Loops, StopWatcher, CheckFlag, ReceiveTimeout, StartJob, ReportProgress, EndJob, StopProcessor
  <2>4. CASE MainTask \/ Timeout
    <3>1. /\ UNCHANGED <<sent, jobs, calls>>
          /\ seen' = seen \/ seen' = calls
          /\ code' = code \/ code' = 0 \/ code' = 1
      <4>1. CASE Unmount
        BY <4>1 DEF Unmount
      <4>2. CASE ~ Unmount
        BY <2>4, <4>2 DEF MainTask, SpawnLoops, WaitForShutdown, Notified, ShowShutdown,
           JoinWatcher, JoinProcessor, ExitProcess, Timeout
      <4> QED
        BY <4>1, <4>2
    <3> QED
      BY <3>1
  <2>5. CASE Gone \/ UNCHANGED vars
    BY <2>5 DEF Gone, vars
  <2> QED
    BY <2>1, <2>2, <2>3, <2>4, <2>5 DEF Next
<1>3. /\ task' \in {"starting", "listening", "notifying", "ended"}
      /\ main' \in {"setup", "spawned", "waiting", "finishing", "exited"} \union Cleanup
      /\ watcher' \in {"off", "running", "done"}
      /\ processor' \in {"off", "idle", "receiving", "job", "done"}
      /\ health' \in {"Watching", "Processing", "Idle"}
  BY DEF TypeOK, Cleanup, Next, SignalTask, MainTask, Loops, vars, Listen, NotifyWaiters,
     SpawnLoops, WaitForShutdown, Notified, ShowShutdown, JoinWatcher, JoinProcessor, Unmount,
     ExitProcess, StopWatcher, CheckFlag, ReceiveTimeout, StartJob, ReportProgress, EndJob, StopProcessor,
     Signal, Timeout, Gone
<1> QED
  BY <1>1, <1>2, <1>3 DEF TypeOK

\* Every step keeps the order of the shutdown.
LEMMA ProgressStep == TypeOK /\ ProgressInv /\ [Next]_vars => ProgressInv'
<1> SUFFICES ASSUME TypeOK, ProgressInv, [Next]_vars PROVE ProgressInv'
  OBVIOUS
<1> USE DEF TypeOK, ProgressInv, Cleanup
<1>1. CASE SignalTask
  BY <1>1 DEF SignalTask, Listen, NotifyWaiters
<1>2. CASE Signal
  BY <1>2 DEF Signal, Alive
<1>3. CASE Loops
  BY <1>3 DEF Loops, StopWatcher, CheckFlag, ReceiveTimeout, StartJob, ReportProgress, EndJob, StopProcessor
<1>4. CASE SpawnLoops \/ WaitForShutdown \/ Notified \/ ShowShutdown \/ JoinWatcher
  BY <1>4 DEF SpawnLoops, WaitForShutdown, Notified, ShowShutdown, JoinWatcher
<1>5. CASE JoinProcessor \/ Timeout \/ ExitProcess
  BY <1>5 DEF JoinProcessor, Timeout, ExitProcess
<1>7. CASE Unmount
  BY <1>7 DEF Unmount
<1>6. CASE Gone \/ UNCHANGED vars
  BY <1>6 DEF Gone, vars
<1> QED
  BY <1>1, <1>2, <1>3, <1>4, <1>5, <1>6, <1>7 DEF Next, MainTask

\* TypeOK holds in every state of the shutdown (signal_handler.rs, main.rs).
THEOREM TypeCorrect == Spec => []TypeOK
<1>1. ShutdownInv /\ [Next]_vars => ShutdownInv'
  BY TypeStep, ProgressStep DEF ShutdownInv
<1>2. ShutdownInv => TypeOK
  BY DEF ShutdownInv
<1> QED
  BY ShutdownInit, <1>1, <1>2, PTL DEF Spec

\* Exit code 0 means that a shutdown was asked for, that both loops have ended and
\* that the scheduler is stopped, whenever the signals come and however the
\* timeout falls (main.rs, shutdown_with_timeout).  The mounts may have stayed.
THEOREM ShutdownIsOrderly == Spec => []CleanExitIsClean
<1>1. ShutdownInv /\ [Next]_vars => ShutdownInv'
  BY TypeStep, ProgressStep DEF ShutdownInv
<1>2. ShutdownInv => CleanExitIsClean
  BY DEF ShutdownInv, ProgressInv, CleanExitIsClean
<1> QED
  BY ShutdownInit, <1>1, <1>2, PTL DEF Spec

\* Containers are unmounted only after both loops have ended (main.rs).
THEOREM UnmountsLast == Spec => []UnmountedLast
<1>1. ShutdownInv /\ [Next]_vars => ShutdownInv'
  BY TypeStep, ProgressStep DEF ShutdownInv
<1>2. ShutdownInv => UnmountedLast
  BY DEF ShutdownInv, ProgressInv, UnmountedLast
<1> QED
  BY ShutdownInit, <1>1, <1>2, PTL DEF Spec

\* The processor loop starts once, before there is anything to show.
HealthInv == ProcessingMeansRunning /\ (main = "setup" => processor = "off")

\* Three writers share the health state, and yet it shows Processing only while
\* the processor runs a job (run_processor_loop, update_job_progress, the closure
\* of main).  Nothing is said of the id it shows.
THEOREM ProcessingOnlyWhileRunning == Spec => []ProcessingMeansRunning
<1>1. Init => HealthInv
  BY DEF Init, ProcessingMeansRunning, HealthInv
<1>2. HealthInv /\ [Next]_vars => HealthInv'
  <2> SUFFICES ASSUME HealthInv, [Next]_vars PROVE HealthInv'
    OBVIOUS
  <2> USE DEF HealthInv, ProcessingMeansRunning
  <2>1. CASE Loops
    BY <2>1 DEF Loops, StopWatcher, CheckFlag, ReceiveTimeout, StartJob, ReportProgress,
       EndJob, StopProcessor
  <2>2. CASE SpawnLoops \/ ShowShutdown
    BY <2>2 DEF SpawnLoops, ShowShutdown
  <2>3. CASE UNCHANGED <<processor, health>> /\ (main' # "setup" \/ main' = main)
    BY <2>3
  <2> QED
    BY <2>1, <2>2, <2>3 DEF Next, SignalTask, MainTask, Listen, NotifyWaiters,
       WaitForShutdown, Notified, JoinWatcher, JoinProcessor, Unmount, ExitProcess,
       Signal, Timeout, Gone, vars
<1>3. HealthInv => ProcessingMeansRunning
  BY DEF HealthInv
<1> QED
  BY <1>1, <1>2, <1>3, PTL DEF Spec

-----------------------------------------------------------------------------
(* The loops of main.rs, as they are seen from here. *)

Service == INSTANCE ServiceLoops WITH
  flag <- Alive /\ flag,
  watcher <- IF Alive THEN watcher ELSE "off",
  processor <- IF Alive THEN processor ELSE "off"

\* There are no loops before main starts them.
NoLoopsYet == main = "setup" => watcher = "off" /\ processor = "off"

\* Only main starts the loops, and they do not go back to before that.
LEMMA NoLoopsYetStep == NoLoopsYet /\ [Next]_vars => NoLoopsYet'
BY DEF NoLoopsYet, Next, SignalTask, MainTask, Loops, vars, Listen, NotifyWaiters,
   SpawnLoops, WaitForShutdown, Notified, ShowShutdown, JoinWatcher, JoinProcessor, Unmount,
   ExitProcess, StopWatcher, CheckFlag, ReceiveTimeout, StartJob, ReportProgress, EndJob,
   StopProcessor, Signal, Timeout, Gone, Alive, Cleanup

\* Every step of the shutdown is a step of the service, or none.
LEMMA ServiceStep ==
  TypeOK /\ NoLoopsYet /\ [Next]_vars => [Service!Next]_(Service!svars)
<1> SUFFICES ASSUME TypeOK, NoLoopsYet, [Next]_vars
             PROVE  [Service!Next]_(Service!svars)
  OBVIOUS
<1> USE DEF Alive, Service!svars, Service!Next
<1>1. CASE Loops
  <2>1. CASE StopWatcher
    BY <2>1 DEF StopWatcher, Service!StopWatcher
  <2>2. CASE CheckFlag
    BY <2>2 DEF CheckFlag, Service!CheckFlag
  <2>3. CASE ReceiveTimeout
    BY <2>3 DEF ReceiveTimeout, Service!NoJob
  <2>4. CASE StartJob
    BY <2>4 DEF StartJob, Service!StartJob
  <2>5. CASE EndJob
    BY <2>5 DEF EndJob, Service!EndJob
  <2>6. CASE StopProcessor
    BY <2>6 DEF StopProcessor, Service!StopProcessor
  <2>7. CASE ReportProgress
    BY <2>7 DEF ReportProgress
  <2> QED
    BY <1>1, <2>1, <2>2, <2>3, <2>4, <2>5, <2>6, <2>7 DEF Loops
<1>2. CASE SpawnLoops
  BY <1>2 DEF SpawnLoops, NoLoopsYet, Service!Start, Service!Off, Service!Running
<1>3. CASE Signal
  <2>1. CASE task = "starting"
    BY <1>3, <2>1 DEF Signal, Service!End, Service!Off
  <2>2. CASE task # "starting" /\ flag' # flag
    BY <1>3, <2>2 DEF Signal, Service!Request, TypeOK
  <2>3. CASE task # "starting" /\ flag' = flag
    BY <1>3, <2>3 DEF Signal
  <2> QED
    BY <2>1, <2>2, <2>3
<1>4. CASE ExitProcess
  BY <1>4 DEF ExitProcess, Service!End, Service!Off
<1>5. CASE UNCHANGED <<flag, watcher, processor, Alive>>
  BY <1>5
<1> QED
  BY <1>1, <1>2, <1>3, <1>4, <1>5 DEF Next, SignalTask, MainTask, Listen, NotifyWaiters,
     WaitForShutdown, Notified, ShowShutdown, JoinWatcher, JoinProcessor, Unmount, Timeout,
     Gone, vars, Cleanup

\* The graceful shutdown with its reduced loops is an implementation of
\* ServiceLoops, as the watch mode is with its full ones (WatchServiceProofs), so
\* that what is proved here of jobs and exit codes is about the same loops
\* (main.rs).
THEOREM ShutdownServes == Spec => Service!Spec
<1>1. Init => NoLoopsYet /\ Service!Init
  BY DEF Init, NoLoopsYet, Service!Init, Service!Off, Alive
<1>2. TypeOK /\ ProgressInv <=> ShutdownInv
  BY DEF ShutdownInv
<1> QED
  BY <1>1, <1>2, ShutdownInit, TypeStep, ProgressStep, NoLoopsYetStep, ServiceStep, PTL
  DEF Spec, Service!Spec

\* Once the flag is set the loops go one way: a processor that waits for a job may
\* still get it, and starts no other (run_processor_loop).
THEOREM LoopsGoOneWay == Spec => Service!OneWay
<1>1. [Service!Next]_(Service!svars) => [Service!OneWayStep]_(Service!svars)
  BY DEF Service!Next, Service!svars, Service!Start, Service!Request, Service!End,
     Service!StopWatcher, Service!CheckFlag, Service!NoJob, Service!StartJob, Service!EndJob,
     Service!StopProcessor, Service!Off, Service!Running, Service!OneWayStep
<1> QED
  BY <1>1, ShutdownServes, PTL DEF Service!Spec, Service!OneWay

-----------------------------------------------------------------------------
(* The way out. *)

\* The steps of main that are left.
MainAhead(place) ==
  CASE place = "setup"         -> 8
    [] place = "spawned"       -> 7
    [] place = "waiting"       -> 6
    [] place = "cleanup"       -> 5
    [] place = "joinWatcher"   -> 4
    [] place = "joinProcessor" -> 3
    [] place = "unmount"       -> 2
    [] place = "finishing"     -> 1
    [] place = "exited"        -> 0

\* The places of main, one by one.
LEMMA MainPlaces ==
  /\ MainAhead("setup") = 8 /\ MainAhead("spawned") = 7 /\ MainAhead("waiting") = 6
  /\ MainAhead("cleanup") = 5 /\ MainAhead("joinWatcher") = 4
  /\ MainAhead("joinProcessor") = 3 /\ MainAhead("unmount") = 2
  /\ MainAhead("finishing") = 1 /\ MainAhead("exited") = 0
BY Zenon DEF MainAhead

\* main never goes back, and every step of its own, its timeout included, is one
\* less to go; while it waits, it waits for the same notification.
MainForward ==
  [][/\ MainAhead(main') <= MainAhead(main)
     /\ MainTask \/ Timeout => MainAhead(main') < MainAhead(main)
     /\ main = "waiting" => seen' = seen]_vars

\* When main begins to wait before notify_waiters is called, the notification
\* ends the wait; and in the closure and after it main waits for nobody who needs
\* it, for the signal task is over by then.
NotificationHeld ==
  /\ main = "waiting" /\ task # "ended" => seen = 0
  /\ main = "waiting" /\ task = "ended" /\ seen = 0 => calls > seen
  /\ main \in Cleanup \union {"finishing"} => task = "ended"

\* What main saw when it began to wait is what it waits to see change.
SeenInv == main = "waiting" /\ task # "ended" => seen = 0

\* main looks at the calls before it waits, and there is none before the signal
\* task ends.
LEMMA SeenStep == ShutdownInv /\ SeenInv /\ [Next]_vars => SeenInv'
<1> SUFFICES ASSUME ShutdownInv, SeenInv, [Next]_vars PROVE SeenInv'
  OBVIOUS
<1>1. CASE WaitForShutdown
  BY <1>1 DEF WaitForShutdown, SeenInv, ShutdownInv, ProgressInv
<1>2. CASE UNCHANGED seen /\ (main' = "waiting" => main = "waiting")
           /\ (task' # "ended" => task # "ended")
  BY <1>2 DEF SeenInv
<1> QED
  BY <1>1, <1>2 DEF Next, SignalTask, MainTask, Loops, vars, Listen, NotifyWaiters, SpawnLoops,
     Notified, ShowShutdown, JoinWatcher, JoinProcessor, Unmount, ExitProcess, StopWatcher,
     CheckFlag, ReceiveTimeout, StartJob, ReportProgress, EndJob, StopProcessor, Signal,
     Timeout, Gone, Cleanup

\* One step of main, of its timer or of a signal, or none.
LEMMA MainMoves ==
  ASSUME TypeOK, [Next]_vars
  PROVE  /\ MainAhead(main') <= MainAhead(main)
         /\ MainTask \/ Timeout => MainAhead(main') < MainAhead(main)
         /\ main = "waiting" => seen' = seen
<1> USE MainPlaces DEF TypeOK, Cleanup
<1>1. CASE MainTask \/ Timeout
  <2>1. \/ main = "setup" /\ main' = "spawned"
        \/ main = "spawned" /\ main' = "waiting"
        \/ main = "waiting" /\ main' = "cleanup" /\ seen' = seen
        \/ main = "cleanup" /\ main' = "joinWatcher"
        \/ main = "joinWatcher" /\ main' = "joinProcessor"
        \/ main = "joinProcessor" /\ main' = "unmount"
        \/ main = "unmount" /\ main' = "finishing"
        \/ main = "finishing" /\ main' = "exited"
        \/ main \in Cleanup \ {"unmount"} /\ main' = "finishing"
    BY <1>1 DEF MainTask, SpawnLoops, WaitForShutdown, Notified, ShowShutdown, JoinWatcher,
       JoinProcessor, Unmount, ExitProcess, Timeout
  <2> QED
    BY <2>1
<1>2. CASE ~ (MainTask \/ Timeout)
  <2>1. seen' = seen /\ main' \in {main, "exited"}
    BY <1>2 DEF Next, SignalTask, Loops, vars, Listen, NotifyWaiters, StopWatcher, CheckFlag,
       ReceiveTimeout, StartJob, ReportProgress, EndJob, StopProcessor, Signal, Gone
  <2> QED
    BY <1>2, <2>1
<1> QED
  BY <1>1, <1>2

\* A shutdown goes one way, and within eight steps of main the process is gone,
\* whatever the loops, further signals and failures do; the one wait that may
\* never end is for a notification that came before it (main.rs,
\* signal_handler.rs).  That main takes its steps is left to fairness.
THEOREM ShutdownGoesForward == Spec => MainForward /\ []NotificationHeld
<1>1. Init => SeenInv
  BY DEF Init, SeenInv
<1>2. ShutdownInv /\ [Next]_vars => ShutdownInv'
  BY TypeStep, ProgressStep DEF ShutdownInv
<1>3. ShutdownInv /\ [Next]_vars =>
        [/\ MainAhead(main') <= MainAhead(main)
         /\ MainTask \/ Timeout => MainAhead(main') < MainAhead(main)
         /\ main = "waiting" => seen' = seen]_vars
  BY MainMoves DEF ShutdownInv
<1>4. ShutdownInv /\ SeenInv => NotificationHeld
  BY DEF ShutdownInv, TypeOK, ProgressInv, SeenInv, NotificationHeld, Cleanup
<1> QED
  BY <1>1, <1>2, <1>3, <1>4, ShutdownInit, SeenStep, PTL DEF Spec, MainForward

=============================================================================
