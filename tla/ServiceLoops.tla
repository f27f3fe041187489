---------------------------- MODULE ServiceLoops ----------------------------
(***************************************************************************)
(* What the graceful shutdown and the loops of main.rs rely on of each     *)
(* other: main starts both loops, the watcher ends once the flag is set,   *)
(* and the processor looks at the flag before it waits for a job, and      *)
(* never between that and the end of the job it gets.  The process may end *)
(* at any time.                                                            *)
(*                                                                         *)
(* WatchService implements this module with loops that do all they do, and *)
(* ShutdownCoordinator with all that main does, so that neither assumes of *)
(* the other more than is there.                                           *)
(***************************************************************************)
VARIABLES
  flag,       \* a shutdown is requested
  watcher,    \* the watcher loop
  processor   \* the processor loop, with a job or without

svars == <<flag, watcher, processor>>

\* The loops of a process that has just started them.
Running == watcher = "running" /\ processor = "idle"

\* There are none.
Off == watcher = "off" /\ processor = "off"

Init == flag = FALSE /\ (Off \/ Running)

Start ==
  /\ Off
  /\ Running'
  /\ UNCHANGED flag

Request ==
  /\ ~ flag
  /\ flag' = TRUE
  /\ UNCHANGED <<watcher, processor>>

StopWatcher ==
  /\ watcher = "running" /\ flag
  /\ watcher' = "done"
  /\ UNCHANGED <<flag, processor>>

CheckFlag ==
  /\ processor = "idle" /\ ~ flag
  /\ processor' = "receiving"
  /\ UNCHANGED <<flag, watcher>>

\* No job arrives, or it is given up before it starts.
NoJob ==
  /\ processor = "receiving"
  /\ processor' = "idle"
  /\ UNCHANGED <<flag, watcher>>

StartJob ==
  /\ processor = "receiving"
  /\ processor' = "job"
  /\ UNCHANGED <<flag, watcher>>

EndJob ==
  /\ processor = "job"
  /\ processor' = "idle"
  /\ UNCHANGED <<flag, watcher>>

StopProcessor ==
  /\ processor = "idle" /\ flag
  /\ processor' = "done"
  /\ UNCHANGED <<flag, watcher>>

\* The process is gone.
End ==
  /\ Off'
  /\ flag' = FALSE

Next ==
  \/ Start \/ Request \/ End
  \/ StopWatcher
  \/ CheckFlag \/ NoJob \/ StartJob \/ EndJob \/ StopProcessor

Spec == Init /\ [][Next]_svars

-----------------------------------------------------------------------------
(* Properties. *)

\* The flag set, and the process there: a loop that moves starts, or moves on
\* towards its end.
OneWayStep ==
  flag /\ flag' =>
    /\ watcher' = watcher
       \/ <<watcher, watcher'>> \in {<<"off", "running">>, <<"running", "done">>}
    /\ processor' = processor
       \/ <<processor, processor'>> \in
            {<<"off", "idle">>, <<"receiving", "job">>, <<"receiving", "idle">>,
             <<"job", "idle">>, <<"idle", "done">>}

\* Once the flag is set, and until the process is gone, there is one way for each
\* loop: the watcher ends, and the processor gets the job it waits for or none,
\* finishes it, and ends.
OneWay == [][OneWayStep]_svars

=============================================================================
