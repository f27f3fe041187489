------------------------- MODULE WatchServiceProofs -------------------------
(***************************************************************************)
(* What holds of the watch mode for every number of folders, every queue   *)
(* capacity and every environment: types, that the shutdown lets at most   *)
(* one more job start, and, as long as users do not delete folders, that   *)
(* no folder is a job twice and that the duplicate check stays true.       *)
(***************************************************************************)
EXTENDS WatchService, Integers, TLAPS

USE NamesAssumption, LimitsAssumption, EnvironmentAssumption

-----------------------------------------------------------------------------
(* The queue as a sequence. *)

\* The names in a sequence.
Items(q) == { n \in Names : \E i \in DOMAIN q : q[i] = n }

\* No name occurs twice.
Distinct(q) == \A i, k \in DOMAIN q : q[i] = q[k] => i = k

\* Appending a name that is not there keeps the names distinct.
LEMMA AppendFacts ==
  ASSUME NEW q \in Seq(Names), NEW n \in Names
  PROVE  /\ Append(q, n) \in Seq(Names)
         /\ Len(Append(q, n)) = Len(q) + 1
         /\ Items(Append(q, n)) = Items(q) \union {n}
         /\ Distinct(q) /\ n \notin Items(q) => Distinct(Append(q, n))
<1>1. /\ Append(q, n) \in Seq(Names)
      /\ Len(Append(q, n)) = Len(q) + 1
      /\ DOMAIN Append(q, n) = 1 .. Len(q) + 1
      /\ DOMAIN q = 1 .. Len(q)
      /\ Len(q) \in Nat
  OBVIOUS
<1>2. /\ Append(q, n)[Len(q) + 1] = n
      /\ \A i \in 1 .. Len(q) : Append(q, n)[i] = q[i]
  OBVIOUS
<1>3. Items(Append(q, n)) = Items(q) \union {n}
  BY <1>1, <1>2 DEF Items
<1>4. ASSUME Distinct(q), n \notin Items(q) PROVE Distinct(Append(q, n))
  <2>1. \A i \in 1 .. Len(q) : q[i] # n
    BY <1>1, <1>4 DEF Items
  <2> QED
    BY <1>1, <1>2, <1>4, <2>1 DEF Distinct
<1> QED
  BY <1>1, <1>3, <1>4

\* Taking the head out of a sequence of distinct names leaves the others.
LEMMA TailFacts ==
  ASSUME NEW q \in Seq(Names), q # <<>>
  PROVE  /\ Head(q) \in Items(q)
         /\ Tail(q) \in Seq(Names)
         /\ Len(Tail(q)) = Len(q) - 1
         /\ Items(Tail(q)) \subseteq Items(q)
         /\ Distinct(q) => Distinct(Tail(q)) /\ Head(q) \notin Items(Tail(q))
<1>1. /\ Tail(q) \in Seq(Names)
      /\ Len(Tail(q)) = Len(q) - 1
      /\ Len(q) \in Nat \ {0}
      /\ DOMAIN q = 1 .. Len(q)
      /\ DOMAIN Tail(q) = 1 .. Len(q) - 1
  OBVIOUS
<1>2. \A i \in 1 .. Len(q) - 1 : Tail(q)[i] = q[i + 1]
  OBVIOUS
<1>3. Head(q) = q[1] /\ q[1] \in Names
  BY <1>1
<1>4. Head(q) \in Items(q)
  BY <1>1, <1>3 DEF Items
<1>5. Items(Tail(q)) \subseteq Items(q)
  BY <1>1, <1>2 DEF Items
<1>6. ASSUME Distinct(q) PROVE Distinct(Tail(q)) /\ Head(q) \notin Items(Tail(q))
  BY <1>1, <1>2, <1>3, <1>6 DEF Distinct, Items
<1> QED
  BY <1>1, <1>4, <1>5, <1>6

\* The empty queue.
LEMMA EmptyFacts == /\ <<>> \in Seq(Names) /\ Len(<<>>) = 0
                    /\ Items(<<>>) = {} /\ Distinct(<<>>)
BY DEF Items, Distinct

-----------------------------------------------------------------------------
(* Types. *)

\* A process that is gone has neither loop running nor a shutdown requested, so
\* that a restart begins from a clean state; and a job waits for another attempt
\* only if there is one left.
DownInv ==
  /\ ~ up => watcher = "stopped" /\ processor = "stopped" /\ ~ stop
  /\ processor = "backoff" => attempt < MaxAttempts

TypeInv == TypeOK /\ DownInv

\* The types hold when the service is first started.
LEMMA TypeInit == Init => TypeInv
<1> SUFFICES ASSUME Init PROVE TypeInv
  OBVIOUS
<1> USE DEF Init, Versions
<1>1. DiskType
  BY DEF DiskType
<1>2. WatcherType
  BY EmptyFacts DEF WatcherType
<1>3. ProcessorType
  BY DEF ProcessorType
<1>4. ServiceType
  <2>1. up \in BOOLEAN /\ stop \in BOOLEAN
    OBVIOUS
  <2>2. /\ queue \in Seq(Names) /\ Len(queue) <= Capacity
        /\ restarts \in 0 .. MaxRestarts /\ late \in Nat
    BY EmptyFacts
  <2> QED
    BY <2>1, <2>2 DEF ServiceType
<1>5. DownInv
  BY DEF DownInv
<1> QED
  BY <1>1, <1>2, <1>3, <1>4, <1>5 DEF TypeInv, TypeOK

\* An action that leaves a group of variables alone keeps its types.
LEMMA TypeUnchanged ==
  ASSUME TypeInv
  PROVE  /\ UNCHANGED disk => DiskType'
         /\ UNCHANGED wvars => WatcherType'
         /\ UNCHANGED pvars => ProcessorType'
         /\ UNCHANGED <<up, stop, queue, past>> => ServiceType'
         /\ UNCHANGED <<up, stop, watcher, processor, attempt>> => DownInv'
<1> USE DEF TypeInv, TypeOK
<1>1. UNCHANGED disk => DiskType'
  BY DEF DiskType, disk, Versions
<1>2. UNCHANGED wvars => WatcherType'
  BY DEF WatcherType, wvars
<1>3. UNCHANGED pvars => ProcessorType'
  BY DEF ProcessorType, pvars, Versions
<1>4. UNCHANGED <<up, stop, queue, past>> => ServiceType'
  BY DEF ServiceType, past
<1>5. UNCHANGED <<up, stop, watcher, processor, attempt>> => DownInv'
  BY DEF DownInv
<1> QED
  BY <1>1, <1>2, <1>3, <1>4, <1>5

\* The users' actions touch the disk and the events of a watch.
LEMMA TypeUsers == ASSUME TypeInv, Users PROVE TypeInv'
<1> USE DEF TypeInv, TypeOK
<1>1. PICK n \in Names : Arrive(n) \/ AddFiles(n) \/ Remove(n) \/ Expire(n)
  BY DEF Users
<1>2. DiskType'
  <2> USE DEF DiskType, Versions
  <2>1. CASE Arrive(n) \/ AddFiles(n)
    <3>1. versions[n] + 1 \in Versions
      BY <2>1 DEF Arrive, AddFiles
    <3> QED
      BY <2>1, <3>1 DEF Arrive, AddFiles
  <2>2. CASE Remove(n)
    BY <2>2 DEF Remove
  <2>3. CASE Expire(n)
    <3>1. CASE processed' = [processed EXCEPT ![n] = 0] /\ failed' = failed
      BY <2>3, <3>1 DEF Expire
    <3>2. CASE failed' = [failed EXCEPT ![n] = 0] /\ processed' = processed
      BY <2>3, <3>2 DEF Expire
    <3> QED
      BY <2>3, <3>1, <3>2 DEF Expire
  <2> QED
    BY <1>1, <2>1, <2>2, <2>3
<1>3. WatcherType'
  <2>1. events' \in {events, Append(events, n)}
    BY <1>1 DEF Arrive, AddFiles, Remove, Expire, wvars
  <2>2. events' \in Seq(Names)
    BY <2>1, AppendFacts DEF WatcherType
  <2> QED
    BY <1>1, <2>2 DEF Arrive, AddFiles, Remove, Expire, wvars, WatcherType
<1>4. ProcessorType'
  BY <1>1, TypeUnchanged DEF Arrive, AddFiles, Remove, Expire
<1>5. ServiceType'
  BY <1>1 DEF Arrive, AddFiles, Remove, Expire, past, ServiceType
<1>6. DownInv'
  BY <1>1 DEF Arrive, AddFiles, Remove, Expire, wvars, pvars, DownInv
<1> QED
  BY <1>2, <1>3, <1>4, <1>5, <1>6

\* The watcher's actions touch its variables and the queue.
LEMMA TypeWatcher == ASSUME TypeInv, Watcher PROVE TypeInv'
<1> USE DEF TypeInv, TypeOK, atWatcher, WatchAgain, Detected, WatcherStops
<1>1. DiskType' /\ ProcessorType'
  BY TypeUnchanged DEF Watcher, StartWatching, StopWatcher, HandleEvent, Poll, PollFails,
     CheckDuplicate, Stable, WaitFails, Enqueue
<1>2. WatcherType'
  <2> USE EmptyFacts DEF WatcherType
  <2>1. CASE StartWatching \/ StopWatcher
    BY <2>1 DEF StartWatching, StopWatcher, Present
  <2>2. CASE HandleEvent
    <3>1. Head(events) \in Names /\ Tail(events) \in Seq(Names)
      BY <2>2, TailFacts DEF HandleEvent, Items
    <3> QED
      BY <2>2, <3>1 DEF HandleEvent
  <2>3. CASE Poll \/ PollFails
    BY <2>3 DEF Poll, PollFails, Present
  <2>4. CASE CheckDuplicate \/ Stable \/ WaitFails \/ Enqueue
    BY <2>4 DEF CheckDuplicate, Stable, WaitFails, Enqueue
  <2> QED
    BY <2>1, <2>2, <2>3, <2>4 DEF Watcher
<1>3. ServiceType'
  <2>1. CASE Enqueue
    <3> USE DEF ServiceType, WatcherType, past
    <3>1. CASE processor = "stopped"
      BY <2>1, <3>1 DEF Enqueue
    <3>2. CASE processor # "stopped"
      <4>1. /\ candidate \in Names /\ queue' = Append(queue, candidate)
            /\ Len(queue) < Capacity
        BY <2>1, <3>2 DEF Enqueue
      <4>2. queue' \in Seq(Names) /\ Len(queue') = Len(queue) + 1 /\ Len(queue) \in Nat
        BY <4>1, AppendFacts
      <4> QED
        BY <2>1, <3>2, <4>1, <4>2 DEF Enqueue
    <3> QED
      BY <3>1, <3>2
  <2>2. CASE StopWatcher
    BY <2>2, TypeUnchanged DEF StopWatcher
  <2>3. CASE UNCHANGED <<up, stop, queue, past>>
    BY <2>3, TypeUnchanged
  <2> QED
    BY <2>1, <2>2, <2>3 DEF Watcher, StartWatching, HandleEvent, Poll, PollFails,
       CheckDuplicate, Stable, WaitFails
<1>4. DownInv'
  BY DEF Watcher, StartWatching, StopWatcher, HandleEvent, Poll, PollFails,
     CheckDuplicate, Stable, WaitFails, Enqueue, DownInv, pvars
<1> QED
  BY <1>1, <1>2, <1>3, <1>4

\* The processor's actions touch its variables and the queue, and moving a job
\* the disk.
LEMMA TypeProcessor == ASSUME TypeInv, Processor PROVE TypeInv'
<1> USE DEF TypeInv, TypeOK, atProcessor, NextJob, Ends
<1>1. DiskType'
  <2>1. CASE Move
    <3> USE DEF DiskType
    <3>1. job \in Names /\ input[job] \in Versions /\ 0 \in Versions
      BY <2>1 DEF Move, Present, Versions
    <3>2. input' \in [Names -> Versions] /\ versions' \in [Names -> Versions]
      BY <2>1, <3>1 DEF Move
    <3>3. processed' \in [Names -> Versions]
      BY <2>1, <3>1 DEF Move, MovedTo
    <3>4. failed' \in [Names -> Versions]
      BY <2>1, <3>1 DEF Move, MovedTo
    <3>5. aside' \in {aside, aside \union {<<job, input[job]>>}}
      BY <2>1 DEF Move, MovedTo
    <3>6. aside' \subseteq Names \X Versions
      BY <3>1, <3>5
    <3> QED
      BY <3>2, <3>3, <3>4, <3>6 DEF Versions
  <2>2. CASE ~ Move
    BY <2>2, TypeUnchanged DEF Processor, CheckFlag, StopProcessor, ReceiveTimeout,
       Dequeue, NoSpace, FirstAttempt, Succeed, Fail, Retry, AbortRetries, MoveFails
  <2> QED
    BY <2>1, <2>2
<1>2. WatcherType'
  BY TypeUnchanged DEF Processor, CheckFlag, StopProcessor, ReceiveTimeout, Dequeue,
     NoSpace, FirstAttempt, Succeed, Fail, Retry, AbortRetries, Move, MoveFails
<1>3. ProcessorType'
  <2> USE DEF ProcessorType
  <2>1. CASE CheckFlag \/ StopProcessor \/ ReceiveTimeout \/ NoSpace \/ Succeed \/ Fail
             \/ AbortRetries
    BY <2>1 DEF CheckFlag, StopProcessor, ReceiveTimeout, NoSpace, Succeed, Fail,
       AbortRetries, Versions
  <2>2. CASE Dequeue
    BY <2>2, TailFacts DEF Dequeue, Items, ServiceType, Versions
  <2>3. CASE FirstAttempt
    BY <2>3 DEF FirstAttempt, DiskType, Versions
  <2>4. CASE Retry
    BY <2>4 DEF Retry, DiskType, DownInv, Versions
  <2>5. CASE Move \/ MoveFails
    BY <2>5 DEF Move, MoveFails, Versions
  <2> QED
    BY <2>1, <2>2, <2>3, <2>4, <2>5 DEF Processor
<1>4. ServiceType'
  <2> USE DEF ServiceType
  <2>1. CASE Dequeue
    <3>1. /\ Tail(queue) \in Seq(Names)
          /\ Len(Tail(queue)) = Len(queue) - 1
          /\ Len(queue) \in Nat
      BY <2>1, TailFacts DEF Dequeue
    <3> QED
      BY <2>1, <3>1 DEF Dequeue
  <2>2. CASE StopProcessor
    BY <2>2, EmptyFacts DEF StopProcessor, past
  <2>3. CASE Move
    BY <2>3, TypeUnchanged DEF Move
  <2>4. CASE UNCHANGED <<up, stop, queue, past>>
    BY <2>4, TypeUnchanged
  <2> QED
    BY <2>1, <2>2, <2>3, <2>4 DEF Processor, CheckFlag, ReceiveTimeout, NoSpace,
       FirstAttempt, Succeed, Fail, Retry, AbortRetries, MoveFails
<1>5. DownInv'
  BY DEF Processor, CheckFlag, StopProcessor, ReceiveTimeout, Dequeue, NoSpace,
     FirstAttempt, Succeed, Fail, Retry, AbortRetries, Move, MoveFails, DownInv, wvars
<1> QED
  BY <1>1, <1>2, <1>3, <1>4, <1>5

\* Starting and ending the process leaves the disk alone.
LEMMA TypeMain == ASSUME TypeInv, Main PROVE TypeInv'
<1> USE DEF TypeInv, TypeOK
<1>1. CASE Shutdown \/ Restart
  <2> USE DEF Shutdown, Restart, Started, past
  <2>1. DiskType'
    BY <1>1, TypeUnchanged
  <2>2. WatcherType'
    BY <1>1 DEF WatcherType, DownInv, wvars
  <2>3. ProcessorType'
    BY <1>1 DEF ProcessorType, DownInv, pvars, Versions
  <2>4. ServiceType'
    <3>1. up' \in BOOLEAN /\ stop' \in BOOLEAN
      BY <1>1 DEF ServiceType
    <3>2. /\ queue' \in Seq(Names) /\ Len(queue') <= Capacity
          /\ restarts' \in 0 .. MaxRestarts /\ late' \in Nat
      BY <1>1 DEF ServiceType
    <3> QED
      BY <3>1, <3>2 DEF ServiceType
  <2>5. DownInv'
    BY <1>1 DEF DownInv, wvars, pvars
  <2> QED
    BY <2>1, <2>2, <2>3, <2>4, <2>5
<1>2. CASE Exit \/ ForcedExit \/ Crash
  <2>1. Ended
    BY <1>2 DEF Exit, ForcedExit, Crash
  <2> USE <2>1 DEF Ended
  <2>2. DiskType'
    BY TypeUnchanged
  <2>3. WatcherType'
    BY EmptyFacts DEF WatcherType
  <2>4. ProcessorType'
    BY DEF ProcessorType, Versions
  <2>5. ServiceType'
    <3>1. up' \in BOOLEAN /\ stop' \in BOOLEAN
      OBVIOUS
    <3>2. /\ queue' \in Seq(Names) /\ Len(queue') <= Capacity
          /\ restarts' \in 0 .. MaxRestarts /\ late' \in Nat
      BY EmptyFacts DEF ServiceType
    <3> QED
      BY <3>1, <3>2 DEF ServiceType
  <2>6. DownInv'
    BY DEF DownInv
  <2> QED
    BY <2>2, <2>3, <2>4, <2>5, <2>6
<1>3. CASE Gone
  BY <1>3, TypeUnchanged DEF Gone, vars, wvars, pvars
<1> QED
  BY <1>1, <1>2, <1>3 DEF Main

\* Every step keeps the types.
LEMMA TypeStep == TypeInv /\ [Next]_vars => TypeInv'
<1> SUFFICES ASSUME TypeInv, [Next]_vars PROVE TypeInv'
  OBVIOUS
<1>1. CASE UNCHANGED vars
  BY <1>1, TypeUnchanged DEF vars, wvars, pvars, TypeInv, TypeOK
<1> QED
  BY <1>1, TypeUsers, TypeWatcher, TypeProcessor, TypeMain DEF Next

\* TypeOK holds in every state of the watch mode (main.rs).
THEOREM TypeCorrect == Spec => []TypeOK
<1>1. TypeInv => TypeOK
  BY DEF TypeInv
<1> QED
  BY TypeInit, TypeStep, <1>1, PTL DEF Spec

-----------------------------------------------------------------------------
(* The shutdown. *)

\* A job can only be late if it was received after the flag was set, by a
\* processor that had not seen it; the next time it looks, it sees it.
LateInv == late # 0 => late = 1 /\ stop /\ processor # "receiving"

\* Only a job received after the flag was last seen unset is late, and the next
\* look at the flag ends the loop.
LEMMA LateStep == TypeInv /\ LateInv /\ [Next]_vars => LateInv'
<1> SUFFICES ASSUME TypeInv, LateInv, [Next]_vars PROVE LateInv'
  OBVIOUS
<1> USE DEF TypeInv, TypeOK, ServiceType, DownInv, LateInv, disk, wvars, pvars, past
<1>1. CASE UNCHANGED vars
  BY <1>1 DEF vars
<1>2. CASE Users
  BY <1>2 DEF Users, Arrive, AddFiles, Remove, Expire
<1>3. CASE Watcher
  BY <1>3 DEF Watcher, StartWatching, StopWatcher, HandleEvent, Poll, PollFails,
     CheckDuplicate, Stable, WaitFails, Enqueue
<1>4. CASE CheckFlag
  BY <1>4 DEF CheckFlag
<1>5. CASE Dequeue
  BY <1>5 DEF Dequeue, atProcessor
<1>6. CASE Processor /\ ~ CheckFlag /\ ~ Dequeue
  BY <1>6 DEF Processor, StopProcessor, ReceiveTimeout, NoSpace, FirstAttempt, Succeed,
     Fail, Retry, AbortRetries, Move, MoveFails, NextJob, Ends
<1>7. CASE Main
  BY <1>7 DEF Main, Shutdown, Exit, ForcedExit, Crash, Restart, Gone, Ended, Started, vars
<1> QED
  BY <1>1, <1>2, <1>3, <1>4, <1>5, <1>6, <1>7 DEF Next

\* After a shutdown is requested at most one more job is dequeued, whatever is
\* queued and however long the loops take (run_processor_loop).
THEOREM AtMostOneLateJob == Spec => []OneLateJob
<1>1. Init => LateInv
  BY DEF Init, LateInv
<1>2. LateInv => OneLateJob
  BY DEF LateInv, OneLateJob
<1> QED
  BY TypeInit, TypeStep, LateStep, <1>1, <1>2, PTL DEF Spec

-----------------------------------------------------------------------------
(* Folders in hand. *)

\* Folders are not deleted by their users.
FoldersStay == "remove" \notin Edits

\* The folders that are queued or being processed.
Held == Queued \union {job}

\* A folder in hand is in hand once and is still there; and the watcher does not
\* find it again: it is not among the events of the watch, and the polling
\* watcher knows it.
HandInv ==
  /\ Distinct(queue)
  /\ job \notin Queued
  /\ candidate \in Names => candidate \notin Held
  /\ \A n \in Names : n \in Held \/ n = candidate => input[n] # 0
  /\ Items(events) \intersect Held = {}
  /\ watcher = "polling" => Held \subseteq known \union {NoName}

\* No folder is in hand at the start.
LEMMA HandInit == Init => HandInv
BY EmptyFacts DEF Init, HandInv, Held, Queued, Items

\* Users create folders only where there is none, so never one that is in hand.
LEMMA HandUsers ==
  ASSUME FoldersStay, TypeInv, HandInv, Users
  PROVE  HandInv'
<1> USE DEF TypeInv, TypeOK, DiskType, Versions
<1>1. PICK n \in Names : Arrive(n) \/ AddFiles(n) \/ Expire(n)
  BY DEF Users, Remove, FoldersStay
<1>2. UNCHANGED <<queue, job, candidate, watcher, known>>
  BY <1>1 DEF Arrive, AddFiles, Expire, wvars, pvars
<1>3. Queued' = Queued /\ Held' = Held
  BY <1>2 DEF Queued, Held
<1>4. \A k \in Names : input[k] # 0 => input'[k] # 0
  BY <1>1 DEF Arrive, AddFiles, Expire
<1>5. Items(events') \intersect Held = {}
  <2>1. CASE Arrive(n)
    <3>1. n \notin Held
      BY <2>1 DEF Arrive, HandInv
    <3>2. events' = events \/ events' = Append(events, n)
      BY <2>1 DEF Arrive
    <3>3. Items(events') \subseteq Items(events) \union {n}
      BY <3>2, AppendFacts DEF WatcherType
    <3> QED
      BY <3>1, <3>3 DEF HandInv
  <2>2. CASE AddFiles(n) \/ Expire(n)
    BY <2>2 DEF AddFiles, Expire, wvars, HandInv
  <2> QED
    BY <1>1, <2>1, <2>2
<1> QED
  BY <1>2, <1>3, <1>4, <1>5 DEF HandInv

\* The watcher detects only folders that are not in hand.
LEMMA HandWatcher ==
  ASSUME TypeInv, HandInv, Watcher
  PROVE  HandInv'
<1> USE EmptyFacts DEF TypeInv, TypeOK, WatcherType, atWatcher, WatchAgain, Detected,
        WatcherStops
<1>1. CASE Enqueue
  <2>1. UNCHANGED <<input, job>> /\ candidate \in Names
    BY <1>1 DEF Enqueue, disk, pvars
  <2>2. Distinct(queue') /\ Items(queue') \subseteq Items(queue) \union {candidate}
    <3>1. candidate \notin Items(queue)
      BY <2>1 DEF HandInv, Held, Queued, Items
    <3>2. queue \in Seq(Names)
      BY DEF ServiceType
    <3>3. queue' = queue \/ queue' = Append(queue, candidate)
      BY <1>1 DEF Enqueue
    <3> QED
      BY <2>1, <3>1, <3>2, <3>3, AppendFacts DEF HandInv
  <2>3. job' \notin Queued'
    BY <2>1, <2>2 DEF HandInv, Held, Queued, Items
  <2>4. \A n \in Names : n \in Held' => n \in Held \/ n = candidate
    BY <2>1, <2>2 DEF Held, Queued, Items
  <2>5. candidate' \notin Names /\ events' = <<>> /\ watcher' = "head"
    BY <1>1, NamesAssumption DEF Enqueue
  <2> QED
    BY <2>1, <2>2, <2>3, <2>4, <2>5 DEF HandInv
<1>2. CASE ~ Enqueue
  <2>1. UNCHANGED <<disk, queue, pvars>>
    BY <1>2 DEF Watcher, StartWatching, StopWatcher, HandleEvent, Poll, PollFails,
       CheckDuplicate, Stable, WaitFails
  <2>2. Queued' = Queued /\ Held' = Held /\ input' = input
    BY <2>1 DEF Queued, Held, disk, pvars
  <2>3. Held \subseteq Present \union {NoName}
    BY DEF HandInv, Present, Held, Queued, ProcessorType
  <2>4. Items(events') \subseteq Items(events)
    <3>1. events' = events \/ events' = <<>> \/ (events # <<>> /\ events' = Tail(events))
      BY <1>2 DEF Watcher, StartWatching, StopWatcher, HandleEvent, Poll, PollFails,
         CheckDuplicate, Stable, WaitFails
    <3> QED
      BY <3>1, TailFacts
  <2>5. /\ candidate' \in Names => candidate' \notin Held
        /\ \A n \in Names : n = candidate' => input[n] # 0
    <3>1. CASE HandleEvent
      <4>1. Head(events) \in Items(events)
        BY <3>1, TailFacts DEF HandleEvent
      <4> QED
        BY <3>1, <4>1 DEF HandleEvent, HandInv, Present
    <3>2. CASE Poll
      BY <3>2 DEF Poll, HandInv, Present
    <3>3. CASE candidate' = candidate \/ candidate' = NoName
      BY <3>3, NamesAssumption DEF HandInv
    <3> QED
      BY <1>2, <3>1, <3>2, <3>3 DEF Watcher, StartWatching, StopWatcher, PollFails,
         CheckDuplicate, Stable, WaitFails
  <2>6. watcher' = "polling" => Held \subseteq known' \union {NoName}
    BY <1>2, <2>3 DEF Watcher, StartWatching, StopWatcher, HandleEvent, Poll, PollFails,
       CheckDuplicate, Stable, WaitFails, HandInv
  <2>7. Distinct(queue')
    BY <2>1 DEF HandInv
  <2>8. job' = job
    BY <2>1 DEF pvars
  <2> QED
    BY <2>2, <2>4, <2>5, <2>6, <2>7, <2>8 DEF HandInv
<1> QED
  BY <1>1, <1>2

\* The processor only takes folders out of hand, and moves only its own.
LEMMA HandProcessor ==
  ASSUME TypeInv, HandInv, Processor
  PROVE  HandInv'
<1> USE DEF TypeInv, TypeOK
<1>1. UNCHANGED wvars
  BY DEF Processor, CheckFlag, StopProcessor, ReceiveTimeout, Dequeue, NoSpace,
     FirstAttempt, Succeed, Fail, Retry, AbortRetries, Move, MoveFails
<1>2. Distinct(queue') /\ job' \notin Queued' /\ Held' \subseteq Held \union {NoName}
  <2>1. CASE Dequeue
    <3>1. queue \in Seq(Names) /\ queue # <<>>
      BY <2>1 DEF Dequeue, ServiceType
    <3>2. queue' = Tail(queue) /\ job' = Head(queue)
      BY <2>1 DEF Dequeue
    <3> QED
      BY <3>1, <3>2, TailFacts DEF HandInv, Held, Queued, Items
  <2>2. CASE StopProcessor
    BY <2>2, EmptyFacts DEF StopProcessor, HandInv, Held, Queued, Items
  <2>3. CASE queue' = queue /\ job' \in {job, NoName}
    BY <2>3, NamesAssumption DEF HandInv, Held, Queued
  <2> QED
    BY <2>1, <2>2, <2>3 DEF Processor, CheckFlag, ReceiveTimeout, NoSpace,
       FirstAttempt, Succeed, Fail, Retry, AbortRetries, Move, MoveFails, NextJob
<1>3. \A n \in Names : n \in Held' \/ n = candidate => input'[n] # 0
  <2>1. CASE Move
    <3>1. job \in Names /\ input' = [input EXCEPT ![job] = 0] /\ queue' = queue /\ job' = NoName
      BY <2>1 DEF Move, NextJob, Present
    <3>2. \A n \in Names : n \in Held' \/ n = candidate => n # job
      BY <3>1, NamesAssumption DEF HandInv, Held, Queued
    <3>3. \A n \in Names : n # job => input'[n] = input[n]
      BY <3>1 DEF DiskType
    <3> QED
      BY <1>2, <3>2, <3>3, NamesAssumption DEF HandInv
  <2>2. CASE ~ Move
    <3>1. input' = input
      BY <2>2 DEF Processor, CheckFlag, StopProcessor, ReceiveTimeout, Dequeue, NoSpace,
         FirstAttempt, Succeed, Fail, Retry, AbortRetries, MoveFails, disk
    <3> QED
      BY <1>2, <3>1, NamesAssumption DEF HandInv
  <2> QED
    BY <2>1, <2>2
<1>4. Items(events) \subseteq Names
  BY DEF Items
<1> QED
  BY <1>1, <1>2, <1>3, <1>4, NamesAssumption DEF HandInv, wvars

\* Starting and ending the process brings nothing into hand.
LEMMA HandMain ==
  ASSUME TypeInv, HandInv, Main
  PROVE  HandInv'
<1> USE DEF TypeInv, TypeOK
<1>1. CASE Shutdown \/ Restart \/ Gone
  <2>1. /\ UNCHANGED <<disk, queue, job, candidate, events, known>>
        /\ watcher' = watcher \/ watcher' = "head"
    BY <1>1 DEF Shutdown, Restart, Gone, Started, vars, wvars, pvars
  <2>2. Queued' = Queued /\ Held' = Held /\ input' = input
    BY <2>1 DEF Queued, Held, disk
  <2> QED
    BY <2>1, <2>2 DEF HandInv
<1>2. CASE Exit \/ ForcedExit \/ Crash
  <2>1. Ended
    BY <1>2 DEF Exit, ForcedExit, Crash
  <2>2. Queued' = {} /\ Held' = {NoName} /\ Distinct(queue')
    BY <2>1, EmptyFacts DEF Ended, Queued, Held
  <2> QED
    BY <2>1, <2>2, EmptyFacts, NamesAssumption DEF Ended, HandInv
<1> QED
  BY <1>1, <1>2 DEF Main

\* Every step keeps the folders in hand distinct and in the input directory.
LEMMA HandStep == FoldersStay /\ TypeInv /\ HandInv /\ [Next]_vars => HandInv'
<1> SUFFICES ASSUME FoldersStay, TypeInv, HandInv, [Next]_vars PROVE HandInv'
  OBVIOUS
<1>1. CASE UNCHANGED vars
  BY <1>1 DEF vars, disk, wvars, pvars, HandInv, Held, Queued
<1> QED
  BY <1>1, HandUsers, HandWatcher, HandProcessor, HandMain DEF Next

\* As long as users delete no folder, none is a job twice, whatever the queue
\* holds and however detection is restarted: the duplicate check needs not look
\* at the queue (dedup.rs, run_watcher_loop).
THEOREM NoFolderTwice == FoldersStay => (Spec => []OnceInHand)
<1> SUFFICES ASSUME FoldersStay PROVE Spec => []OnceInHand
  OBVIOUS
<1>1. HandInv => OnceInHand
  BY NamesAssumption DEF HandInv, OnceInHand, Distinct, Held, Queued
<1> QED
  BY TypeInit, TypeStep, HandInit, HandStep, <1>1, PTL DEF Spec

-----------------------------------------------------------------------------
(* The duplicate check. *)

\* It holds for what is queued or processed, and for a candidate that passed it.
CheckInv ==
  \A n \in Names :
    n \in Held \/ (n = candidate /\ watcher \in {"waiting", "sending"}) => ~ IsDuplicate(n)

\* No folder is in hand at the start, so that there is nothing to check.
LEMMA CheckInit == Init => CheckInv
BY EmptyFacts, NamesAssumption DEF Init, CheckInv, Held, Queued

\* Only moving a job fills a folder of processed/ or error/, and that job is in
\* hand nowhere else.
LEMMA CheckStep == TypeInv /\ HandInv /\ CheckInv /\ [Next]_vars => CheckInv'
<1> SUFFICES ASSUME TypeInv, HandInv, CheckInv, [Next]_vars PROVE CheckInv'
  OBVIOUS
<1> USE EmptyFacts, NamesAssumption DEF TypeInv, TypeOK, IsDuplicate
<1>1. CASE UNCHANGED vars
  BY <1>1 DEF vars, disk, wvars, pvars, CheckInv, Held, Queued
<1>2. CASE Users
  <2>1. PICK n \in Names : Arrive(n) \/ AddFiles(n) \/ Remove(n) \/ Expire(n)
    BY <1>2 DEF Users
  <2>2. UNCHANGED <<queue, job, candidate, watcher>>
    BY <2>1 DEF Arrive, AddFiles, Remove, Expire, wvars, pvars
  <2>3. Held' = Held
    BY <2>2 DEF Held, Queued
  <2>4. \A k \in Names : IsDuplicate(k)' => IsDuplicate(k)
    BY <2>1 DEF Arrive, AddFiles, Remove, Expire, DiskType
  <2> QED
    BY <2>2, <2>3, <2>4 DEF CheckInv
<1>3. CASE Watcher
  <2>1. UNCHANGED <<disk, job>>
    BY <1>3 DEF Watcher, StartWatching, StopWatcher, HandleEvent, Poll, PollFails,
       CheckDuplicate, Stable, WaitFails, Enqueue, pvars
  <2>2. \A k \in Names : IsDuplicate(k)' = IsDuplicate(k)
    BY <2>1 DEF disk
  <2>3. CASE Enqueue
    <3>1. /\ queue \in Seq(Names) /\ candidate \in Names
          /\ watcher = "sending" /\ watcher' = "head"
          /\ queue' = queue \/ queue' = Append(queue, candidate)
      BY <2>3 DEF Enqueue, atWatcher, WatchAgain, WatcherType, ServiceType
    <3>2. Held' \subseteq Held \union {candidate}
      BY <2>1, <3>1, AppendFacts DEF Held, Queued, Items
    <3> QED
      BY <2>2, <3>1, <3>2 DEF CheckInv
  <2>4. CASE CheckDuplicate
    <3>1. queue' = queue /\ watcher' = "waiting" => candidate' = candidate /\ ~ IsDuplicate(candidate)
      BY <2>4 DEF CheckDuplicate, WatchAgain, wvars
    <3>2. queue' = queue /\ watcher' \in {"head", "waiting"}
      BY <2>4 DEF CheckDuplicate, WatchAgain
    <3>3. Held' = Held
      BY <2>1, <3>2 DEF Held, Queued
    <3> QED
      BY <2>2, <3>1, <3>2, <3>3 DEF CheckInv
  <2>5. CASE ~ Enqueue /\ ~ CheckDuplicate
    <3>1. queue' = queue
      BY <1>3, <2>5 DEF Watcher, StartWatching, StopWatcher, HandleEvent, Poll, PollFails,
         Stable, WaitFails
    <3>2. watcher' \in {"waiting", "sending"}
            => \/ watcher = "waiting" /\ candidate' = candidate
               \/ UNCHANGED <<watcher, candidate>>
      BY <1>3, <2>5 DEF Watcher, StartWatching, StopWatcher, HandleEvent, Poll, PollFails,
         Stable, WaitFails, WatchAgain, WatcherStops, Detected, atWatcher
    <3>3. Held' = Held
      BY <2>1, <3>1 DEF Held, Queued
    <3> QED
      BY <2>2, <3>2, <3>3 DEF CheckInv
  <2> QED
    BY <2>3, <2>4, <2>5
<1>4. CASE Processor
  <2>1. UNCHANGED wvars
    BY <1>4 DEF Processor, CheckFlag, StopProcessor, ReceiveTimeout, Dequeue, NoSpace,
       FirstAttempt, Succeed, Fail, Retry, AbortRetries, Move, MoveFails
  <2>2. CASE Move
    <3>1. job \in Names /\ queue' = queue /\ job' = NoName
      BY <2>2 DEF Move, NextJob, Present
    <3>2. Held' \subseteq (Held \ {job}) \union {NoName}
      BY <3>1 DEF Held, Queued, HandInv
    <3>3. candidate # job
      BY <3>1 DEF HandInv, Held
    <3>4. \A k \in Names : k # job => IsDuplicate(k)' = IsDuplicate(k)
      BY <2>2, <3>1 DEF Move, MovedTo, DiskType
    <3> QED
      BY <2>1, <3>2, <3>3, <3>4 DEF CheckInv, wvars
  <2>3. CASE ~ Move
    <3>1. UNCHANGED disk
      BY <1>4, <2>3 DEF Processor, CheckFlag, StopProcessor, ReceiveTimeout, Dequeue, NoSpace,
         FirstAttempt, Succeed, Fail, Retry, AbortRetries, MoveFails
    <3>2. Held' \subseteq Held \union {NoName}
      <4>1. CASE Dequeue
        <5>1. /\ queue \in Seq(Names) /\ queue # <<>>
              /\ queue' = Tail(queue) /\ job' = Head(queue)
          BY <4>1 DEF Dequeue, ServiceType
        <5> QED
          BY <5>1, TailFacts DEF Held, Queued, Items
      <4>2. CASE queue' \in {queue, <<>>} /\ job' \in {job, NoName}
        BY <4>2 DEF Held, Queued
      <4> QED
        BY <1>4, <2>3, <4>1, <4>2 DEF Processor, CheckFlag, StopProcessor, ReceiveTimeout,
           NoSpace, FirstAttempt, Succeed, Fail, Retry, AbortRetries, MoveFails, NextJob
    <3> QED
      BY <2>1, <3>1, <3>2 DEF CheckInv, wvars, disk
  <2> QED
    BY <2>2, <2>3
<1>5. CASE Main
  <2>1. UNCHANGED disk
    BY <1>5 DEF Main, Shutdown, Exit, ForcedExit, Crash, Restart, Gone, Ended, vars
  <2>2. CASE Ended
    BY <2>2 DEF Ended, CheckInv, Held, Queued
  <2>3. CASE ~ Ended
    <3>1. /\ UNCHANGED <<queue, job, candidate>>
          /\ watcher' = watcher \/ watcher' = "head"
      BY <1>5, <2>3 DEF Main, Shutdown, Exit, ForcedExit, Crash, Restart, Gone, Started,
         vars, wvars, pvars
    <3>2. Held' = Held
      BY <3>1 DEF Held, Queued
    <3> QED
      BY <2>1, <3>1, <3>2 DEF CheckInv, disk
  <2> QED
    BY <2>2, <2>3
<1> QED
  BY <1>1, <1>2, <1>3, <1>4, <1>5 DEF Next

\* As long as users delete no folder, the duplicate check made when a folder was
\* detected still holds when its job runs and it is moved, so that the name it
\* is moved to is free (dedup.rs, cleanup.rs).
THEOREM TheCheckStaysTrue == FoldersStay => (Spec => []CheckStaysTrue)
<1> SUFFICES ASSUME FoldersStay PROVE Spec => []CheckStaysTrue
  OBVIOUS
<1>1. CheckInv => CheckStaysTrue
  BY DEF CheckInv, CheckStaysTrue, Held
<1> QED
  BY TypeInit, TypeStep, HandInit, HandStep, CheckInit, CheckStep, <1>1, PTL DEF Spec

-----------------------------------------------------------------------------
(* What is processed. *)

\* Users do nothing to a folder once it is there.
FoldersKept == Edits = {}

\* A job works from its folder as it is.
RanInv ==
  /\ processor \in {"running", "backoff"} \/ verdict = "success" => ran = input[job]
  /\ verdict = "success" => processor = "moving"

\* As long as no upload changes, an attempt works from the folder as it is.
LEMMA RanStep ==
  FoldersKept /\ TypeInv /\ HandInv /\ RanInv /\ [Next]_vars => RanInv'
<1> SUFFICES ASSUME FoldersKept, TypeInv, HandInv, RanInv, [Next]_vars PROVE RanInv'
  OBVIOUS
<1> USE NamesAssumption DEF TypeInv, TypeOK, ProcessorType
<1>1. CASE UNCHANGED vars
  BY <1>1 DEF vars, disk, pvars, RanInv
<1>2. CASE Users
  <2>1. PICK n \in Names : Arrive(n) \/ Expire(n)
    BY <1>2 DEF Users, AddFiles, Remove, FoldersKept
  <2>2. UNCHANGED pvars
    BY <2>1 DEF Arrive, Expire
  <2>3. job \in Names => input'[job] = input[job]
    BY <2>1 DEF Arrive, Expire, HandInv, Held, DiskType
  <2> QED
    BY <2>2, <2>3 DEF RanInv, pvars
<1>3. CASE Watcher
  BY <1>3 DEF Watcher, StartWatching, StopWatcher, HandleEvent, Poll, PollFails,
     CheckDuplicate, Stable, WaitFails, Enqueue, disk, pvars, RanInv
<1>4. CASE Processor
  BY <1>4 DEF Processor, CheckFlag, StopProcessor, ReceiveTimeout, Dequeue, NoSpace,
     FirstAttempt, Succeed, Fail, Retry, AbortRetries, Move, MoveFails, NextJob, Ends,
     atProcessor, disk, RanInv
<1>5. CASE Main
  BY <1>5 DEF Main, Shutdown, Exit, ForcedExit, Crash, Restart, Gone, Ended, Started,
     vars, disk, pvars, RanInv, DownInv
<1> QED
  BY <1>1, <1>2, <1>3, <1>4, <1>5 DEF Next

\* A folder that is new in processed/ is the one the last attempt worked from.
LEMMA MovedIsRan ==
  ASSUME TypeInv, RanInv, [Next]_vars, NEW n \in Names, processed'[n] \notin {0, processed[n]}
  PROVE  processed'[n] = ran
<1> USE DEF TypeInv, TypeOK, DiskType
<1>1. processed' # processed
  OBVIOUS
<1>2. Move \/ \E k \in Names : Expire(k)
  BY <1>1 DEF Next, Watcher, StartWatching, StopWatcher, HandleEvent, Poll, PollFails,
     CheckDuplicate, Stable, WaitFails, Enqueue, Processor, CheckFlag, StopProcessor,
     ReceiveTimeout, Dequeue, NoSpace, FirstAttempt, Succeed, Fail, Retry, AbortRetries,
     MoveFails, Users, Arrive, AddFiles, Remove, Main, Shutdown, Exit, ForcedExit, Crash,
     Restart, Gone, Ended, vars, disk
<1>3. CASE \E k \in Names : Expire(k)
  BY <1>3 DEF Expire
<1>4. CASE Move
  <2>1. verdict = "success" /\ job \in Names
    BY <1>1, <1>4 DEF Move, MovedTo, Present
  <2>2. processed' = [processed EXCEPT ![job] = input[job]]
    BY <1>1, <1>4, <2>1 DEF Move, MovedTo
  <2> QED
    BY <2>1, <2>2 DEF RanInv
<1> QED
  BY <1>2, <1>3, <1>4

\* As long as users leave their folders alone, what is moved to processed/ is
\* what the successful attempt worked from (run_processor_loop).
THEOREM MovedWasRun == FoldersKept => (Spec => ProcessedWasRun)
<1> SUFFICES ASSUME FoldersKept PROVE Spec => ProcessedWasRun
  OBVIOUS
<1>1. FoldersStay
  BY DEF FoldersKept, FoldersStay
<1>2. Init => RanInv
  BY DEF Init, RanInv
<1>3. TypeInv /\ RanInv /\ [Next]_vars =>
        [\A n \in Names : processed'[n] \notin {0, processed[n]} => processed'[n] = ran]_vars
  BY MovedIsRan
<1> QED
  BY <1>1, <1>2, <1>3, TypeInit, TypeStep, HandInit, HandStep, RanStep, PTL
  DEF Spec, ProcessedWasRun

-----------------------------------------------------------------------------
(* What goes to error/. *)

\* A retryable error is the result only when there was no attempt, no more
\* attempts, or a shutdown.
RetryInv ==
  /\ processor \in {"head", "receiving", "space", "stopped"} => attempt = 0
  /\ processor = "moving" =>
       verdict \in {"success", "permanent"} \/ attempt \in {0, MaxAttempts} \/ stop

\* Every step keeps that.
LEMMA RetryStep == TypeInv /\ RetryInv /\ [Next]_vars => RetryInv'
<1> SUFFICES ASSUME TypeInv, RetryInv, [Next]_vars PROVE RetryInv'
  OBVIOUS
<1>1. CASE UNCHANGED vars
  BY <1>1 DEF vars, pvars, RetryInv
<1>2. CASE Users
  BY <1>2 DEF Users, Arrive, AddFiles, Remove, Expire, pvars, RetryInv
<1>3. CASE Watcher
  BY <1>3 DEF Watcher, StartWatching, StopWatcher, HandleEvent, Poll, PollFails,
     CheckDuplicate, Stable, WaitFails, Enqueue, pvars, RetryInv
<1>4. CASE Processor
  BY <1>4 DEF Processor, CheckFlag, StopProcessor, ReceiveTimeout, Dequeue, NoSpace,
     FirstAttempt, Succeed, Fail, Retry, AbortRetries, Move, MoveFails, NextJob, Ends,
     atProcessor, RetryInv
<1>5. CASE Main
  BY <1>5 DEF Main, Shutdown, Exit, ForcedExit, Crash, Restart, Gone, Ended, Started,
     vars, pvars, RetryInv, TypeInv, DownInv
<1> QED
  BY <1>1, <1>2, <1>3, <1>4, <1>5 DEF Next

\* A folder that is new in error/ is there by the verdict on its job.
LEMMA FailedByVerdict ==
  ASSUME TypeInv, RetryInv, [Next]_vars, NEW n \in Names, failed'[n] \notin {0, failed[n]}
  PROVE  verdict = "permanent" \/ attempt \in {0, MaxAttempts} \/ stop
<1> USE DEF TypeInv, TypeOK, DiskType
<1>1. failed' # failed
  OBVIOUS
<1>2. Move \/ \E k \in Names : Expire(k)
  BY <1>1 DEF Next, Watcher, StartWatching, StopWatcher, HandleEvent, Poll, PollFails,
     CheckDuplicate, Stable, WaitFails, Enqueue, Processor, CheckFlag, StopProcessor,
     ReceiveTimeout, Dequeue, NoSpace, FirstAttempt, Succeed, Fail, Retry, AbortRetries,
     MoveFails, Users, Arrive, AddFiles, Remove, Main, Shutdown, Exit, ForcedExit, Crash,
     Restart, Gone, Ended, vars, disk
<1>3. CASE \E k \in Names : Expire(k)
  BY <1>3 DEF Expire
<1>4. CASE Move
  BY <1>1, <1>4 DEF Move, MovedTo, atProcessor, RetryInv
<1> QED
  BY <1>2, <1>3, <1>4

\* A folder goes to error/ untried, for good, after the last attempt or because
\* of a shutdown, whatever else happens (retry.rs, run_processor_loop).
THEOREM AllRetriesAreUsed == Spec => RetriesAreUsed
<1>1. Init => RetryInv
  BY DEF Init, RetryInv
<1>2. TypeInv /\ RetryInv /\ [Next]_vars =>
        [\A n \in Names : failed'[n] \notin {0, failed[n]}
           => verdict = "permanent" \/ attempt \in {0, MaxAttempts} \/ stop]_vars
  BY FailedByVerdict
<1> QED
  BY <1>1, <1>2, TypeInit, TypeStep, RetryStep, PTL DEF Spec, RetriesAreUsed

-----------------------------------------------------------------------------
(* The end of the loops. *)

\* The most steps that the processor loop takes once the flag is set: what is
\* left of its job, with every attempt and every delay, and the look at the flag.
AheadAt(place, tried) ==
  CASE place = "stopped"   -> 0
    [] place = "head"      -> 1
    [] place = "moving"    -> 2
    [] place = "backoff"   -> 3 + 2 * (MaxAttempts - tried)
    [] place = "running"   -> 4 + 2 * (MaxAttempts - tried)
    [] place = "space"     -> 5 + 2 * MaxAttempts
    [] place = "receiving" -> 6 + 2 * MaxAttempts

ProcessorAhead == AheadAt(processor, attempt)

\* How far the watcher loop has to go: a watch that may still find a folder, the
\* folder's check, its wait, the queue, and the look at the flag.
WatchAhead(place) ==
  CASE place = "stopped"  -> 0
    [] place = "head"     -> 1
    [] place = "sending"  -> 2
    [] place = "waiting"  -> 3
    [] place = "checking" -> 4
    [] place = "watching" -> 5
    [] place = "polling"  -> 5

WatcherAhead == WatchAhead(watcher)

\* Once the flag is set, and until the process is gone, no step sends a loop
\* back: whatever the processor does brings it nearer its end, whatever the
\* watcher does brings it nearer or leaves it in its watch, and nobody else moves
\* them (run_watcher_loop, run_processor_loop).
LoopsEnd ==
  [][stop /\ up' =>
       /\ stop'
       /\ ProcessorAhead' <= ProcessorAhead
       /\ Processor => ProcessorAhead' < ProcessorAhead
       /\ WatcherAhead' <= WatcherAhead
       /\ Watcher => \/ WatcherAhead' < WatcherAhead
                     \/ watcher \in {"watching", "polling"} /\ watcher' = watcher]_vars

\* A process that is up and is to stop stays so until it is gone.
LEMMA StopStays ==
  ASSUME TypeInv, [Next]_vars, stop, up'
  PROVE  stop'
<1> USE DEF TypeInv, DownInv
<1>1. CASE Main
  BY <1>1 DEF Main, Shutdown, Exit, ForcedExit, Crash, Restart, Gone, Ended, vars
<1>2. CASE ~ Main
  BY <1>2 DEF Next, vars, Users, Arrive, AddFiles, Remove, Expire, Watcher, StartWatching,
     StopWatcher, HandleEvent, Poll, PollFails, CheckDuplicate, Stable, WaitFails, Enqueue,
     Processor, CheckFlag, StopProcessor, ReceiveTimeout, Dequeue, NoSpace, FirstAttempt,
     Succeed, Fail, Retry, AbortRetries, Move, MoveFails
<1> QED
  BY <1>1, <1>2

\* The places of the processor, one by one.
LEMMA ProcessorPlaces ==
  ASSUME NEW tried
  PROVE  /\ AheadAt("stopped", tried) = 0
         /\ AheadAt("head", tried) = 1
         /\ AheadAt("moving", tried) = 2
         /\ AheadAt("backoff", tried) = 3 + 2 * (MaxAttempts - tried)
         /\ AheadAt("running", tried) = 4 + 2 * (MaxAttempts - tried)
         /\ AheadAt("space", tried) = 5 + 2 * MaxAttempts
         /\ AheadAt("receiving", tried) = 6 + 2 * MaxAttempts
BY Zenon DEF AheadAt

\* Those of the watcher.
LEMMA WatcherPlaces ==
  /\ WatchAhead("stopped") = 0 /\ WatchAhead("head") = 1 /\ WatchAhead("sending") = 2
  /\ WatchAhead("waiting") = 3 /\ WatchAhead("checking") = 4
  /\ WatchAhead("watching") = 5 /\ WatchAhead("polling") = 5
BY Zenon DEF WatchAhead

\* Each step of the processor is one less to go: each attempt counts, and the
\* head of the loop leads out of it when it is to stop.
LEMMA ProcessorNearer ==
  ASSUME TypeInv, Processor, stop \/ processor # "head"
  PROVE  ProcessorAhead' < ProcessorAhead
<1> USE DEF atProcessor, NextJob, Ends
<1>1. attempt \in 0 .. MaxAttempts /\ MaxAttempts \in Nat \ {0}
      /\ (processor = "backoff" => attempt < MaxAttempts)
  BY DEF TypeInv, TypeOK, ProcessorType, DownInv
<1>2. \/ processor = "head" /\ processor' = "stopped"
      \/ processor = "receiving" /\ processor' \in {"head", "space"}
      \/ processor = "space" /\ processor' = "moving"
      \/ processor = "space" /\ processor' = "running" /\ attempt' = 1
      \/ processor = "running" /\ processor' \in {"moving", "backoff"} /\ attempt' = attempt
      \/ processor = "backoff" /\ processor' = "running" /\ attempt' = attempt + 1
      \/ processor = "backoff" /\ processor' = "moving"
      \/ processor = "moving" /\ processor' = "head"
  BY DEF Processor, CheckFlag, StopProcessor, ReceiveTimeout, Dequeue, NoSpace, FirstAttempt,
     Succeed, Fail, Retry, AbortRetries, Move, MoveFails
<1> QED
  BY <1>1, <1>2, ProcessorPlaces DEF ProcessorAhead

\* Each step of the watcher is one less to go, or one more look at its watch: a
\* new watch is not begun.
LEMMA WatcherNearer ==
  ASSUME Watcher, stop
  PROVE  /\ WatcherAhead' <= WatcherAhead
         /\ \/ WatcherAhead' < WatcherAhead
            \/ watcher \in {"watching", "polling"} /\ watcher' = watcher
<1> USE DEF atWatcher, WatchAgain, Detected, WatcherStops
<1>1. \/ watcher \in {"head", "watching", "polling", "waiting"} /\ watcher' = "stopped"
      \/ watcher \in {"watching", "polling"} /\ watcher' \in {watcher, "checking", "head"}
      \/ watcher = "checking" /\ watcher' \in {"head", "waiting"}
      \/ watcher = "waiting" /\ watcher' \in {"head", "sending"}
      \/ watcher = "sending" /\ watcher' = "head"
  BY DEF Watcher, StartWatching, StopWatcher, HandleEvent, Poll, PollFails, CheckDuplicate,
     Stable, WaitFails, Enqueue
<1> QED
  BY <1>1, WatcherPlaces DEF WatcherAhead

\* The loops are never further than the last job and its attempts.
LEMMA AheadType ==
  ASSUME TypeInv
  PROVE  /\ ProcessorAhead \in 0 .. 6 + 2 * MaxAttempts
         /\ WatcherAhead \in 0 .. 5
<1> USE DEF TypeInv, TypeOK, ProcessorType, WatcherType, DownInv
<1>1. attempt \in 0 .. MaxAttempts /\ MaxAttempts \in Nat \ {0}
  OBVIOUS
<1>2. ProcessorAhead \in 0 .. 6 + 2 * MaxAttempts
  BY <1>1, ProcessorPlaces DEF ProcessorAhead
<1>3. WatcherAhead \in 0 .. 5
  BY WatcherPlaces DEF WatcherAhead
<1> QED
  BY <1>2, <1>3

\* The same one step later.
LEMMA AheadTypeNext ==
  ASSUME TypeInv, [Next]_vars
  PROVE  ProcessorAhead' \in Int /\ WatcherAhead' \in Int
<1>1. TypeInv'
  BY TypeStep
<1> USE <1>1 DEF TypeInv, TypeOK, ProcessorType, WatcherType
<1>2. ProcessorAhead' \in Int
  BY ProcessorPlaces DEF ProcessorAhead
<1>3. WatcherAhead' \in Int
  BY WatcherPlaces DEF WatcherAhead
<1> QED
  BY <1>2, <1>3

\* What is not a loop's own step leaves it where it is.
LEMMA OthersLeave ==
  ASSUME TypeInv, [Next]_vars, stop, up'
  PROVE  /\ ~ Processor => UNCHANGED <<processor, attempt>>
         /\ ~ Watcher => UNCHANGED watcher
<1>1. CASE Users \/ Main \/ UNCHANGED vars
  BY <1>1 DEF Users, Arrive, AddFiles, Remove, Expire, Main, Shutdown, Exit, ForcedExit, Crash,
     Restart, Gone, Ended, wvars, pvars, vars, TypeInv, DownInv
<1>2. CASE Watcher
  BY <1>2 DEF Watcher, StartWatching, StopWatcher, HandleEvent, Poll, PollFails,
     CheckDuplicate, Stable, WaitFails, Enqueue, pvars
<1>3. CASE Processor
  BY <1>3 DEF Processor, CheckFlag, StopProcessor, ReceiveTimeout, Dequeue, NoSpace,
     FirstAttempt, Succeed, Fail, Retry, AbortRetries, Move, MoveFails, wvars
<1> QED
  BY <1>1, <1>2, <1>3 DEF Next

\* A requested shutdown goes one way: within 6 + 2 * MaxAttempts steps of its own
\* the processor has ended, whatever is queued, uploaded or failing meanwhile, and
\* the watcher never begins another watch.  What is left to fairness is that the
\* loops take their steps and that the watch is cancelled (main.rs).
THEOREM ShutdownEndsLoops ==
  Spec => LoopsEnd /\ [](ProcessorAhead \in 0 .. 6 + 2 * MaxAttempts)
<1>1. TypeInv /\ RetryInv /\ [Next]_vars =>
        [stop /\ up' =>
           /\ stop'
           /\ ProcessorAhead' <= ProcessorAhead
           /\ Processor => ProcessorAhead' < ProcessorAhead
           /\ WatcherAhead' <= WatcherAhead
           /\ Watcher => \/ WatcherAhead' < WatcherAhead
                         \/ watcher \in {"watching", "polling"} /\ watcher' = watcher]_vars
  <2> SUFFICES ASSUME TypeInv, RetryInv, [Next]_vars, stop, up'
               PROVE  /\ stop'
                      /\ ProcessorAhead' <= ProcessorAhead
                      /\ Processor => ProcessorAhead' < ProcessorAhead
                      /\ WatcherAhead' <= WatcherAhead
                      /\ Watcher => \/ WatcherAhead' < WatcherAhead
                                    \/ watcher \in {"watching", "polling"} /\ watcher' = watcher
    OBVIOUS
  <2>1. stop'
    BY StopStays
  <2>3. /\ ProcessorAhead \in Int /\ ProcessorAhead' \in Int
        /\ WatcherAhead \in Int /\ WatcherAhead' \in Int
    BY AheadType, AheadTypeNext
  <2>4. ~ Processor => ProcessorAhead' = ProcessorAhead
    BY OthersLeave DEF ProcessorAhead
  <2>5. ~ Watcher => WatcherAhead' = WatcherAhead
    BY OthersLeave DEF WatcherAhead
  <2> QED
    BY <2>1, <2>3, <2>4, <2>5, ProcessorNearer, WatcherNearer
<1>2. Init => RetryInv
  BY DEF Init, RetryInv
<1>3. TypeInv => ProcessorAhead \in 0 .. 6 + 2 * MaxAttempts
  BY AheadType
<1> QED
  BY <1>1, <1>2, <1>3, TypeInit, TypeStep, RetryStep, PTL DEF Spec, LoopsEnd

-----------------------------------------------------------------------------
(* The turn of a queued job. *)

\* The most steps the processor loop takes from one look at the flag to the next:
\* it gets a job and makes every attempt.
Cycle == 6 + 2 * MaxAttempts

\* The place of a job in line: 0 is with the processor, the others are queued.
InLine(i) == IF i = 0 THEN job ELSE queue[i]
Line == { i \in 0 .. Len(queue) : i = 0 => job # NoName }

\* The most steps the processor takes until the job at place i is over.
Turn(i) ==
  Cycle * i + (IF processor = "receiving" THEN 0 - 1 ELSE ProcessorAhead - 1)

\* As long as the loop goes on, whoever is in line stays there until his job is
\* over, with no more steps to wait for than before, and with every step of the
\* processor fewer: failures and retries of those before him are accounted for,
\* and nobody gets in before him (queue.rs, run_processor_loop).
LineMoves ==
  [][up /\ up' /\ processor' # "stopped" =>
       \A i \in Line :
         \/ i = 0 /\ job' = NoName
         \/ \E k \in Line' :
              /\ k \in {i, i - 1}
              /\ InLine(k)' = InLine(i)
              /\ Turn(k)' <= Turn(i)
              /\ Processor => Turn(k)' < Turn(i)]_vars

LineIsFinite ==
  up /\ processor # "stopped" => \A i \in Line : Turn(i) \in 1 .. Cycle * (Capacity + 1)

\* Products with a common factor.
LEMMA Products ==
  ASSUME NEW c \in Nat, NEW i \in Nat, NEW k \in Nat
  PROVE  /\ c * i \in Nat
         /\ i <= k => c * i <= c * k
         /\ c * (i + 1) = c * i + c
OBVIOUS

\* The processor has a job from its space check to its move, and none else.
LEMMA TurnType ==
  ASSUME TypeInv, up, processor # "stopped", NEW i \in Line
  PROVE  Turn(i) \in 1 .. Cycle * (Capacity + 1)
<1> USE DEF TypeInv, TypeOK, ProcessorType, ServiceType
<1>1. /\ attempt \in 0 .. MaxAttempts /\ MaxAttempts \in Nat \ {0}
      /\ Capacity \in Nat /\ i \in 0 .. Capacity /\ Cycle \in Nat /\ Cycle = 6 + 2 * MaxAttempts
  BY DEF Line, Cycle
<1>2. /\ Cycle * i \in Nat
      /\ Cycle * i <= Cycle * Capacity
      /\ 1 <= i => Cycle <= Cycle * i
      /\ Cycle * (Capacity + 1) = Cycle * Capacity + Cycle
      /\ Cycle * Capacity \in Nat
  <2>1. Cycle * 1 = Cycle
    BY <1>1
  <2> QED
    BY <1>1, <2>1, Products
<1>3. CASE processor = "receiving"
  <2>1. 1 <= i
    BY <1>1, <1>3 DEF Line
  <2>2. Turn(i) = Cycle * i - 1
    BY <1>1, <1>2, <1>3 DEF Turn
  <2> QED
    BY <1>1, <1>2, <2>1, <2>2
<1>4. CASE processor # "receiving"
  <2>1. ProcessorAhead \in 1 .. 5 + 2 * MaxAttempts /\ (i = 0 => ProcessorAhead >= 2)
    <3>1. processor = "head" => i # 0
      BY DEF Line
    <3>2. processor = "backoff" => attempt < MaxAttempts
      BY DEF DownInv
    <3>3. /\ ProcessorAhead \in 1 .. 5 + 2 * MaxAttempts
          /\ processor # "head" => ProcessorAhead >= 2
      BY <1>1, <1>4, <3>2, ProcessorPlaces DEF ProcessorAhead
    <3> QED
      BY <3>1, <3>3
  <2>2. Turn(i) = Cycle * i + ProcessorAhead - 1
    BY <1>1, <1>2, <1>4, <2>1 DEF Turn
  <2> QED
    BY <1>1, <1>2, <2>1, <2>2
<1> QED
  BY <1>3, <1>4

\* Who moves the line: the processor when it gets a job, and at the end of it.
LEMMA ProcessorLine ==
  ASSUME TypeInv, Processor, processor' # "stopped", NEW i \in Line
  PROVE  \/ i = 0 /\ job' = NoName
         \/ \E k \in Line' :
              /\ k \in {i, i - 1} /\ InLine(k)' = InLine(i)
              /\ Turn(k)' <= Turn(i) /\ Turn(k)' < Turn(i)
<1> USE DEF TypeInv, TypeOK, ProcessorType, ServiceType
<1>1. /\ MaxAttempts \in Nat \ {0} /\ queue \in Seq(Names) /\ Len(queue) \in Nat
      /\ i \in Nat /\ i <= Len(queue) /\ Cycle \in Nat /\ Cycle = 6 + 2 * MaxAttempts
  BY DEF Line, Cycle
<1>2. Cycle * i \in Nat
  BY <1>1, Products
<1>3. CASE processor = "head"
  <2>1. processor' = "receiving" /\ UNCHANGED <<job, queue>>
    BY <1>3 DEF Processor, CheckFlag, StopProcessor, ReceiveTimeout, Dequeue, NoSpace,
       FirstAttempt, Succeed, Fail, Retry, AbortRetries, Move, MoveFails, atProcessor
  <2>2. i \in Line' /\ InLine(i)' = InLine(i)
    BY <2>1 DEF Line, InLine
  <2>3. Turn(i) = Cycle * i /\ Turn(i)' = Cycle * i - 1
    BY <1>1, <1>2, <1>3, <2>1, ProcessorPlaces DEF Turn, ProcessorAhead
  <2> QED
    BY <1>2, <2>2, <2>3
<1>4. CASE processor = "receiving"
  <2>1. i # 0 /\ queue # <<>>
    BY <1>1, <1>4 DEF Line
  <2>2. processor' = "space" /\ job' = Head(queue) /\ queue' = Tail(queue)
    BY <1>4, <2>1 DEF Processor, CheckFlag, StopProcessor, ReceiveTimeout, Dequeue, NoSpace,
       FirstAttempt, Succeed, Fail, Retry, AbortRetries, Move, MoveFails, atProcessor
  <2>3. PICK k \in Nat : k = i - 1
    BY <1>1, <2>1
  <2>4. /\ Len(queue') = Len(queue) - 1
        /\ job' = queue[1] /\ job' \in Names
        /\ k # 0 => queue'[k] = queue[k + 1]
    BY <1>1, <2>1, <2>2, <2>3
  <2>5. k \in Line' /\ InLine(k)' = InLine(i)
    BY <1>1, <2>1, <2>3, <2>4 DEF Line, InLine
  <2>6. Cycle * i = Cycle * k + Cycle /\ Cycle * k \in Nat
    BY <1>1, <2>3, Products
  <2>7. Turn(i) = Cycle * i - 1
    BY <1>2, <1>4 DEF Turn
  <2>8. Turn(k)' = Cycle * k + 4 + 2 * MaxAttempts
    BY <1>1, <2>2, <2>6, ProcessorPlaces DEF Turn, ProcessorAhead
  <2> QED
    BY <1>1, <2>3, <2>5, <2>6, <2>7, <2>8
<1>5. CASE processor \notin {"head", "receiving"}
  <2>1. /\ queue' = queue /\ job' \in {job, NoName}
        /\ processor' \notin {"receiving", "stopped"}
    BY <1>5 DEF Processor, CheckFlag, StopProcessor, ReceiveTimeout, Dequeue, NoSpace,
       FirstAttempt, Succeed, Fail, Retry, AbortRetries, Move, MoveFails, atProcessor,
       NextJob, Ends
  <2>2. ProcessorAhead' < ProcessorAhead
    BY <1>5, ProcessorNearer
  <2>3. ProcessorAhead \in Int /\ ProcessorAhead' \in Int
    BY AheadType, AheadTypeNext DEF Next
  <2>4. Turn(i)' <= Turn(i) /\ Turn(i)' < Turn(i)
    BY <1>2, <1>5, <2>1, <2>2, <2>3 DEF Turn, Cycle
  <2>5. (i = 0 /\ job' = NoName) \/ (i \in Line' /\ InLine(i)' = InLine(i))
    BY <2>1 DEF Line, InLine
  <2> QED
    BY <2>4, <2>5
<1> QED
  BY <1>3, <1>4, <1>5

\* Nobody else takes from the line; the watcher adds to its end.
LEMMA OthersLine ==
  ASSUME TypeInv, [Next]_vars, ~ Processor, up, up', NEW i \in Line
  PROVE  i \in Line' /\ InLine(i)' = InLine(i) /\ Turn(i)' = Turn(i)
<1>1. /\ UNCHANGED pvars
      /\ queue' = queue \/ (candidate \in Names /\ queue' = Append(queue, candidate))
  <2>1. CASE Users \/ Main \/ UNCHANGED vars
    BY <2>1 DEF Users, Arrive, AddFiles, Remove, Expire, Main, Shutdown, Exit, ForcedExit,
       Crash, Restart, Gone, Ended, pvars, vars
  <2>2. CASE Watcher
    BY <2>2 DEF Watcher, StartWatching, StopWatcher, HandleEvent, Poll, PollFails,
       CheckDuplicate, Stable, WaitFails, Enqueue, pvars, atWatcher, TypeInv, TypeOK,
       WatcherType
  <2> QED
    BY <2>1, <2>2 DEF Next
<1>2. queue \in Seq(Names) /\ i \in 0 .. Len(queue)
  BY DEF TypeInv, TypeOK, ServiceType, Line
<1>3. /\ Len(queue') >= Len(queue) /\ Len(queue') \in Nat
      /\ i # 0 => queue'[i] = queue[i]
  BY <1>1, <1>2
<1>4. i \in Line' /\ InLine(i)' = InLine(i)
  BY <1>1, <1>2, <1>3 DEF Line, InLine, pvars
<1>5. Turn(i)' = Turn(i)
  BY <1>1 DEF Turn, ProcessorAhead, pvars
<1> QED
  BY <1>4, <1>5

\* A processor loop that has ended does not go on.
LEMMA StoppedStays ==
  ASSUME TypeInv, [Next]_vars, up, up', processor = "stopped"
  PROVE  processor' = "stopped"
<1>1. ~ Processor
  BY DEF Processor, CheckFlag, StopProcessor, ReceiveTimeout, Dequeue, NoSpace,
     FirstAttempt, Succeed, Fail, Retry, AbortRetries, Move, MoveFails, atProcessor
<1>2. UNCHANGED processor
  BY <1>1 DEF Next, Users, Arrive, AddFiles, Remove, Expire, Main, Shutdown, Exit, ForcedExit,
     Crash, Restart, Gone, Ended, pvars, vars, Watcher, StartWatching, StopWatcher,
     HandleEvent, Poll, PollFails, CheckDuplicate, Stable, WaitFails, Enqueue
<1> QED
  BY <1>2

\* Every job that is queued is over after at most Cycle * (Capacity + 1) steps of
\* the processor, and each of them is one less to wait for, as long as the process
\* is there and its processor loop goes on.
THEOREM EveryJobHasItsTurn == Spec => LineMoves /\ []LineIsFinite
<1>1. TypeInv /\ [Next]_vars =>
        [up /\ up' /\ processor' # "stopped" =>
           \A i \in Line :
             \/ i = 0 /\ job' = NoName
             \/ \E k \in Line' :
                  /\ k \in {i, i - 1}
                  /\ InLine(k)' = InLine(i)
                  /\ Turn(k)' <= Turn(i)
                  /\ Processor => Turn(k)' < Turn(i)]_vars
  <2> SUFFICES ASSUME TypeInv, [Next]_vars, up, up', processor' # "stopped", NEW i \in Line
               PROVE  \/ i = 0 /\ job' = NoName
                      \/ \E k \in Line' :
                           /\ k \in {i, i - 1}
                           /\ InLine(k)' = InLine(i)
                           /\ Turn(k)' <= Turn(i)
                           /\ Processor => Turn(k)' < Turn(i)
    OBVIOUS
  <2>1. processor # "stopped" => Turn(i) \in Int
    BY TurnType
  <2>2. processor # "stopped"
    BY StoppedStays
  <2>3. CASE Processor
    BY <2>3, ProcessorLine
  <2>4. CASE ~ Processor
    BY <2>1, <2>2, <2>4, OthersLine
  <2> QED
    BY <2>3, <2>4
<1>2. TypeInv => LineIsFinite
  BY TurnType DEF LineIsFinite
<1> QED
  BY <1>1, <1>2, TypeInit, TypeStep, PTL DEF Spec, LineMoves

-----------------------------------------------------------------------------
(* The loops, as the shutdown sees them. *)

WatcherLoop ==
  IF ~ up THEN "off" ELSE IF watcher = "stopped" THEN "done" ELSE "running"

\* A job without an attempt, for which there was no space, is none.
ProcessorLoop ==
  IF ~ up THEN "off"
  ELSE IF processor = "stopped" THEN "done"
  ELSE IF processor = "head" THEN "idle"
  ELSE IF processor \in {"receiving", "space"} THEN "receiving"
  ELSE IF processor = "moving" /\ attempt = 0 THEN "receiving"
  ELSE "job"

Service == INSTANCE ServiceLoops WITH
  flag <- stop, watcher <- WatcherLoop, processor <- ProcessorLoop

\* A job that runs is at one of its attempts.
AttemptInv == processor \in {"running", "backoff"} => attempt # 0

\* The first attempt is number 1, and the others count up.
LEMMA AttemptStep == TypeInv /\ AttemptInv /\ [Next]_vars => AttemptInv'
<1> SUFFICES ASSUME TypeInv, AttemptInv, [Next]_vars PROVE AttemptInv'
  OBVIOUS
<1> USE DEF AttemptInv, TypeInv, TypeOK, ProcessorType
<1>1. CASE Processor
  BY <1>1 DEF Processor, CheckFlag, StopProcessor, ReceiveTimeout, Dequeue, NoSpace,
     FirstAttempt, Succeed, Fail, Retry, AbortRetries, Move, MoveFails, NextJob, Ends,
     atProcessor
<1>2. CASE UNCHANGED <<processor, attempt>> \/ processor' \in {"head", "stopped"}
  BY <1>2
<1> QED
  BY <1>1, <1>2 DEF Next, vars, pvars, Users, Arrive, AddFiles, Remove, Expire, Watcher,
     StartWatching, StopWatcher, HandleEvent, Poll, PollFails, CheckDuplicate, Stable,
     WaitFails, Enqueue, Main, Shutdown, Exit, ForcedExit, Crash, Restart, Gone, Ended, Started

\* The watcher's own steps are none to the shutdown, until it stops.
LEMMA ServiceWatcher ==
  ASSUME TypeInv, Watcher
  PROVE  [Service!Next]_(Service!svars)
<1> USE DEF atWatcher, WatchAgain, Detected, WatcherStops, WatcherLoop, Service!svars,
        Service!Next
<1>1. UNCHANGED <<up, stop, ProcessorLoop>>
  BY DEF Watcher, StartWatching, StopWatcher, HandleEvent, Poll, PollFails, CheckDuplicate,
     Stable, WaitFails, Enqueue, pvars, ProcessorLoop
<1>2. CASE StopWatcher
  BY <1>1, <1>2 DEF StopWatcher, Service!StopWatcher
<1>3. CASE ~ StopWatcher
  <2>1. up /\ watcher # "stopped" /\ watcher' # "stopped"
    BY <1>3 DEF Watcher, StartWatching, HandleEvent, Poll, PollFails, CheckDuplicate,
       Stable, WaitFails, Enqueue
  <2> QED
    BY <1>1, <2>1
<1> QED
  BY <1>2, <1>3

\* The processor's are what there is between its looks at the flag.
LEMMA ServiceProcessor ==
  ASSUME TypeInv, RetryInv, AttemptInv, Processor
  PROVE  [Service!Next]_(Service!svars)
<1> USE DEF atProcessor, NextJob, Ends, Service!svars, Service!Next
<1>1. UNCHANGED <<stop, WatcherLoop>> /\ up /\ up'
  BY DEF Processor, CheckFlag, StopProcessor, ReceiveTimeout, Dequeue, NoSpace, FirstAttempt,
     Succeed, Fail, Retry, AbortRetries, Move, MoveFails, wvars, WatcherLoop
<1>2. CASE CheckFlag
  BY <1>1, <1>2 DEF CheckFlag, ProcessorLoop, Service!CheckFlag
<1>3. CASE StopProcessor
  BY <1>1, <1>3 DEF StopProcessor, ProcessorLoop, Service!StopProcessor
<1>4. CASE ReceiveTimeout
  BY <1>1, <1>4 DEF ReceiveTimeout, ProcessorLoop, Service!NoJob
<1>5. CASE Dequeue \/ NoSpace
  BY <1>1, <1>5 DEF Dequeue, NoSpace, ProcessorLoop, RetryInv
<1>6. CASE FirstAttempt
  BY <1>1, <1>6 DEF FirstAttempt, ProcessorLoop, Service!StartJob
<1>7. CASE Succeed \/ Fail \/ Retry \/ AbortRetries
  <2>1. /\ processor \in {"running", "backoff"} /\ attempt # 0
        /\ processor' \in {"running", "backoff", "moving"} /\ attempt' # 0
    BY <1>7 DEF Succeed, Fail, Retry, AbortRetries, AttemptInv, TypeInv, TypeOK, ProcessorType
  <2>2. ProcessorLoop = "job" /\ ProcessorLoop' = "job"
    BY <1>1, <2>1 DEF ProcessorLoop
  <2> QED
    BY <1>1, <2>2
<1>8. CASE Move \/ MoveFails
  <2>1. processor = "moving" /\ processor' = "head"
    BY <1>8 DEF Move, MoveFails
  <2>2. ProcessorLoop \in {"receiving", "job"} /\ ProcessorLoop' = "idle"
    BY <1>1, <2>1 DEF ProcessorLoop
  <2> QED
    BY <1>1, <2>2 DEF Service!NoJob, Service!EndJob
<1> QED
  BY <1>2, <1>3, <1>4, <1>5, <1>6, <1>7, <1>8 DEF Processor

\* Signals, the ends of the process and its starts are what they are.
LEMMA ServiceMain ==
  ASSUME TypeInv, Main
  PROVE  [Service!Next]_(Service!svars)
<1> USE DEF WatcherLoop, ProcessorLoop, Service!svars, Service!Next
<1>1. CASE Shutdown
  <2>1. UNCHANGED <<WatcherLoop, ProcessorLoop>>
    BY <1>1 DEF Shutdown, wvars, pvars
  <2> QED
    BY <1>1, <2>1 DEF Shutdown, Service!Request
<1>2. CASE Exit \/ ForcedExit \/ Crash
  BY <1>2 DEF Exit, ForcedExit, Crash, Ended, Service!End, Service!Off
<1>3. CASE Restart
  <2>1. stop' = stop
    BY <1>3 DEF Restart, Started, TypeInv, TypeOK, ServiceType, DownInv
  <2>2. ~ up /\ up' /\ watcher' = "head" /\ processor' = "head"
    BY <1>3 DEF Restart, Started
  <2> QED
    BY <2>1, <2>2 DEF Service!Start, Service!Off, Service!Running
<1>4. CASE Gone
  BY <1>4 DEF Gone, vars, wvars, pvars
<1> QED
  BY <1>1, <1>2, <1>3, <1>4 DEF Main

\* Every step of the watch mode is a step of the service, or none.
LEMMA ServiceStep ==
  TypeInv /\ RetryInv /\ AttemptInv /\ [Next]_vars => [Service!Next]_(Service!svars)
<1> SUFFICES ASSUME TypeInv, RetryInv, AttemptInv, [Next]_vars
             PROVE  [Service!Next]_(Service!svars)
  OBVIOUS
<1>1. CASE Users \/ UNCHANGED vars
  <2>1. UNCHANGED <<up, stop, watcher, processor, attempt>>
    BY <1>1 DEF Users, Arrive, AddFiles, Remove, Expire, wvars, pvars, vars
  <2> QED
    BY <2>1 DEF Service!svars, WatcherLoop, ProcessorLoop
<1> QED
  BY <1>1, ServiceWatcher, ServiceProcessor, ServiceMain DEF Next

\* The watch mode, with detection, the queue, retries, moves, crashes and restarts,
\* is an implementation of ServiceLoops; ShutdownCoordinatorProofs has the same of
\* the graceful shutdown (main.rs).
THEOREM WatchServes == Spec => Service!Spec
<1>1. Init => RetryInv /\ AttemptInv /\ Service!Init
  BY DEF Init, RetryInv, AttemptInv, Service!Init, Service!Running, Service!Off, WatcherLoop,
     ProcessorLoop
<1> QED
  BY <1>1, TypeInit, TypeStep, RetryStep, AttemptStep, ServiceStep, PTL
  DEF Spec, Service!Spec

=============================================================================
