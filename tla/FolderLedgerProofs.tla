------------------------- MODULE FolderLedgerProofs -------------------------
(***************************************************************************)
(* The watch mode implements FolderLedger, for any number of folders, any  *)
(* capacity and any faults, crashes and restarts, as long as users delete  *)
(* no folder; and what the ledger keeps, the watch mode therefore keeps:   *)
(* no version of a folder is in two places.                                *)
(***************************************************************************)
EXTENDS WatchServiceProofs

\* What is in hand are folders, and none of them is no folder.
LEMMA HandFacts ==
  ASSUME TypeInv
  PROVE  /\ Hand \subseteq Names
         /\ \A n \in Names : n \in Hand <=> n \in Held \/ n = candidate
BY NamesAssumption DEF Hand, Held, Queued, TypeInv, TypeOK, WatcherType, ProcessorType

\* A step that leaves the disk alone and brings nothing into hand puts back.
LEMMA PuttingBack ==
  ASSUME UNCHANGED disk, Hand' \subseteq Hand
  PROVE  Ledger!Next
BY DEF disk, Ledger!Next, Ledger!PutBack

\* Finding a folder is taking it.
LEMMA Taking ==
  ASSUME TypeInv, HandInv, HandleEvent \/ Poll
  PROVE  Ledger!Next
<1> USE DEF TypeInv, TypeOK
<1>1. UNCHANGED <<disk, queue, job>> /\ candidate \notin Names
  BY DEF HandleEvent, Poll, atWatcher, pvars, WatcherType
<1>2. Held' = Held
  BY <1>1 DEF Held, Queued
<1>3. CASE candidate' = candidate
  <2>1. Hand' = Hand
    BY <1>1, <1>3 DEF Hand, Queued
  <2> QED
    BY <1>1, <2>1, PuttingBack
<1>4. CASE candidate' # candidate
  <2>1. candidate' \in Present /\ candidate' \notin Held
    <3>1. CASE HandleEvent
      <4>1. Head(events) \in Items(events) /\ candidate' = Head(events)
        BY <1>4, <3>1, TailFacts DEF HandleEvent, Detected, WatcherType
      <4> QED
        BY <1>4, <3>1, <4>1 DEF HandleEvent, HandInv
    <3>2. CASE Poll
      <4>1. candidate' \in Present \ known
        BY <1>4, <3>2 DEF Poll, Detected
      <4>2. Held \subseteq known \union {NoName}
        BY <3>2 DEF Poll, atWatcher, HandInv
      <4> QED
        BY <4>1, <4>2, NamesAssumption DEF Present
    <3> QED
      BY <3>1, <3>2
  <2>2. candidate' \in Names /\ input[candidate'] # 0
    BY <2>1 DEF Present
  <2>3. candidate' \notin Hand /\ Hand' = Hand \union {candidate'}
    <3>1. candidate = NoName
      BY <1>1 DEF WatcherType
    <3>2. Queued' = Queued /\ job' = job
      BY <1>1 DEF Queued
    <3> QED
      BY <2>1, <2>2, <3>1, <3>2, NamesAssumption DEF Hand, Held
  <2>4. Ledger!Take(candidate')
    BY <1>1, <2>2, <2>3 DEF Ledger!Take, disk
  <2> QED
    BY <2>2, <2>4 DEF Ledger!Next
<1> QED
  BY <1>3, <1>4

\* Moving the folder of a job is filing it: its name is free, since the duplicate
\* check still holds, and it is in hand nowhere else.
LEMMA Filing ==
  ASSUME TypeInv, HandInv, CheckInv, Move
  PROVE  Ledger!Next
<1> USE DEF TypeInv, TypeOK
<1>1. job \in Names /\ input[job] # 0 /\ job \in Held
  BY DEF Move, Present, Held
<1>2. ~ IsDuplicate(job)
  BY <1>1 DEF CheckInv
<1>3. Hand' = Hand \ {job} /\ job \in Hand
  <2>1. Queued' = Queued /\ candidate' = candidate /\ job' = NoName
    BY DEF Move, NextJob, Queued, wvars
  <2>2. job \notin Queued /\ candidate # job
    BY <1>1 DEF HandInv
  <2> QED
    BY <1>1, <2>1, <2>2, NamesAssumption DEF Hand
<1>4. \/ processed' = [processed EXCEPT ![job] = input[job]] /\ failed' = failed
      \/ failed' = [failed EXCEPT ![job] = input[job]] /\ processed' = processed
  BY <1>2 DEF Move, MovedTo, IsDuplicate
<1>5. input' = [input EXCEPT ![job] = 0] /\ versions' = versions
  BY DEF Move
<1>6. Ledger!File(job)
  BY <1>1, <1>2, <1>3, <1>4, <1>5 DEF Ledger!File, Ledger!IsFiled, IsDuplicate
<1> QED
  BY <1>1, <1>6 DEF Ledger!Next

\* Users upload, and the retention scheduler expires.
LEMMA Uploading ==
  ASSUME FoldersStay, TypeInv, Users
  PROVE  Ledger!Next
<1>1. PICK n \in Names : Arrive(n) \/ AddFiles(n) \/ Expire(n)
  BY DEF Users, Remove, FoldersStay
<1>2. Hand' = Hand
  <2>1. UNCHANGED <<queue, candidate, job>>
    BY <1>1 DEF Arrive, AddFiles, Expire, wvars, pvars
  <2> QED
    BY <2>1 DEF Hand, Queued
<1>3. CASE Arrive(n) \/ AddFiles(n)
  <2>1. Ledger!Upload(n)
    BY <1>2, <1>3 DEF Arrive, AddFiles, Ledger!Upload
  <2> QED
    BY <2>1 DEF Ledger!Next
<1>4. CASE Expire(n)
  <2>1. Ledger!Expire(n)
    BY <1>2, <1>4 DEF Expire, Ledger!Expire
  <2> QED
    BY <2>1 DEF Ledger!Next
<1> QED
  BY <1>1, <1>3, <1>4

\* Everything else the watcher does passes its candidate on or gives it up.
LEMMA WatchingOn ==
  ASSUME TypeInv, Watcher, ~ HandleEvent, ~ Poll
  PROVE  Ledger!Next
<1> USE DEF TypeInv, TypeOK
<1>1. UNCHANGED <<disk, job>> /\ candidate' \in {candidate, NoName}
  BY DEF Watcher, StartWatching, StopWatcher, PollFails, CheckDuplicate, Stable, WaitFails,
     Enqueue, WatchAgain, WatcherStops, pvars
<1>2. Queued' \subseteq Queued \union {candidate}
  <2>1. CASE queue' = queue
    BY <2>1 DEF Queued
  <2>2. CASE Enqueue /\ queue' = Append(queue, candidate)
    <3>1. queue \in Seq(Names) /\ candidate \in Names
      BY <2>2 DEF Enqueue, atWatcher, WatcherType, ServiceType
    <3> QED
      BY <2>2, <3>1, AppendFacts DEF Queued, Items
  <2> QED
    BY <2>1, <2>2 DEF Watcher, StartWatching, StopWatcher, PollFails, CheckDuplicate, Stable,
       WaitFails, Enqueue
<1>3. Hand' \subseteq Hand
  BY <1>1, <1>2 DEF Hand
<1> QED
  BY <1>1, <1>3, PuttingBack

\* Everything the processor does but moving passes its job on or gives it up.
LEMMA ProcessingOn ==
  ASSUME TypeInv, Processor, ~ Move
  PROVE  Ledger!Next
<1> USE DEF TypeInv, TypeOK
<1>1. UNCHANGED disk /\ candidate' = candidate
  BY DEF Processor, CheckFlag, StopProcessor, ReceiveTimeout, Dequeue, NoSpace, FirstAttempt,
     Succeed, Fail, Retry, AbortRetries, MoveFails, wvars
<1>2. Hand' \subseteq Hand
  <2>1. CASE Dequeue
    <3>1. /\ queue \in Seq(Names) /\ queue # <<>>
          /\ queue' = Tail(queue) /\ job' = Head(queue)
      BY <2>1 DEF Dequeue, ServiceType
    <3> QED
      BY <1>1, <3>1, TailFacts DEF Hand, Queued, Items
  <2>2. CASE queue' \in {queue, <<>>} /\ job' \in {job, NoName}
    BY <1>1, <2>2, EmptyFacts DEF Hand, Queued
  <2> QED
    BY <2>1, <2>2 DEF Processor, CheckFlag, StopProcessor, ReceiveTimeout, NoSpace,
       FirstAttempt, Succeed, Fail, Retry, AbortRetries, MoveFails, NextJob
<1> QED
  BY <1>1, <1>2, PuttingBack

\* A process that ends puts back all it has in hand.
LEMMA Ending ==
  ASSUME TypeInv, Main
  PROVE  Ledger!Next
<1>1. UNCHANGED disk
  BY DEF Main, Shutdown, Exit, ForcedExit, Crash, Restart, Gone, Ended, vars
<1>2. Hand' \subseteq Hand
  <2>1. CASE Ended
    BY <2>1 DEF Ended, Hand, Queued
  <2>2. CASE UNCHANGED <<queue, candidate, job>>
    BY <2>2 DEF Hand, Queued
  <2> QED
    BY <2>1, <2>2 DEF Main, Shutdown, Exit, ForcedExit, Crash, Restart, Gone, vars, wvars, pvars
<1> QED
  BY <1>1, <1>2, PuttingBack

\* Every step of the watch mode is a step of the ledger, or none.
LEMMA LedgerStep ==
  FoldersStay /\ TypeInv /\ HandInv /\ CheckInv /\ [Next]_vars => [Ledger!Next]_(Ledger!lvars)
<1> SUFFICES ASSUME FoldersStay, TypeInv, HandInv, CheckInv, [Next]_vars
             PROVE  [Ledger!Next]_(Ledger!lvars)
  OBVIOUS
<1>1. CASE UNCHANGED vars
  BY <1>1 DEF vars, disk, wvars, pvars, Ledger!lvars, Hand, Queued
<1>2. CASE Next
  BY <1>2, Taking, Filing, Uploading, WatchingOn, ProcessingOn, Ending DEF Next
<1> QED
  BY <1>1, <1>2

\* Nothing is in hand at the start.
LEMMA LedgerInit == Init => Ledger!Init
BY DEF Init, Ledger!Init, Hand, Queued

\* As long as users delete no folder, all that the loops, the queue, failures,
\* crashes and restarts do to the folders is what the ledger says: a folder is
\* taken once at a time, and put back as it is or filed in one step under its
\* own name (main.rs, queue.rs, dedup.rs, cleanup.rs).
THEOREM WatchKeepsLedger == FoldersStay => (Spec => KeepsLedger)
<1> SUFFICES ASSUME FoldersStay PROVE Spec => KeepsLedger
  OBVIOUS
<1> QED
  BY TypeInit, TypeStep, HandInit, HandStep, CheckInit, CheckStep, LedgerInit, LedgerStep, PTL
  DEF Spec, KeepsLedger, Ledger!Spec

-----------------------------------------------------------------------------
(* What the ledger keeps. *)

\* What is filed under a name is older than what lies under it in the input
\* directory, and is filed in one place.
PlaceInv ==
  \A n \in Names :
    /\ input[n] <= versions[n] /\ processed[n] <= versions[n] /\ failed[n] <= versions[n]
    /\ processed[n] = 0 \/ failed[n] = 0
    /\ input[n] # 0 => processed[n] < input[n] /\ failed[n] < input[n]

\* A new version is younger than all that is filed, and filing needs a free name.
LEMMA PlaceStep == TypeInv /\ PlaceInv /\ [Ledger!Next]_(Ledger!lvars) => PlaceInv'
<1> SUFFICES ASSUME TypeInv, PlaceInv, [Ledger!Next]_(Ledger!lvars) PROVE PlaceInv'
  OBVIOUS
<1> USE DEF TypeInv, TypeOK, DiskType, Versions, PlaceInv
<1>1. CASE Ledger!PutBack \/ UNCHANGED Ledger!lvars
  BY <1>1 DEF Ledger!PutBack, Ledger!lvars
<1>2. ASSUME NEW n \in Names, Ledger!Upload(n) PROVE PlaceInv'
  BY <1>2 DEF Ledger!Upload
<1>3. ASSUME NEW n \in Names, Ledger!Take(n) PROVE PlaceInv'
  BY <1>3 DEF Ledger!Take
<1>4. ASSUME NEW n \in Names, Ledger!File(n) PROVE PlaceInv'
  <2>1. CASE processed' = [processed EXCEPT ![n] = input[n]] /\ failed' = failed
    BY <1>4, <2>1 DEF Ledger!File, Ledger!IsFiled
  <2>2. CASE failed' = [failed EXCEPT ![n] = input[n]] /\ processed' = processed
    BY <1>4, <2>2 DEF Ledger!File, Ledger!IsFiled
  <2> QED
    BY <1>4, <2>1, <2>2 DEF Ledger!File
<1>5. ASSUME NEW n \in Names, Ledger!Expire(n) PROVE PlaceInv'
  <2>1. CASE processed' = [processed EXCEPT ![n] = 0] /\ failed' = failed
    BY <1>5, <2>1 DEF Ledger!Expire
  <2>2. CASE failed' = [failed EXCEPT ![n] = 0] /\ processed' = processed
    BY <1>5, <2>2 DEF Ledger!Expire
  <2> QED
    BY <1>5, <2>1, <2>2 DEF Ledger!Expire
<1> QED
  BY <1>1, <1>2, <1>3, <1>4, <1>5 DEF Ledger!Next

\* As long as users delete no folder, no version of a folder is in two of the
\* directories input, processed/ and error/ (cleanup.rs).
THEOREM NoVersionTwice == FoldersStay => (Spec => []OnePlace)
<1> SUFFICES ASSUME FoldersStay PROVE Spec => []OnePlace
  OBVIOUS
<1>1. Init => PlaceInv
  <2> SUFFICES ASSUME Init PROVE PlaceInv
    OBVIOUS
  <2>1. \A n \in Names : input[n] = 0 /\ versions[n] = 0 /\ processed[n] = 0 /\ failed[n] = 0
    BY DEF Init
  <2> SUFFICES ASSUME NEW n \in Names
               PROVE  /\ input[n] <= versions[n] /\ processed[n] <= versions[n]
                      /\ failed[n] <= versions[n]
                      /\ processed[n] = 0 \/ failed[n] = 0
                      /\ input[n] = 0
    BY DEF PlaceInv
  <2> QED
    BY <2>1
<1>2. TypeInv /\ PlaceInv => OnePlace
  <2> SUFFICES ASSUME TypeInv, PlaceInv, NEW n \in Names
               PROVE  /\ processed[n] = 0 \/ failed[n] = 0
                      /\ input[n] # 0 => input[n] \notin {processed[n], failed[n]}
    BY DEF OnePlace, Ledger!OnePlace
  <2>1. input[n] \in Nat /\ processed[n] \in Nat /\ failed[n] \in Nat
    BY DEF TypeInv, TypeOK, DiskType, Versions
  <2> QED
    BY <2>1 DEF PlaceInv
<1> QED
  BY <1>1, <1>2, TypeInit, TypeStep, HandInit, HandStep, CheckInit, CheckStep, LedgerStep,
     PlaceStep, PTL
  DEF Spec

-----------------------------------------------------------------------------
(* Nothing is lost. *)

\* A folder leaves the input directory only by being filed, as it is and under
\* its own name where nothing was; and what is filed stays as it is until it
\* expires (cleanup.rs, retention.rs).
NothingIsLost ==
  [][\A n \in Names :
       /\ input[n] # 0 /\ input'[n] = 0 =>
            \/ processed[n] = 0 /\ processed'[n] = input[n]
            \/ failed[n] = 0 /\ failed'[n] = input[n]
       /\ processed[n] # 0 => processed'[n] \in {processed[n], 0}
       /\ failed[n] # 0 => failed'[n] \in {failed[n], 0}]_vars

\* Filing is the only way out of the input directory, and it overwrites nothing.
LEMMA LedgerLosesNothing ==
  ASSUME TypeInv, [Ledger!Next]_(Ledger!lvars), NEW n \in Names
  PROVE  /\ input[n] # 0 /\ input'[n] = 0 =>
              \/ processed[n] = 0 /\ processed'[n] = input[n]
              \/ failed[n] = 0 /\ failed'[n] = input[n]
         /\ processed[n] # 0 => processed'[n] \in {processed[n], 0}
         /\ failed[n] # 0 => failed'[n] \in {failed[n], 0}
<1> USE DEF TypeInv, TypeOK, DiskType, Versions
<1>1. CASE Ledger!PutBack \/ UNCHANGED Ledger!lvars
  BY <1>1 DEF Ledger!PutBack, Ledger!lvars
<1>2. CASE \E k \in Names : Ledger!Upload(k) \/ Ledger!Take(k)
  BY <1>2 DEF Ledger!Upload, Ledger!Take
<1>3. ASSUME NEW k \in Names, Ledger!File(k)
      PROVE  /\ input[n] # 0 /\ input'[n] = 0 =>
                  \/ processed[n] = 0 /\ processed'[n] = input[n]
                  \/ failed[n] = 0 /\ failed'[n] = input[n]
             /\ processed[n] # 0 => processed'[n] \in {processed[n], 0}
             /\ failed[n] # 0 => failed'[n] \in {failed[n], 0}
  <2>1. /\ n # k => input'[n] = input[n]
        /\ processed[k] = 0 /\ failed[k] = 0
    BY <1>3 DEF Ledger!File, Ledger!IsFiled
  <2>2. CASE processed' = [processed EXCEPT ![k] = input[k]] /\ failed' = failed
    BY <2>1, <2>2
  <2>3. CASE failed' = [failed EXCEPT ![k] = input[k]] /\ processed' = processed
    BY <2>1, <2>3
  <2> QED
    BY <1>3, <2>2, <2>3 DEF Ledger!File
<1>4. ASSUME NEW k \in Names, Ledger!Expire(k)
      PROVE  /\ input'[n] = input[n]
             /\ processed'[n] \in {processed[n], 0}
             /\ failed'[n] \in {failed[n], 0}
  <2>1. CASE processed' = [processed EXCEPT ![k] = 0] /\ failed' = failed
    BY <1>4, <2>1 DEF Ledger!Expire
  <2>2. CASE failed' = [failed EXCEPT ![k] = 0] /\ processed' = processed
    BY <1>4, <2>2 DEF Ledger!Expire
  <2> QED
    BY <1>4, <2>1, <2>2 DEF Ledger!Expire
<1> QED
  BY <1>1, <1>2, <1>3, <1>4 DEF Ledger!Next

\* As long as users delete no folder, no failure, crash, restart, duplicate or
\* full queue makes a folder vanish: it is in the input directory until it is
\* filed, and then where it was filed until it expires (main.rs, cleanup.rs).
THEOREM NoFolderIsLost == FoldersStay => (Spec => NothingIsLost)
<1> SUFFICES ASSUME FoldersStay PROVE Spec => NothingIsLost
  OBVIOUS
<1>1. TypeInv /\ HandInv /\ CheckInv /\ [Next]_vars =>
        [\A n \in Names :
           /\ input[n] # 0 /\ input'[n] = 0 =>
                \/ processed[n] = 0 /\ processed'[n] = input[n]
                \/ failed[n] = 0 /\ failed'[n] = input[n]
           /\ processed[n] # 0 => processed'[n] \in {processed[n], 0}
           /\ failed[n] # 0 => failed'[n] \in {failed[n], 0}]_vars
  BY LedgerStep, LedgerLosesNothing
<1> QED
  BY <1>1, TypeInit, TypeStep, HandInit, HandStep, CheckInit, CheckStep, PTL
  DEF Spec, NothingIsLost

\* As long as users delete no folder, the timestamp that cleanup.rs appends to
\* the name of a folder whose place is taken is never needed.
THEOREM NeverSetAside == FoldersStay => (Spec => [](aside = {}))
<1> SUFFICES ASSUME FoldersStay PROVE Spec => [](aside = {})
  OBVIOUS
<1>1. Init => aside = {}
  BY DEF Init
<1>2. TypeInv /\ CheckInv /\ [Next]_vars => aside' = aside
  <2> SUFFICES ASSUME TypeInv, CheckInv, [Next]_vars PROVE aside' = aside
    OBVIOUS
  <2>1. CASE Move
    <3>1. job \in Names /\ ~ IsDuplicate(job)
      BY <2>1 DEF Move, Present, CheckInv, Held
    <3> QED
      BY <2>1, <3>1 DEF Move, MovedTo, IsDuplicate
  <2>2. CASE ~ Move
    BY <2>2 DEF Next, vars, disk, Users, Arrive, AddFiles, Remove, Expire, Watcher,
       StartWatching, StopWatcher, HandleEvent, Poll, PollFails, CheckDuplicate, Stable,
       WaitFails, Enqueue, Processor, CheckFlag, StopProcessor, ReceiveTimeout, Dequeue,
       NoSpace, FirstAttempt, Succeed, Fail, Retry, AbortRetries, MoveFails, Main, Shutdown,
       Exit, ForcedExit, Crash, Restart, Gone, Ended
  <2> QED
    BY <2>1, <2>2
<1>3. TypeInv /\ CheckInv /\ aside = {} /\ [Next]_vars => (aside = {})'
  BY <1>2
<1> QED
  BY <1>1, <1>3, TypeInit, TypeStep, HandInit, HandStep, CheckInit, CheckStep, PTL DEF Spec

=============================================================================
