--------------------------- MODULE ArchiveCleanup ---------------------------
(***************************************************************************)
(* What becomes of the folders that are done: the processor moves them     *)
(* from the input directory to processed/ or error/ (processor/cleanup.rs),*)
(* the retention scheduler deletes the old ones at midnight (cleanup/), and*)
(* a caller of storage/space.rs deletes the oldest ones when the disk is   *)
(* full.  The program itself only checks the space; the cleanup for space  *)
(* is a public operation that is modelled as the processor's, the place    *)
(* its documentation gives it.                                             *)
(*                                                                         *)
(* Time passes in ticks, which are also the resolution of the timestamps   *)
(* in names.  A sweep is assumed to be over within a tick.                 *)
(***************************************************************************)
EXTENDS Naturals, FiniteSets

CONSTANTS
  Uploads,    \* the folders users upload
  NameOf,     \* their names
  None,       \* no timestamp, no path
  Day,        \* ticks in a day
  Retention,  \* ticks that a folder is kept
  Total,      \* size of the disk, in folders
  Others,     \* what other files occupy of it
  MaxTime     \* bound on the time

ASSUME TimesAssumption == Day \in Nat \ {0} /\ Retention \in Nat /\ MaxTime \in Nat
ASSUME SizesAssumption == Total \in Nat /\ Others \in Nat
ASSUME NamesAssumption == DOMAIN NameOf = Uploads /\ None \notin Nat

VARIABLES
  now,
  up,         \* the process runs
  where,      \* where[u]: the directory of u, "nowhere" before its upload or "gone"
  stamp,      \* stamp[u]: timestamp in the name of u
  mtime,      \* mtime[u]: time of its last modification
  since,      \* since[u]: when it was moved there
  wake,       \* when the scheduler ends its sleep
  sweep,      \* "asleep", or the directory it cleans
  cutoff,     \* of this sweep
  todo,       \* paths read_dir has not yet yielded
  victim,     \* the path that is about to be deleted, or None
  mover,      \* what the processor does: "idle", "moving" or "freeing"
  target,     \* the upload and the path it is moved to
  snapshot,   \* paths and times that cleanup_for_space has collected
  swept,      \* when the last sweep was complete
  trouble     \* a failure or a restart since the last midnight

clock     == <<now, up>>
folders   == <<where, stamp, mtime, since>>
scheduler == <<wake, sweep, cutoff, todo, victim, swept, trouble>>
processor == <<mover, target, snapshot>>
vars == <<clock, folders, scheduler, processor>>

Archive == {"processed", "error"}
Times == 0 .. MaxTime
Names == { NameOf[u] : u \in Uploads }
Paths == Archive \X Names \X (Times \union {None})

ASSUME NoneAssumption == None \notin Paths \union (Uploads \X Paths)

In(d) == { u \in Uploads : where[u] = d }
Archived == { u \in Uploads : where[u] \in Archive }
PathOf(u) == <<where[u], NameOf[u], stamp[u]>>
At(p) == { u \in Archived : PathOf(u) = p }

\* DiskSpaceStatus.
Used == Others + Cardinality({ u \in Uploads : where[u] \notin {"nowhere", "gone"} })
Available == IF Used <= Total THEN Total - Used ELSE 0
IsAtCriticalThreshold == 10 * Available <= Total
TargetReached == 5 * Available >= Total

TypeOK ==
  /\ now \in Times /\ up \in BOOLEAN
  /\ where \in [Uploads -> Archive \union {"nowhere", "input", "gone"}]
  /\ stamp \in [Uploads -> Times \union {None}]
  /\ mtime \in [Uploads -> Times] /\ since \in [Uploads -> Times]
  /\ wake \in Nat /\ (up /\ sweep = "asleep" => wake >= now)
  /\ sweep \in Archive \union {"asleep"}
  /\ cutoff \in Nat
  /\ todo \subseteq Paths /\ victim \in todo \union {None}
  /\ mover \in {"idle", "moving", "freeing"}
  /\ target \in (Uploads \X Paths) \union {None} /\ (mover = "moving" => target # None)
  /\ snapshot \subseteq Paths \X Times
  /\ swept \in Times /\ trouble \in BOOLEAN

\* Variant of NextMidnight: a day after t.
NextMidnightLater(t) == t + Day

\* Variant of NextMidnight: the midnight of the same day.
NextMidnightPast(t) == Day * (t \div Day)

\* run: the next midnight after t.
NextMidnight(t) == Day * ((t \div Day) + 1)

Init ==
  /\ now = 0 /\ up = TRUE
  /\ where = [u \in Uploads |-> "nowhere"] /\ stamp = [u \in Uploads |-> None]
  /\ mtime = [u \in Uploads |-> 0] /\ since = [u \in Uploads |-> 0]
  /\ wake = NextMidnight(0) /\ sweep = "asleep" /\ cutoff = 0 /\ todo = {} /\ victim = None
  /\ mover = "idle" /\ target = None /\ snapshot = {}
  /\ swept = 0 /\ trouble = TRUE

-----------------------------------------------------------------------------
(* Environment. *)

\* Time passes, but not while the scheduler is due or at work.
Tick ==
  /\ now < MaxTime
  /\ up => sweep = "asleep" /\ wake > now
  /\ now' = now + 1
  /\ UNCHANGED <<up, folders, scheduler, processor>>

\* A user uploads a folder of a name that the input directory does not have.
Upload(u) ==
  /\ where[u] = "nowhere"
  /\ Available > 0
  /\ \A v \in In("input") : NameOf[v] # NameOf[u]
  /\ where' = [where EXCEPT ![u] = "input"]
  /\ mtime' = [mtime EXCEPT ![u] = now]
  /\ UNCHANGED <<clock, stamp, since, scheduler, processor>>

Crash ==
  /\ up
  /\ up' = FALSE
  /\ sweep' = "asleep" /\ todo' = {} /\ victim' = None
  /\ mover' = "idle" /\ target' = None /\ snapshot' = {}
  /\ trouble' = TRUE
  /\ UNCHANGED <<now, folders, wake, cutoff, swept>>

\* The scheduler starts with a sleep: a midnight while it was down is missed.
Restart ==
  /\ ~ up
  /\ up' = TRUE
  /\ wake' = NextMidnight(now)
  /\ UNCHANGED <<now, folders, sweep, cutoff, todo, victim, processor, swept, trouble>>

-----------------------------------------------------------------------------
(* move_to_processed and move_to_error. *)

\* Variant of Suffix: the day instead of the time.
SuffixDay(t) == Day * (t \div Day)

\* The timestamp that a name gets when it is taken.
Suffix(t) == t

\* The job of u has ended, and its destination is chosen.
BeginMove(u, d) ==
  /\ up /\ mover = "idle"
  /\ where[u] = "input"
  /\ mover' = "moving"
  /\ target' = <<u, <<d, NameOf[u], IF At(<<d, NameOf[u], None>>) = {} THEN None ELSE Suffix(now)>>>>
  /\ UNCHANGED <<clock, folders, scheduler, snapshot>>

\* rename keeps the times of the folder.  It fails where there is a folder
\* already, and may fail anywhere: the directory cannot be made, the disk is not
\* the same one, permissions are missing.
Rename ==
  /\ up /\ mover = "moving"
  /\ LET u == target[1]
         p == target[2]
     IN  \/ /\ At(p) = {}
            /\ where' = [where EXCEPT ![u] = p[1]]
            /\ stamp' = [stamp EXCEPT ![u] = p[3]]
            /\ since' = [since EXCEPT ![u] = now]
         \/ UNCHANGED <<where, stamp, since>>
  /\ mover' = "idle" /\ target' = None
  /\ UNCHANGED <<clock, mtime, scheduler, snapshot>>

-----------------------------------------------------------------------------
(* RetentionScheduler::run and cleanup_old_folders. *)

\* It wakes at midnight and reads the first directory.
Wake ==
  /\ up /\ sweep = "asleep"
  /\ now = wake
  /\ cutoff' = IF now >= Retention THEN now - Retention ELSE 0
  /\ sweep' = "processed"
  /\ todo' = { PathOf(u) : u \in In("processed") }
  /\ trouble' = FALSE
  /\ UNCHANGED <<clock, folders, wake, victim, processor, swept>>

\* The scheduler sleeps until the next midnight.
Sleeps ==
  /\ sweep' = "asleep"
  /\ todo' = {} /\ victim' = None
  /\ wake' = NextMidnight(now)

\* A directory cannot be read: the sweep ends there.
ReadFails ==
  /\ up /\ sweep # "asleep" /\ victim = None
  /\ Sleeps
  /\ trouble' = TRUE
  /\ UNCHANGED <<clock, folders, cutoff, processor, swept>>

\* Variant of Look: what is as old as the cutoff goes, too.
LookInclusive(p) ==
  /\ up /\ sweep # "asleep" /\ victim = None
  /\ p \in todo
  /\ \/ /\ IF \E u \in At(p) : mtime[u] <= cutoff
           THEN victim' = p /\ todo' = todo
           ELSE victim' = None /\ todo' = todo \ {p}
        /\ trouble' = trouble
     \/ victim' = None /\ todo' = todo \ {p} /\ trouble' = TRUE
  /\ UNCHANGED <<clock, folders, wake, sweep, cutoff, processor, swept>>

\* The modification time of an entry is read; if it cannot be, the entry is
\* skipped.
Look(p) ==
  /\ up /\ sweep # "asleep" /\ victim = None
  /\ p \in todo
  /\ \/ /\ IF \E u \in At(p) : mtime[u] < cutoff
           THEN victim' = p /\ todo' = todo
           ELSE victim' = None /\ todo' = todo \ {p}
        /\ trouble' = trouble
     \/ victim' = None /\ todo' = todo \ {p} /\ trouble' = TRUE
  /\ UNCHANGED <<clock, folders, wake, sweep, cutoff, processor, swept>>

Gone(p) ==
  /\ where' = [u \in Uploads |-> IF u \in At(p) THEN "gone" ELSE where[u]]
  /\ stamp' = [u \in Uploads |-> IF u \in At(p) THEN None ELSE stamp[u]]
  /\ mtime' = [u \in Uploads |-> IF u \in At(p) THEN 0 ELSE mtime[u]]
  /\ since' = [u \in Uploads |-> IF u \in At(p) THEN 0 ELSE since[u]]

\* remove_dir_all of what is at that path by now; a failure is only logged.
DeleteOld ==
  /\ up /\ victim # None
  /\ \/ Gone(victim) /\ UNCHANGED trouble
     \/ UNCHANGED folders /\ trouble' = TRUE
  /\ todo' = todo \ {victim}
  /\ victim' = None
  /\ UNCHANGED <<clock, wake, sweep, cutoff, processor, swept>>

\* Variant of Second: only one directory is cleaned in a night.
SecondSkipped ==
  /\ up /\ sweep = "processed" /\ todo = {}
  /\ Sleeps
  /\ swept' = IF trouble THEN swept ELSE now
  /\ UNCHANGED <<clock, folders, cutoff, processor, trouble>>

Second ==
  /\ up /\ sweep = "processed" /\ todo = {}
  /\ sweep' = "error"
  /\ todo' = { PathOf(u) : u \in In("error") }
  /\ UNCHANGED <<clock, folders, wake, cutoff, victim, processor, swept, trouble>>

SweepEnds ==
  /\ up /\ sweep = "error" /\ todo = {}
  /\ Sleeps
  /\ swept' = IF trouble THEN swept ELSE now
  /\ UNCHANGED <<clock, folders, cutoff, processor, trouble>>

-----------------------------------------------------------------------------
(* check_and_auto_cleanup and cleanup_for_space. *)

\* The disk is full to the critical threshold: all folders are collected.
Collect ==
  /\ up /\ mover = "idle"
  /\ IsAtCriticalThreshold
  /\ mover' = "freeing"
  /\ snapshot' = { <<PathOf(u), mtime[u]>> : u \in Archived }
  /\ UNCHANGED <<clock, folders, scheduler, target>>

\* The next of the folders in the order of their times.
Oldest == { s \in snapshot : \A r \in snapshot : s[2] <= r[2] }

\* It is deleted, if it can be, unless there is enough space by now.
Free(s) ==
  /\ up /\ mover = "freeing"
  /\ s \in Oldest
  /\ ~ TargetReached
  /\ snapshot' = snapshot \ {s}
  /\ Gone(s[1]) \/ UNCHANGED folders
  /\ UNCHANGED <<clock, scheduler, mover, target>>

FreeEnds ==
  /\ up /\ mover = "freeing"
  /\ TargetReached \/ snapshot = {}
  /\ mover' = "idle" /\ snapshot' = {}
  /\ UNCHANGED <<clock, folders, scheduler, target>>

\* The time of the model is over.
Finished ==
  /\ now = MaxTime
  /\ UNCHANGED vars

Next ==
  \/ Tick \/ Crash \/ Restart \/ Rename
  \/ Wake \/ ReadFails \/ DeleteOld \/ Second \/ SweepEnds
  \/ Collect \/ FreeEnds \/ Finished
  \/ \E u \in Uploads : Upload(u) \/ \E d \in Archive : BeginMove(u, d)
  \/ \E p \in todo : Look(p)
  \/ \E s \in snapshot : Free(s)

Spec == Init /\ [][Next]_vars

-----------------------------------------------------------------------------
(* Properties. *)

\* Every midnight is followed by a sweep, once and at that midnight, unless
\* something fails or the process was down (scheduler.rs sleeps first and
\* computes the next midnight anew in every round).
SweptEachMidnight ==
  up /\ sweep = "asleep" /\ wake > now /\ ~ trouble => swept = Day * (now \div Day)

\* After a sweep without failures nothing is left of what was too old then in
\* processed/ or error/, whatever is moved there and deleted there meanwhile.
NothingOverstays ==
  \A u \in Archived : since[u] < swept => mtime[u] + Retention >= swept

\* Retention deletes only what is older than the limit.  The exception is a
\* folder that was moved a moment ago to a path that the cleanup for space had
\* freed: both cleanups delete by path what they have looked at before.
YoungStay ==
  \A u \in Archived : where'[u] = "gone" /\ victim' # victim
    => now - mtime[u] > Retention \/ since[u] = now

\* The cleanup for space deletes the oldest of the folders that are still there
\* of those it has found, across both directories.
OldestGoFirst ==
  \A u, v \in Archived :
    where'[u] = "gone" /\ snapshot' # snapshot /\ <<PathOf(v), mtime[v]>> \in snapshot
      => mtime[u] <= mtime[v]

\* Folders are deleted by age, whatever was moved and deleted since they were
\* looked at (retention.rs, space.rs).
DeletedByAge == [][YoungStay /\ OldestGoFirst]_vars

\* The destination of a move is never taken, by a folder that a crash, another
\* job or a cleanup has left or moved there, unless the folder was uploaded in
\* the very tick in which another of its name had been filed (cleanup.rs: the
\* resolution of the timestamp).  A rename that fails for other reasons is not
\* ruled out: it leaves the folder in the input directory, where no job takes it
\* up again.
OnlyTwinsCollide ==
  mover = "moving" /\ At(target[2]) # {} =>
    \E v \in Archived : /\ NameOf[v] = NameOf[target[1]]
                       /\ since[v] = mtime[target[1]]

=============================================================================
