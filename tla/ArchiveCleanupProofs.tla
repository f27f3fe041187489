------------------------ MODULE ArchiveCleanupProofs ------------------------
(***************************************************************************)
(* What becomes of finished folders, for any number of uploads, any names, *)
(* any length of a day and any retention.                                  *)
(***************************************************************************)
EXTENDS ArchiveCleanup, TLAPS

USE TimesAssumption, NamesAssumption

\* The next midnight is not over.
LEMMA MidnightFacts ==
  ASSUME NEW t \in Nat
  PROVE  NextMidnight(t) \in Nat /\ NextMidnight(t) >= t
<1>1. Day \in Nat /\ Day > 0
  OBVIOUS
<1>2. t \div Day \in Nat
  BY <1>1
<1>3. t = Day * (t \div Day) + (t % Day) /\ t % Day < Day /\ t % Day \in Nat
  BY <1>1
<1>4. Day * ((t \div Day) + 1) = Day * (t \div Day) + Day
  BY <1>1, <1>2
<1>5. Day * (t \div Day) \in Nat
  BY <1>1, <1>2
<1> QED
  BY <1>1, <1>2, <1>3, <1>4, <1>5 DEF NextMidnight

\* Types, and that a scheduler that sleeps has nothing to do.
TypeInv == TypeOK /\ (sweep = "asleep" => todo = {})

\* The types hold when the process starts.
LEMMA TypeInit == Init => TypeInv
BY MidnightFacts DEF Init, TypeOK, TypeInv, Times

\* What a deletion leaves of the folders has their types.
LEMMA GoneTypes ==
  ASSUME TypeOK, NEW p, Gone(p) \/ UNCHANGED folders
  PROVE  /\ where' \in [Uploads -> Archive \union {"nowhere", "input", "gone"}]
         /\ stamp' \in [Uploads -> Times \union {None}]
         /\ mtime' \in [Uploads -> Times] /\ since' \in [Uploads -> Times]
<1>1. 0 \in Times
  BY DEF Times
<1> QED
  BY <1>1 DEF TypeOK, Gone, folders, At

\* What a path is made of.
LEMMA PathTypes ==
  ASSUME TypeOK, NEW u \in Archived
  PROVE  PathOf(u) \in Paths
BY DEF TypeOK, Archived, PathOf, Paths, Names, Archive

\* Every step keeps the types.
LEMMA TypeStep == TypeInv /\ [Next]_vars => TypeInv'
<1> SUFFICES ASSUME TypeInv, [Next]_vars PROVE TypeInv'
  OBVIOUS
<1> USE DEF TypeOK, TypeInv
<1>0. now \in Nat /\ \A d \in Archive : { PathOf(u) : u \in In(d) } \subseteq Paths
  <2>1. \A d \in Archive : In(d) \subseteq Archived
    BY DEF In, Archived
  <2> QED
    BY <2>1, PathTypes DEF Times
<1>1. CASE Tick
  BY <1>0, <1>1 DEF Tick, folders, scheduler, processor, Times
<1>2. CASE Crash
  BY <1>2 DEF Crash, folders
<1>3. CASE Restart
  BY <1>0, <1>3, MidnightFacts DEF Restart, folders, processor
<1>4. CASE Rename
  <2>1. target[1] \in Uploads /\ target[2][1] \in Archive /\ target[2][3] \in Times \union {None}
    BY <1>4 DEF Rename, Paths
  <2> QED
    BY <1>4, <2>1 DEF Rename, clock, scheduler
<1>5. CASE Wake
  <2>1. victim' = None /\ sweep' = "processed" /\ todo' \subseteq Paths
    BY <1>0, <1>5 DEF Wake, Archive
  <2>2. cutoff' \in Nat
    BY <1>0, <1>5 DEF Wake
  <2> QED
    BY <1>5, <2>1, <2>2 DEF Wake, clock, folders, processor, Archive
<1>6. CASE ReadFails
  BY <1>0, <1>6, MidnightFacts DEF ReadFails, Sleeps, clock, folders, processor
<1>7. CASE DeleteOld
  BY <1>7, GoneTypes DEF DeleteOld, clock, processor
<1>8. CASE Second
  BY <1>0, <1>8 DEF Second, clock, folders, processor, Archive
<1>9. CASE SweepEnds
  BY <1>0, <1>9, MidnightFacts DEF SweepEnds, Sleeps, clock, folders, processor
<1>10. CASE Collect
  <2>1. \A u \in Archived : <<PathOf(u), mtime[u]>> \in Paths \X Times
    BY PathTypes DEF Archived
  <2> QED
    BY <1>10, <2>1 DEF Collect, clock, folders, scheduler
<1>11. CASE FreeEnds
  BY <1>11 DEF FreeEnds, clock, folders, scheduler
<1>12. CASE Finished \/ UNCHANGED vars
  BY <1>12 DEF Finished, vars, clock, folders, scheduler, processor
<1>13. ASSUME NEW u \in Uploads, Upload(u) PROVE TypeInv'
  BY <1>13 DEF Upload, clock, scheduler, processor
<1>14. ASSUME NEW u \in Uploads, NEW d \in Archive, BeginMove(u, d) PROVE TypeInv'
  <2>1. target' \in Uploads \X Paths
    BY <1>14 DEF BeginMove, Paths, Names, Suffix
  <2>2. target' # None
    BY <1>14, <2>1, NoneAssumption
  <2> QED
    BY <1>14, <2>1, <2>2 DEF BeginMove, clock, folders, scheduler
<1>15. ASSUME NEW p \in todo, Look(p) PROVE TypeInv'
  <2>1. trouble' \in BOOLEAN
    BY <1>15, Zenon DEF Look
  <2> QED
    BY <1>15, <2>1 DEF Look, clock, folders, processor
<1>16. ASSUME NEW s \in snapshot, Free(s) PROVE TypeInv'
  BY <1>16, GoneTypes DEF Free, clock, scheduler
<1> QED
  BY <1>1, <1>2, <1>3, <1>4, <1>5, <1>6, <1>7, <1>8, <1>9, <1>10, <1>11, <1>12, <1>13,
     <1>14, <1>15, <1>16 DEF Next

\* The types hold for any uploads, names, times and sizes.
THEOREM TypeCorrect == Spec => []TypeOK
<1>1. TypeInv => TypeOK
  BY DEF TypeInv
<1> QED
  BY <1>1, TypeInit, TypeStep, PTL DEF Spec

-----------------------------------------------------------------------------
(* What has been looked at before it is deleted. *)

\* No two folders are in one place, and nothing is there before its time.
PlaceInv ==
  /\ \A u, v \in Archived : PathOf(u) = PathOf(v) => u = v
  /\ \A u \in Uploads : mtime[u] <= now /\ since[u] <= now
  /\ \A u \in Uploads : stamp[u] # None => stamp[u] <= since[u]

\* The processor moves a folder that is in the input directory, to a path that
\* was free when it was chosen or bears the time of that.
MoveInv ==
  mover = "moving" =>
    LET u == target[1]
        p == target[2]
    IN  /\ where[u] = "input"
        /\ p[2] = NameOf[u]
        /\ p[3] = None => At(p) = {}
        /\ p[3] # None => /\ p[3] <= now /\ mtime[u] <= p[3]
                          /\ \A v \in Archived : since[v] <= p[3]

\* A name is free in the input directory when it is uploaded again.
InputInv ==
  /\ \A u, v \in In("input") : NameOf[u] = NameOf[v] => u = v
  /\ \A u \in In("input"), v \in Archived : NameOf[u] = NameOf[v] => since[v] <= mtime[u]

\* The sweep is of this tick, and its victim was too old unless it has just come.
VictimInv ==
  /\ sweep # "asleep" => up /\ cutoff = IF now >= Retention THEN now - Retention ELSE 0
  /\ victim # None =>
       sweep # "asleep" /\ \A u \in At(victim) : mtime[u] < cutoff \/ since[u] = now

\* The cleanup for space knows the age of what is still at a path it has found.
SnapshotInv ==
  \A s \in snapshot : mover = "freeing" /\ \A u \in At(s[1]) : mtime[u] = s[2]

PathInv == PlaceInv /\ MoveInv /\ InputInv /\ VictimInv /\ SnapshotInv

\* They hold when the process starts.
LEMMA PathInit == Init => PathInv
BY DEF Init, PathInv, PlaceInv, MoveInv, InputInv, VictimInv, SnapshotInv, Archived, Archive, In

\* A deletion takes folders away from their places and changes nothing else.
LEMMA GoneFacts ==
  ASSUME TypeOK, NEW p, Gone(p) \/ UNCHANGED folders
  PROVE  /\ Archived' \subseteq Archived
         /\ In("input")' = In("input")
         /\ \A u \in Archived' : /\ PathOf(u)' = PathOf(u)
                                 /\ mtime'[u] = mtime[u] /\ since'[u] = since[u]
         /\ \A u \in In("input") : mtime'[u] = mtime[u]
         /\ \A q : At(q)' \subseteq At(q)
<1>1. CASE UNCHANGED folders
  BY <1>1 DEF folders, Archived, In, PathOf, At
<1>2. CASE Gone(p)
  <2>1. At(p) \subseteq Archived /\ Archived \intersect In("input") = {}
    BY DEF At, Archived, In, Archive
  <2>2. \A u \in Uploads \ At(p) : /\ where'[u] = where[u] /\ stamp'[u] = stamp[u]
                                  /\ mtime'[u] = mtime[u] /\ since'[u] = since[u]
    BY <1>2 DEF Gone, TypeOK
  <2>3. \A u \in At(p) : where'[u] = "gone"
    BY <1>2, <2>1 DEF Gone, TypeOK, Archived
  <2>4. Archived' = Archived \ At(p) /\ In("input")' = In("input")
    BY <2>1, <2>2, <2>3 DEF Archived, In, Archive
  <2>5. \A u \in Archived' : u \in Uploads \ At(p) /\ u \in Archived /\ PathOf(u)' = PathOf(u)
    BY <2>2, <2>4 DEF Archived, PathOf
  <2>6. \A q : At(q)' \subseteq At(q)
    BY <2>5 DEF At
  <2> QED
    BY <2>1, <2>2, <2>4, <2>5, <2>6 DEF In
<1> QED
  BY <1>1, <1>2

\* What a step does to the folders and the time.
LEMMA FoldersStep ==
  ASSUME TypeInv, [Next]_vars
  PROVE  \/ UNCHANGED folders /\ now' \in {now, now + 1}
         \/ \E u \in Uploads : Upload(u)
         \/ Rename
         \/ (DeleteOld \/ \E s \in snapshot : Free(s)) /\ now' = now /\ \E p : Gone(p)
BY DEF Next, vars, Tick, Crash, Restart, Wake, ReadFails, DeleteOld, Second, SweepEnds,
         Collect, FreeEnds, Finished, BeginMove, Look, Free, clock, folders

\* Every step keeps the places apart.
LEMMA PlaceStep ==
  ASSUME TypeInv, PathInv, [Next]_vars
  PROVE  PlaceInv'
<1> USE DEF TypeInv, TypeOK, PathInv, PlaceInv, Times
<1>1. CASE UNCHANGED folders /\ now' \in {now, now + 1}
  <2>1. Archived' = Archived /\ \A u \in Archived : PathOf(u)' = PathOf(u)
    BY <1>1 DEF folders, Archived, PathOf
  <2> QED
    BY <1>1, <2>1 DEF folders
<1>2. ASSUME NEW u \in Uploads, Upload(u) PROVE PlaceInv'
  <2>1. Archived' = Archived /\ \A v \in Archived : PathOf(v)' = PathOf(v)
    <3>1. u \notin Archived /\ \A v \in Uploads \ {u} : where'[v] = where[v] /\ stamp' = stamp
      BY <1>2 DEF Upload, Archived, Archive
    <3>2. where'[u] = "input"
      BY <1>2 DEF Upload
    <3>3. Archived' = Archived
      BY <3>1, <3>2 DEF Archived, Archive
    <3>4. \A v \in Archived : where'[v] = where[v] /\ stamp'[v] = stamp[v]
      BY <3>1 DEF Archived
    <3> QED
      BY <3>3, <3>4 DEF PathOf
  <2>2. stamp'[u] # None => stamp'[u] <= since'[u]
    BY <1>2 DEF Upload
  <2> QED
    BY <1>2, <2>1, <2>2 DEF Upload, clock
<1>3. CASE Rename
  <2> DEFINE u == target[1]
             p == target[2]
  <2>1. u \in Uploads /\ p[1] \in Archive /\ p[3] \in Times \union {None} /\ p \in Paths
    BY <1>3 DEF Rename, Paths
  <2>2. where[u] = "input" /\ p[2] = NameOf[u] /\ (p[3] # None => p[3] <= now)
    BY <1>3 DEF Rename, MoveInv
  <2>3. CASE UNCHANGED <<where, stamp, since>>
    BY <1>3, <2>3 DEF Rename, Archived, PathOf, clock
  <2>4. CASE At(p) = {} /\ ~ UNCHANGED <<where, stamp, since>>
    <3>1. /\ where' = [where EXCEPT ![u] = p[1]]
          /\ stamp' = [stamp EXCEPT ![u] = p[3]]
          /\ since' = [since EXCEPT ![u] = now]
          /\ now' = now /\ mtime' = mtime
      BY <1>3, <2>4 DEF Rename, clock
    <3>2. Archived' = Archived \union {u} /\ u \notin Archived
      BY <2>1, <2>2, <3>1 DEF Archived, Archive
    <3>3. <<where'[u], NameOf[u], stamp'[u]>> = p
      <4>1. <<where'[u], NameOf[u], stamp'[u]>> = <<p[1], p[2], p[3]>>
        BY <2>1, <2>2, <3>1
      <4> QED
        BY <2>1, <4>1 DEF Paths
    <3>4. \A v \in Archived : PathOf(v)' = PathOf(v) /\ PathOf(v) # p
      <4>1. \A v \in Archived : v # u /\ where'[v] = where[v] /\ stamp'[v] = stamp[v]
        BY <3>1, <3>2 DEF Archived
      <4> QED
        BY <2>4, <4>1 DEF PathOf, At
    <3>5. ASSUME NEW v \in Archived', NEW w \in Archived', PathOf(v)' = PathOf(w)'
          PROVE  v = w
      BY <3>2, <3>3, <3>4, <3>5 DEF PathOf
    <3>6. \A v \in Uploads :
            mtime'[v] <= now' /\ since'[v] <= now' /\ (stamp'[v] # None => stamp'[v] <= since'[v])
      BY <2>1, <2>2, <3>1
    <3> QED
      BY <3>5, <3>6
  <2> QED
    BY <1>3, <2>3, <2>4 DEF Rename
<1>4. ASSUME NEW p, Gone(p), now' = now PROVE PlaceInv'
  <2>1. \A u \in Uploads :
          \/ mtime'[u] = mtime[u] /\ since'[u] = since[u] /\ stamp'[u] = stamp[u]
          \/ mtime'[u] = 0 /\ since'[u] = 0 /\ stamp'[u] = None
    BY <1>4 DEF Gone
  <2>2. \A u \in Uploads :
          mtime'[u] <= now' /\ since'[u] <= now' /\ (stamp'[u] # None => stamp'[u] <= since'[u])
    BY <1>4, <2>1
  <2> QED
    BY <1>4, <2>2, GoneFacts
<1> QED
  BY <1>1, <1>2, <1>3, <1>4, FoldersStep

\* Every step keeps the names in the input directory apart.
LEMMA InputStep ==
  ASSUME TypeInv, PathInv, [Next]_vars
  PROVE  InputInv'
<1> USE DEF TypeInv, TypeOK, PathInv, InputInv, Times
<1>1. CASE UNCHANGED folders /\ now' \in {now, now + 1}
  BY <1>1 DEF folders, Archived, In
<1>2. ASSUME NEW u \in Uploads, Upload(u) PROVE InputInv'
  <2>1. Archived' = Archived /\ In("input")' = In("input") \union {u} /\ u \notin In("input")
    <3>1. \A v \in Uploads \ {u} : where'[v] = where[v]
      BY <1>2 DEF Upload
    <3>2. where[u] = "nowhere" /\ where'[u] = "input"
      BY <1>2 DEF Upload
    <3> QED
      BY <3>1, <3>2 DEF Archived, In, Archive
  <2>2. \A v \in Archived : since[v] <= now
    BY DEF PlaceInv, Archived
  <2>3. \A v \in In("input") : NameOf[v] # NameOf[u] /\ mtime'[v] = mtime[v]
    BY <1>2, <2>1 DEF Upload
  <2>4. mtime'[u] = now /\ since' = since
    BY <1>2 DEF Upload
  <2> QED
    BY <2>1, <2>2, <2>3, <2>4
<1>3. CASE Rename
  <2> DEFINE u == target[1]
             p == target[2]
  <2>1. u \in Uploads /\ p[1] \in Archive /\ u \in In("input")
    BY <1>3 DEF Rename, Paths, MoveInv, In
  <2>2. CASE UNCHANGED <<where, stamp, since>>
    BY <1>3, <2>2 DEF Rename, Archived, In
  <2>3. CASE At(p) = {} /\ ~ UNCHANGED <<where, stamp, since>>
    <3>1. /\ where' = [where EXCEPT ![u] = p[1]]
          /\ since' = [since EXCEPT ![u] = now]
          /\ mtime' = mtime
      BY <1>3, <2>3 DEF Rename
    <3>2. Archived' = Archived \union {u} /\ In("input")' = In("input") \ {u}
      BY <2>1, <3>1 DEF Archived, In, Archive
    <3>3. \A v \in Archived : since'[v] = since[v]
      BY <2>1, <3>1 DEF In, Archived, Archive
    <3> QED
      BY <2>1, <3>1, <3>2, <3>3
  <2> QED
    BY <1>3, <2>2, <2>3 DEF Rename
<1>4. ASSUME NEW p, Gone(p) PROVE InputInv'
  BY <1>4, GoneFacts
<1> QED
  BY <1>1, <1>2, <1>3, <1>4, FoldersStep

\* The path of a move stays free, or keeps the time of its choice.
LEMMA MoveStep ==
  ASSUME TypeInv, PathInv, [Next]_vars
  PROVE  MoveInv'
<1> USE DEF TypeInv, TypeOK, PathInv, Times
<1>1. ASSUME NEW u \in Uploads, NEW d \in Archive, BeginMove(u, d) PROVE MoveInv'
  <2> PICK t : t = IF At(<<d, NameOf[u], None>>) = {} THEN None ELSE now
    OBVIOUS
  <2> PICK p : p = <<d, NameOf[u], t>>
    OBVIOUS
  <2>1. target' = <<u, p>> /\ UNCHANGED folders /\ now' = now /\ where[u] = "input"
    BY <1>1 DEF BeginMove, clock, Suffix
  <2>2. (\A q : At(q)' = At(q)) /\ Archived' = Archived
    BY <2>1 DEF At, PathOf, Archived, folders
  <2>3. p[3] = None => At(p) = {}
    OBVIOUS
  <2>4. p[3] # None => p[3] = now
    OBVIOUS
  <2>5. mtime'[u] <= now /\ \A v \in Archived' : since'[v] <= now
    BY <2>1, <2>2 DEF PlaceInv, Archived, folders
  <2> QED
    BY <2>1, <2>2, <2>3, <2>4, <2>5 DEF MoveInv, folders
<1>2. CASE mover' # "moving"
  BY <1>2 DEF MoveInv
<1>3. CASE UNCHANGED <<mover, target>> /\ mover = "moving"
  <2> DEFINE u == target[1]
             p == target[2]
  <2>1. u \in Uploads /\ where[u] = "input" /\ u \in In("input") /\ now' \in Nat /\ now \in Nat
    <3>1. u \in Uploads /\ where[u] = "input"
      BY <1>3 DEF MoveInv
    <3> QED
      BY <3>1, TypeStep DEF In
  <2>2. CASE UNCHANGED folders /\ now' \in {now, now + 1}
    <3>1. (\A q : At(q)' = At(q)) /\ Archived' = Archived
      BY <2>2 DEF At, PathOf, Archived, folders
    <3>2. p[3] # None => p[3] \in Nat
      BY <1>3 DEF Paths
    <3>3. p[3] # None => p[3] <= now'
      BY <1>3, <2>1, <2>2, <3>2 DEF MoveInv
    <3> QED
      BY <1>3, <2>2, <3>1, <3>3 DEF MoveInv, folders
  <2>3. ASSUME NEW w \in Uploads, Upload(w) PROVE MoveInv'
    <3>1. Archived' = Archived /\ where' = [where EXCEPT ![w] = "input"] /\ stamp' = stamp
      BY <2>3 DEF Upload, Archived, Archive
    <3>2. \A q : At(q)' = At(q)
      <4>1. \A v \in Archived : where'[v] = where[v]
        BY <2>3, <3>1 DEF Upload, Archived, Archive
      <4> QED
        BY <3>1, <4>1 DEF At, PathOf
    <3>3. u # w /\ since' = since /\ mtime'[u] = mtime[u] /\ where'[u] = "input" /\ now' = now
      BY <2>1, <2>3 DEF Upload, clock
    <3> QED
      BY <1>3, <3>1, <3>2, <3>3 DEF MoveInv
  <2>4. CASE Rename
    BY <1>3, <2>4 DEF Rename
  <2>5. ASSUME NEW q, Gone(q), now' = now PROVE MoveInv'
    <3>1. (\A r : At(r)' \subseteq At(r)) /\ Archived' \subseteq Archived
      BY <2>5, GoneFacts
    <3>2. u \in In("input")' /\ mtime'[u] = mtime[u] /\ \A v \in Archived' : since'[v] = since[v]
      BY <2>1, <2>5, GoneFacts
    <3> QED
      BY <1>3, <2>5, <3>1, <3>2 DEF MoveInv, In
  <2> QED
    BY <2>2, <2>3, <2>4, <2>5, FoldersStep
<1>4. \/ \E u \in Uploads, d \in Archive : BeginMove(u, d)
      \/ mover' # "moving"
      \/ UNCHANGED <<mover, target>> /\ mover = "moving"
  BY DEF Next, vars, Tick, Upload, Crash, Restart, Rename, Wake, ReadFails, DeleteOld, Second,
         SweepEnds, Collect, FreeEnds, Finished, Look, Free, processor
<1> QED
  BY <1>1, <1>2, <1>3, <1>4

\* What the cleanup for space knows stays true while it works.
LEMMA SnapshotStep ==
  ASSUME TypeInv, PathInv, [Next]_vars
  PROVE  SnapshotInv'
<1> USE DEF TypeInv, TypeOK, PathInv, SnapshotInv
<1>1. CASE Collect
  <2>1. UNCHANGED folders /\ snapshot' = { <<PathOf(u), mtime[u]>> : u \in Archived }
    BY <1>1 DEF Collect
  <2>2. \A q : At(q)' = At(q)
    BY <2>1 DEF At, PathOf, Archived, folders
  <2>3. ASSUME NEW u \in Archived, NEW w \in At(PathOf(u)) PROVE mtime[w] = mtime[u]
    BY <2>3 DEF At, PlaceInv
  <2> QED
    BY <1>1, <2>1, <2>2, <2>3 DEF Collect, folders
<1>2. mover = "freeing" =>
        (\A u \in Archived : u \in Archived' => mtime'[u] = mtime[u]) /\ \A q : At(q)' \subseteq At(q)
  <2>1. CASE UNCHANGED folders
    BY <2>1 DEF folders, At, PathOf, Archived
  <2>2. ASSUME NEW w \in Uploads, Upload(w)
        PROVE  (\A u \in Archived : mtime'[u] = mtime[u]) /\ \A q : At(q)' \subseteq At(q)
    <3>1. w \notin Archived /\ where' = [where EXCEPT ![w] = "input"] /\ stamp' = stamp
      BY <2>2 DEF Upload, Archived, Archive
    <3>2. Archived' = Archived
      BY <3>1 DEF Archived, Archive
    <3>3. \A u \in Archived : PathOf(u)' = PathOf(u) /\ mtime'[u] = mtime[u]
      BY <2>2, <3>1 DEF Upload, PathOf, Archived
    <3> QED
      BY <3>2, <3>3 DEF At
  <2>3. ASSUME NEW q, Gone(q)
        PROVE  (\A u \in Archived : u \in Archived' => mtime'[u] = mtime[u])
               /\ \A r : At(r)' \subseteq At(r)
    BY <2>3, GoneFacts
  <2> QED
    BY <2>1, <2>2, <2>3, FoldersStep DEF Rename
<1>3. \/ Collect
      \/ snapshot' \subseteq snapshot /\ (snapshot' = {} \/ mover' = mover)
      \/ UNCHANGED snapshot /\ mover # "freeing"
  BY DEF Next, vars, Tick, Upload, BeginMove, Crash, Restart, Rename, Wake, ReadFails, DeleteOld,
         Second, SweepEnds, FreeEnds, Finished, Look, Free, processor
<1>4. ASSUME ~ Collect, NEW s \in snapshot'
      PROVE  mover' = "freeing" /\ \A u \in At(s[1])' : mtime'[u] = s[2]
  <2>1. s \in snapshot /\ mover = "freeing" /\ mover' = mover
    BY <1>3, <1>4
  <2>2. \A u \in At(s[1])' : u \in At(s[1]) /\ u \in Archived /\ u \in Archived'
    BY <1>2, <2>1 DEF At
  <2> QED
    BY <1>2, <2>1, <2>2
<1> QED
  BY <1>1, <1>4

\* The victim of the sweep stays too old.
LEMMA VictimStep ==
  ASSUME TypeInv, PathInv, [Next]_vars
  PROVE  VictimInv'
<1> USE DEF TypeInv, TypeOK, PathInv, Times
<1>1. ASSUME NEW p \in todo, Look(p) PROVE VictimInv'
  <2>1. UNCHANGED <<folders, now, up, sweep, cutoff>> /\ sweep # "asleep"
    BY <1>1 DEF Look, clock
  <2>2. \A q : At(q)' = At(q)
    BY <2>1 DEF At, PathOf, Archived, folders
  <2>3. victim' = None \/ (victim' = p /\ \E u \in At(p) : mtime[u] < cutoff)
    BY <1>1 DEF Look
  <2>4. \A u, v \in At(p) : u = v
    BY DEF At, PlaceInv
  <2> QED
    BY <2>1, <2>2, <2>3, <2>4 DEF VictimInv, folders
<1>2. CASE Wake
  <2>1. victim' = None
    BY <1>2 DEF Wake
  <2> QED
    BY <1>2, <2>1 DEF Wake, VictimInv, clock
<1>3. CASE victim' = None /\ sweep' = "asleep"
  BY <1>3 DEF VictimInv
<1>4. CASE victim' = None /\ UNCHANGED <<cutoff, up, now>> /\ sweep # "asleep"
  BY <1>4 DEF VictimInv
<1>5. CASE sweep = "asleep" /\ sweep' = "asleep" /\ victim' = victim
  BY <1>5 DEF VictimInv
<1>6. CASE UNCHANGED <<cutoff, up, now, sweep, victim>>
  <2>1. CASE victim = None
    BY <1>6, <2>1 DEF VictimInv
  <2>2. CASE UNCHANGED folders
    <3>1. \A q : At(q)' = At(q)
      BY <2>2 DEF At, PathOf, Archived, folders
    <3> QED
      BY <1>6, <2>2, <3>1 DEF VictimInv, folders
  <2>3. ASSUME NEW w \in Uploads, Upload(w) PROVE VictimInv'
    <3>1. \A u \in Archived' : /\ u \in Archived /\ PathOf(u)' = PathOf(u)
                              /\ mtime'[u] = mtime[u] /\ since'[u] = since[u]
      BY <2>3 DEF Upload, PathOf, Archived, Archive
    <3>2. \A u \in At(victim)' : u \in At(victim) /\ mtime'[u] = mtime[u] /\ since'[u] = since[u]
      BY <1>6, <3>1 DEF At
    <3> QED
      BY <1>6, <3>2 DEF VictimInv
  <2>4. CASE Rename
    <3> PICK u : u = target[1]
      OBVIOUS
    <3>1. u \in Uploads
      BY <2>4 DEF Rename
    <3>2. \A v \in At(victim)' : \/ v \in At(victim) /\ mtime'[v] = mtime[v] /\ since'[v] = since[v]
                                \/ since'[v] = now
      <4>1. CASE UNCHANGED folders
        BY <1>6, <4>1 DEF At, PathOf, Archived, folders
      <4>2. CASE since' = [since EXCEPT ![u] = now]
        <5>1. \A v \in Uploads \ {u} : /\ where'[v] = where[v] /\ stamp'[v] = stamp[v]
                                     /\ mtime'[v] = mtime[v] /\ since'[v] = since[v]
          BY <2>4, <4>2 DEF Rename
        <5>2. since'[u] = now
          BY <3>1, <4>2
        <5> QED
          BY <1>6, <5>1, <5>2 DEF At, PathOf, Archived
      <4> QED
        BY <2>4, <4>1, <4>2 DEF Rename, folders
    <3> QED
      BY <1>6, <3>2 DEF VictimInv
  <2>5. ASSUME NEW q, Gone(q) PROVE VictimInv'
    <3>1. \A u \in At(victim)' : u \in At(victim) /\ mtime'[u] = mtime[u] /\ since'[u] = since[u]
      BY <1>6, <2>5, GoneFacts DEF At
    <3> QED
      BY <1>6, <3>1 DEF VictimInv
  <2> QED
    BY <2>1, <2>2, <2>3, <2>4, <2>5, FoldersStep
<1>7. \/ \E p \in todo : Look(p)
      \/ Wake
      \/ victim' = None /\ sweep' = "asleep"
      \/ victim' = None /\ UNCHANGED <<cutoff, up, now>> /\ sweep # "asleep"
      \/ sweep = "asleep" /\ sweep' = "asleep" /\ victim' = victim
      \/ UNCHANGED <<cutoff, up, now, sweep, victim>>
  <2>1. sweep # "asleep" => up
    BY DEF VictimInv
  <2> QED
    BY <2>1 DEF Next, vars, Tick, Upload, BeginMove, Crash, Restart, Rename, ReadFails, DeleteOld,
       Second, SweepEnds, Sleeps, Collect, FreeEnds, Finished, Free, clock, folders, scheduler, processor,
       VictimInv
<1> QED
  BY <1>1, <1>2, <1>3, <1>4, <1>5, <1>6, <1>7

\* All of it together.
LEMMA PathStep ==
  ASSUME TypeInv, PathInv, [Next]_vars
  PROVE  PathInv'
BY PlaceStep, MoveStep, InputStep, VictimStep, SnapshotStep DEF PathInv

\* Retention deletes only what is too old, and the cleanup for space the oldest.
LEMMA DeletionStep ==
  ASSUME TypeInv, PathInv, [Next]_vars
  PROVE  YoungStay /\ OldestGoFirst
<1> USE DEF TypeInv, TypeOK, PathInv, Times
<1>1. CASE \A u \in Archived : where'[u] # "gone"
  BY <1>1 DEF YoungStay, OldestGoFirst
<1>2. CASE DeleteOld
  <2>1. snapshot' = snapshot /\ OldestGoFirst
    BY <1>2 DEF DeleteOld, processor, OldestGoFirst
  <2>2. ASSUME NEW u \in Archived, where'[u] = "gone"
        PROVE  now - mtime[u] > Retention \/ since[u] = now
    <3>1. u \in At(victim)
      BY <1>2, <2>2 DEF DeleteOld, Gone, Archived, Archive, folders
    <3>2. victim # None
      BY <1>2 DEF DeleteOld
    <3>3. sweep # "asleep" /\ (mtime[u] < cutoff \/ since[u] = now)
      BY <3>1, <3>2 DEF VictimInv
    <3>4. cutoff = IF now >= Retention THEN now - Retention ELSE 0
      BY <3>3 DEF VictimInv
    <3>5. mtime[u] \in Nat /\ now \in Nat
      BY DEF Archived
    <3> QED
      BY <3>3, <3>4, <3>5
  <2> QED
    BY <2>1, <2>2 DEF YoungStay
<1>3. ASSUME NEW s \in snapshot, Free(s) PROVE YoungStay /\ OldestGoFirst
  <2>1. victim' = victim
    BY <1>3 DEF Free, scheduler
  <2>2. ASSUME NEW u \in Archived, NEW v \in Archived, where'[u] = "gone",
               <<PathOf(v), mtime[v]>> \in snapshot
        PROVE  mtime[u] <= mtime[v]
    <3>1. u \in At(s[1])
      BY <1>3, <2>2 DEF Free, Gone, Archived, Archive, folders
    <3>2. mtime[u] = s[2]
      BY <3>1 DEF SnapshotInv
    <3> QED
      BY <1>3, <2>2, <3>2 DEF Free, Oldest
  <2> QED
    BY <2>1, <2>2 DEF YoungStay, OldestGoFirst
<1>4. \/ \A u \in Archived : where'[u] # "gone"
      \/ DeleteOld
      \/ \E s \in snapshot : Free(s)
  <2>1. CASE UNCHANGED folders
    BY <2>1 DEF folders, Archived, Archive
  <2>2. ASSUME NEW w \in Uploads, Upload(w) PROVE \A u \in Archived : where'[u] # "gone"
    BY <2>2 DEF Upload, Archived, Archive
  <2>3. CASE Rename
    <3>1. target[2][1] \in Archive
      BY <2>3 DEF Rename, Paths
    <3> QED
      BY <2>3, <3>1 DEF Rename, Archived, Archive
  <2> QED
    BY <2>1, <2>2, <2>3, FoldersStep
<1> QED
  BY <1>1, <1>2, <1>3, <1>4

\* The path of a move is taken only by a folder with the same timestamp, which
\* had left the input directory before this one was uploaded.
LEMMA OnlyTwins ==
  ASSUME TypeInv, PathInv
  PROVE  OnlyTwinsCollide
<1> SUFFICES ASSUME mover = "moving", At(target[2]) # {}
             PROVE  \E v \in Archived : /\ NameOf[v] = NameOf[target[1]]
                                        /\ since[v] = mtime[target[1]]
  BY DEF OnlyTwinsCollide
<1> USE DEF TypeInv, TypeOK, PathInv, Times
<1> PICK u, p : target = <<u, p>> /\ u \in Uploads /\ p \in Paths
  OBVIOUS
<1>2. where[u] = "input" /\ p[1] \in Archive /\ p[2] = NameOf[u]
  BY DEF MoveInv, Paths
<1>3. At(p) # {}
  OBVIOUS
<1>4. p[3] # None /\ p[3] \in Nat /\ mtime[u] <= p[3] /\ \A v \in Archived : since[v] <= p[3]
  BY <1>3 DEF MoveInv, Paths
<1>5. PICK v \in Archived : PathOf(v) = p
  BY <1>3 DEF At
<1>6. NameOf[v] = NameOf[u] /\ stamp[v] = p[3]
  BY <1>2, <1>5 DEF PathOf
<1>7. p[3] <= since[v] /\ since[v] <= mtime[u]
  BY <1>2, <1>4, <1>5, <1>6 DEF PlaceInv, InputInv, In, Archived
<1>8. since[v] \in Nat /\ mtime[u] \in Nat
  BY <1>5 DEF Archived
<1> QED
  BY <1>4, <1>5, <1>6, <1>7, <1>8

\* Retention deletes only what is older than the limit, and the cleanup for space
\* only what is oldest, whatever moves and deletes folders at the same time.
THEOREM OnlyByAge == Spec => DeletedByAge
<1>1. TypeInv /\ PathInv /\ [Next]_vars => TypeInv' /\ PathInv' /\ [YoungStay /\ OldestGoFirst]_vars
  BY TypeStep, PathStep, DeletionStep
<1> QED
  BY <1>1, TypeInit, PathInit, PTL DEF Spec, DeletedByAge

\* The destination of a move is free, whatever was moved and deleted since it was
\* chosen, unless another of that name was filed in the tick of the upload.
THEOREM DestinationsAreFree == Spec => []OnlyTwinsCollide
<1>1. TypeInv /\ PathInv /\ [Next]_vars => TypeInv' /\ PathInv'
  BY TypeStep, PathStep
<1>2. TypeInv /\ PathInv => OnlyTwinsCollide
  BY OnlyTwins
<1> QED
  BY <1>1, <1>2, TypeInit, PathInit, PTL DEF Spec

-----------------------------------------------------------------------------
(* What a sweep leaves behind. *)

\* The sweep has not yet come to the folder.
Ahead(u) ==
  \/ sweep = "processed" /\ (where[u] = "error" \/ PathOf(u) \in todo)
  \/ sweep = "error" /\ where[u] = "error" /\ PathOf(u) \in todo

\* In a sweep without failures what is old is still ahead.
AheadInv ==
  sweep # "asleep" /\ ~ trouble =>
    \A u \in Archived : since[u] < now /\ mtime[u] < cutoff => Ahead(u)

\* Nothing overstays, now and after this sweep.
SweepInv == swept <= now /\ NothingOverstays /\ AheadInv

\* It holds when the process starts.
LEMMA SweepInit == Init => SweepInv
BY DEF Init, SweepInv, AheadInv, NothingOverstays, Archived, Archive

\* What is in the archive after a step was there before or is new there.
LEMMA FiledStep ==
  ASSUME TypeInv, PathInv, [Next]_vars
  PROVE  \A u \in Archived' :
           \/ since'[u] = now
           \/ /\ u \in Archived /\ where'[u] = where[u] /\ PathOf(u)' = PathOf(u)
              /\ since'[u] = since[u] /\ mtime'[u] = mtime[u]
<1> USE DEF TypeInv, TypeOK, PathInv, Times
<1>1. CASE UNCHANGED folders
  BY <1>1 DEF folders, Archived, PathOf
<1>2. ASSUME NEW w \in Uploads, Upload(w), NEW u \in Archived'
      PROVE  /\ u \in Archived /\ where'[u] = where[u] /\ PathOf(u)' = PathOf(u)
             /\ since'[u] = since[u] /\ mtime'[u] = mtime[u]
  <2>1. where'[w] = "input" /\ u # w
    BY <1>2 DEF Upload, Archived, Archive
  <2>2. u \in Uploads /\ where'[u] = where[u] /\ stamp'[u] = stamp[u]
        /\ since'[u] = since[u] /\ mtime'[u] = mtime[u]
    BY <1>2, <2>1 DEF Upload, Archived
  <2> QED
    BY <1>2, <2>2 DEF Archived, PathOf
<1>3. CASE Rename
  <2> PICK w : w = target[1]
    OBVIOUS
  <2>1. w \in Uploads
    BY <1>3 DEF Rename
  <2>2. CASE since' = [since EXCEPT ![w] = now]
    <3>1. \A v \in Uploads \ {w} : /\ where'[v] = where[v] /\ stamp'[v] = stamp[v]
                                 /\ mtime'[v] = mtime[v] /\ since'[v] = since[v]
      BY <1>3, <2>2 DEF Rename
    <3> QED
      BY <2>1, <2>2, <3>1 DEF Archived, PathOf
  <2> QED
    BY <1>1, <1>3, <2>2 DEF Rename, folders
<1>4. ASSUME NEW q, Gone(q), NEW u \in Archived'
      PROVE  /\ u \in Archived /\ where'[u] = where[u] /\ PathOf(u)' = PathOf(u)
             /\ since'[u] = since[u] /\ mtime'[u] = mtime[u]
  <2>1. where'[u] = IF u \in At(q) THEN "gone" ELSE where[u]
    BY <1>4 DEF Gone, Archived
  <2>2. where'[u] = where[u]
    BY <1>4, <2>1 DEF Archived, Archive
  <2> QED
    BY <1>4, <2>2, GoneFacts
<1> QED
  BY <1>1, <1>2, <1>3, <1>4, FoldersStep

\* A step that leaves the sweep where it is keeps what is ahead of it.
LEMMA SweepRests ==
  ASSUME TypeInv, PathInv, AheadInv, [Next]_vars,
         UNCHANGED <<sweep, cutoff, now>>, trouble => trouble',
         \A u \in Archived' : mtime'[u] < cutoff /\ PathOf(u) \in todo => PathOf(u)' \in todo' \/ trouble'
  PROVE  AheadInv'
<1> SUFFICES ASSUME sweep' # "asleep", ~ trouble',
                    NEW u \in Archived', since'[u] < now', mtime'[u] < cutoff'
             PROVE  Ahead(u)'
  BY DEF AheadInv
<1>0. now \in Nat /\ now' \in Nat
  BY DEF TypeInv, TypeOK, Times
<1>1. u \in Archived /\ where'[u] = where[u] /\ PathOf(u)' = PathOf(u)
      /\ since'[u] = since[u] /\ mtime'[u] = mtime[u]
  BY <1>0, FiledStep
<1>2. Ahead(u)
  BY <1>1 DEF AheadInv
<1> QED
  BY <1>1, <1>2 DEF Ahead

\* Every step keeps what is ahead of the sweep.
LEMMA AheadStep ==
  ASSUME TypeInv, PathInv, AheadInv, [Next]_vars
  PROVE  AheadInv'
<1> USE DEF TypeInv, TypeOK, PathInv
<1>1. CASE sweep' = "asleep" \/ trouble'
  BY <1>1 DEF AheadInv
<1>2. CASE Wake
  <2>1. UNCHANGED folders
    BY <1>2 DEF Wake
  <2>2. ASSUME NEW u \in Archived' PROVE Ahead(u)'
    <3>1. u \in Archived /\ PathOf(u)' = PathOf(u) /\ where'[u] = where[u]
      BY <2>1, <2>2 DEF folders, Archived, PathOf
    <3>2. where[u] = "error" \/ u \in In("processed")
      BY <3>1 DEF Archived, Archive, In
    <3> QED
      BY <1>2, <3>1, <3>2 DEF Wake, Ahead
  <2> QED
    BY <2>2 DEF AheadInv
<1>3. CASE Second
  <2>1. UNCHANGED folders /\ now' = now /\ cutoff' = cutoff /\ trouble' = trouble
    BY <1>3 DEF Second, clock
  <2>2. ASSUME ~ trouble, NEW u \in Archived', since'[u] < now', mtime'[u] < cutoff' PROVE Ahead(u)'
    <3>1. u \in Archived /\ PathOf(u)' = PathOf(u) /\ where'[u] = where[u]
          /\ since[u] < now /\ mtime[u] < cutoff
      BY <2>1, <2>2 DEF folders, Archived, PathOf
    <3>2. Ahead(u)
      BY <1>3, <2>2, <3>1 DEF AheadInv, Second
    <3>3. u \in In("error")
      BY <1>3, <3>1, <3>2 DEF Ahead, Second, Archived, In
    <3> QED
      BY <1>3, <3>1, <3>3 DEF Second, Ahead, In
  <2> QED
    BY <2>1, <2>2 DEF AheadInv
<1>4. ASSUME NEW p \in todo, Look(p) PROVE AheadInv'
  <2> SUFFICES ASSUME ~ trouble' PROVE AheadInv'
    BY <1>1
  <2>1. UNCHANGED folders /\ now' = now /\ cutoff' = cutoff /\ trouble' = trouble /\ sweep' = sweep
    BY <1>4 DEF Look, clock
  <2>2. \A u \in Archived' : u \in Archived /\ PathOf(u)' = PathOf(u) /\ mtime'[u] = mtime[u]
    BY <2>1 DEF folders, Archived, PathOf
  <2>3. \A u \in Archived : mtime[u] < cutoff /\ PathOf(u) \in todo => PathOf(u) \in todo'
    BY <1>4 DEF Look, At
  <2> QED
    BY <2>1, <2>2, <2>3, SweepRests
<1>5. CASE DeleteOld
  <2>1. now' = now /\ cutoff' = cutoff /\ sweep' = sweep /\ todo' = todo \ {victim}
    BY <1>5 DEF DeleteOld, clock
  <2>2. CASE trouble'
    BY <1>1, <2>2
  <2>3. CASE Gone(victim) /\ trouble' = trouble
    <3>1. ASSUME NEW u \in Archived', PathOf(u) \in todo PROVE PathOf(u)' \in todo'
      <4>1. u \in Archived /\ PathOf(u)' = PathOf(u) /\ where'[u] # "gone"
        BY <2>3, <3>1, GoneFacts DEF Archived, Archive
      <4>2. u \notin At(victim)
        BY <2>3, <4>1 DEF Gone, Archived
      <4> QED
        BY <2>1, <3>1, <4>1, <4>2 DEF At
    <3> QED
      BY <2>1, <2>3, <3>1, SweepRests
  <2> QED
    BY <1>5, <2>2, <2>3 DEF DeleteOld
<1>6. CASE UNCHANGED <<sweep, cutoff, now, todo, trouble>>
  <2>1. now \in Nat
    BY DEF Times
  <2>2. ASSUME NEW u \in Archived', since'[u] < now', mtime'[u] < cutoff',
               sweep' # "asleep", ~ trouble'
        PROVE  Ahead(u)'
    <3>1. since'[u] # now
      BY <1>6, <2>1, <2>2
    <3>2. u \in Archived /\ where'[u] = where[u] /\ PathOf(u)' = PathOf(u)
          /\ since'[u] = since[u] /\ mtime'[u] = mtime[u]
      BY <2>2, <3>1, FiledStep
    <3> QED
      BY <1>6, <2>2, <3>2 DEF AheadInv, Ahead
  <2> QED
    BY <2>2 DEF AheadInv
<1>7. \/ sweep' = "asleep" \/ trouble'
      \/ Wake \/ Second \/ DeleteOld \/ (\E p \in todo : Look(p))
      \/ UNCHANGED <<sweep, cutoff, now, todo, trouble>>
  <2>1. sweep # "asleep" => up
    BY DEF VictimInv
  <2> QED
    BY <2>1 DEF Next, vars, Tick, Upload, BeginMove, Crash, Restart, Rename, ReadFails,
       SweepEnds, Sleeps, Collect, FreeEnds, Finished, Free, clock, scheduler
<1> QED
  BY <1>1, <1>2, <1>3, <1>4, <1>5, <1>6, <1>7

\* Every step keeps what the last complete sweep has left.
LEMMA SweepStep ==
  ASSUME TypeInv, PathInv, SweepInv, [Next]_vars
  PROVE  SweepInv'
<1> USE DEF TypeInv, TypeOK, PathInv, Times
<1>1. AheadInv'
  BY AheadStep DEF SweepInv
<1>2. now \in Nat /\ now' \in Nat /\ swept \in Nat /\ now <= now'
  <2>1. now \in Nat /\ swept \in Nat
    OBVIOUS
  <2>2. now' = now \/ now' = now + 1
    BY DEF Next, vars, Tick, Upload, BeginMove, Crash, Restart, Rename, Wake, ReadFails, DeleteOld,
       Second, SweepEnds, Collect, FreeEnds, Finished, Look, Free, clock
  <2> QED
    BY <2>1, <2>2
<1>3. CASE swept' = swept
  <2>1. swept' <= now'
    BY <1>2, <1>3 DEF SweepInv
  <2>2. ASSUME NEW u \in Archived', since'[u] < swept' PROVE mtime'[u] + Retention >= swept'
    <3>1. since'[u] # now
      BY <1>2, <1>3, <2>2 DEF SweepInv
    <3>2. u \in Archived /\ since'[u] = since[u] /\ mtime'[u] = mtime[u]
      BY <2>2, <3>1, FiledStep
    <3> QED
      BY <1>3, <2>2, <3>2 DEF SweepInv, NothingOverstays
  <2> QED
    BY <1>1, <2>1, <2>2 DEF SweepInv, NothingOverstays
<1>4. CASE SweepEnds /\ ~ trouble
  <2>1. swept' = now /\ now' = now /\ UNCHANGED folders
    BY <1>4 DEF SweepEnds, clock
  <2>2. ASSUME NEW u \in Archived', since'[u] < now PROVE mtime'[u] + Retention >= now
    <3>1. u \in Archived /\ since[u] < now /\ mtime'[u] = mtime[u] /\ mtime[u] \in Nat
      BY <2>1, <2>2 DEF folders, Archived
    <3>2. ~ Ahead(u)
      BY <1>4 DEF SweepEnds, Ahead
    <3>3. ~ (mtime[u] < cutoff)
      BY <1>4, <3>1, <3>2 DEF SweepInv, AheadInv, SweepEnds
    <3>4. cutoff = IF now >= Retention THEN now - Retention ELSE 0
      BY <1>4 DEF SweepEnds, VictimInv
    <3> QED
      BY <1>2, <3>1, <3>3, <3>4
  <2> QED
    BY <1>1, <1>2, <2>1, <2>2 DEF SweepInv, NothingOverstays
<1>5. swept' = swept \/ (SweepEnds /\ ~ trouble)
  BY DEF Next, vars, Tick, Upload, BeginMove, Crash, Restart, Rename, Wake, ReadFails, DeleteOld,
     Second, SweepEnds, Collect, FreeEnds, Finished, Look, Free, scheduler
<1> QED
  BY <1>3, <1>4, <1>5

\* A sweep that is complete has left nothing that was too old when it began,
\* whatever was moved to the archive and deleted there while it worked.
THEOREM NothingIsLeft == Spec => []NothingOverstays
<1>1. TypeInv /\ PathInv /\ SweepInv /\ [Next]_vars => TypeInv' /\ PathInv' /\ SweepInv'
  BY TypeStep, PathStep, SweepStep
<1>2. SweepInv => NothingOverstays
  BY DEF SweepInv
<1> QED
  BY <1>1, <1>2, TypeInit, PathInit, SweepInit, PTL DEF Spec

-----------------------------------------------------------------------------
(* A sweep at every midnight. *)

\* The midnight that t follows, and the next one, which is a day later.
LEMMA Midnights ==
  ASSUME NEW t \in Nat
  PROVE  /\ Day * (t \div Day) \in Nat
         /\ Day * (t \div Day) <= t /\ t < Day * (t \div Day) + Day
         /\ NextMidnight(t) = Day * (t \div Day) + Day
<1>1. t \div Day \in Nat
  OBVIOUS
<1>2. t = Day * (t \div Day) + (t % Day) /\ t % Day < Day /\ t % Day \in Nat
  OBVIOUS
<1>3. Day * (t \div Day) \in Nat
  BY <1>1
<1> QED
  BY <1>1, <1>2, <1>3 DEF NextMidnight

\* Between two midnights there is no third one.
LEMMA MidnightBefore ==
  ASSUME NEW t \in Nat, NEW k \in Nat, Day * k <= t, t < Day * k + Day
  PROVE  Day * (t \div Day) = Day * k
<1> DEFINE q == t \div Day
<1>1. q \in Nat /\ Day * q <= t /\ t < Day * q + Day /\ Day * q \in Nat /\ Day * k \in Nat
  BY Midnights
<1>2. ASSUME NEW i \in Nat, NEW j \in Nat, i < j PROVE Day * i + Day <= Day * j
  <2>1. j - i - 1 \in Nat
    BY <1>2
  <2>2. Day * (j - i - 1) \in Nat
    BY <2>1
  <2>3. Day * (j - i - 1) = Day * j - Day * i - Day
    OBVIOUS
  <2> QED
    BY <2>2, <2>3
<1> HIDE DEF q
<1>3. ~ (q < k)
  BY <1>1, <1>2
<1>4. ~ (k < q)
  BY <1>1, <1>2
<1> QED
  BY <1>1, <1>3, <1>4 DEF q

\* The scheduler sleeps to a midnight at most a day away, and works at that
\* midnight; unless something has failed, it was at work a day before it wakes.
SleepInv ==
  /\ ~ up => trouble
  /\ up =>
       /\ \E k \in Nat : wake = Day * k
       /\ now <= wake /\ wake <= now + Day
       /\ sweep # "asleep" => wake = now
       /\ sweep = "asleep" /\ ~ trouble => wake = swept + Day

\* It holds when the process starts.
LEMMA SleepInit == Init => SleepInv
<1>1. 0 \div Day \in Nat /\ NextMidnight(0) = Day * ((0 \div Day) + 1)
  BY DEF NextMidnight
<1>2. NextMidnight(0) \in Nat /\ 0 <= NextMidnight(0) /\ NextMidnight(0) <= 0 + Day
  BY Midnights, MidnightFacts
<1> QED
  BY <1>1, <1>2 DEF Init, SleepInv

\* Falling asleep, the scheduler wakes at a midnight, at most a day later.
LEMMA FallsAsleep ==
  ASSUME NEW t \in Nat, NEW w, w = NextMidnight(t)
  PROVE  (\E k \in Nat : w = Day * k) /\ t <= w /\ w <= t + Day
<1>1. (t \div Day) + 1 \in Nat /\ w = Day * ((t \div Day) + 1)
  BY DEF NextMidnight
<1>2. \E k \in Nat : w = Day * k
  BY <1>1, Zenon
<1>3. w \in Nat /\ t <= w
  BY MidnightFacts
<1>4. w <= t + Day
  BY Midnights
<1> QED
  BY <1>2, <1>3, <1>4

\* Every step keeps the rhythm.
LEMMA SleepStep ==
  ASSUME TypeInv, PathInv, SleepInv, [Next]_vars
  PROVE  SleepInv'
<1> USE DEF TypeInv, TypeOK, Times
<1>0. now \in Nat /\ wake \in Nat /\ swept \in Nat
  OBVIOUS
<1>1. CASE Tick
  BY <1>0, <1>1 DEF Tick, SleepInv, scheduler
<1>2. CASE Crash
  BY <1>2 DEF Crash, SleepInv
<1>3. CASE Restart
  <2>1. trouble' /\ now' = now /\ wake' = NextMidnight(now) /\ sweep' = "asleep"
    BY <1>3 DEF Restart, SleepInv, PathInv, VictimInv
  <2> QED
    BY <1>0, <2>1, FallsAsleep DEF SleepInv
<1>4. CASE Wake
  BY <1>0, <1>4 DEF Wake, SleepInv, clock
<1>5. CASE ReadFails
  <2>1. trouble' /\ UNCHANGED clock /\ up /\ wake' = NextMidnight(now) /\ sweep' = "asleep"
    BY <1>5 DEF ReadFails, Sleeps
  <2> QED
    BY <1>0, <2>1, FallsAsleep DEF SleepInv, clock
<1>6. CASE SweepEnds
  <2>1. UNCHANGED <<clock, trouble>> /\ up /\ wake' = NextMidnight(now) /\ sweep' = "asleep"
        /\ wake = now /\ swept' = IF trouble THEN swept ELSE now
    BY <1>6 DEF SweepEnds, Sleeps, SleepInv
  <2>2. wake' = now + Day
    <3>1. PICK k \in Nat : now = Day * k
      BY <1>6, <2>1 DEF SleepInv
    <3>2. Day * (now \div Day) = Day * k
      BY <1>0, <3>1, MidnightBefore
    <3> QED
      BY <1>0, <2>1, <3>1, <3>2, Midnights
  <2>3. (\E k \in Nat : wake' = Day * k) /\ now <= wake' /\ wake' <= now + Day
    BY <1>0, <2>1, FallsAsleep
  <2>4. ~ trouble' => wake' = swept' + Day
    BY <2>1, <2>2
  <2> QED
    BY <2>1, <2>3, <2>4 DEF SleepInv, clock
<1>7. CASE DeleteOld
  <2>1. sweep # "asleep"
    BY <1>7 DEF DeleteOld, PathInv, VictimInv
  <2> QED
    BY <1>0, <1>7, <2>1 DEF DeleteOld, SleepInv, clock
<1>8. CASE Second \/ \E p \in todo : Look(p)
  BY <1>0, <1>8 DEF Second, Look, SleepInv, clock
<1>9. CASE UNCHANGED <<clock, wake, sweep, swept, trouble>>
  BY <1>0, <1>9 DEF SleepInv, clock
<1> QED
  BY <1>1, <1>2, <1>3, <1>4, <1>5, <1>6, <1>7, <1>8, <1>9
     DEF Next, vars, Upload, BeginMove, Rename, Look, Collect, Free, FreeEnds, Finished, scheduler

\* A scheduler that sleeps swept at the last midnight, whatever the length of a
\* day, unless something has failed or the process was down since.
THEOREM SweepsEveryNight == Spec => []SweptEachMidnight
<1>1. TypeInv /\ PathInv /\ SleepInv /\ [Next]_vars => TypeInv' /\ PathInv' /\ SleepInv'
  BY TypeStep, PathStep, SleepStep
<1>2. TypeInv /\ SleepInv => SweptEachMidnight
  <2> SUFFICES ASSUME TypeInv, SleepInv, up, sweep = "asleep", wake > now, ~ trouble
               PROVE  swept = Day * (now \div Day)
    BY DEF SweptEachMidnight
  <2>1. now \in Nat /\ swept \in Nat /\ wake = swept + Day /\ wake <= now + Day /\ now < wake
    BY DEF TypeInv, TypeOK, Times, SleepInv
  <2>2. PICK k \in Nat : wake = Day * k
    BY DEF SleepInv
  <2>3. k # 0
    BY <2>1, <2>2
  <2>4. k - 1 \in Nat /\ Day * (k - 1) = Day * k - Day
    BY <2>3
  <2>5. Day * (k - 1) = swept
    BY <2>1, <2>2, <2>4
  <2>6. Day * (now \div Day) = Day * (k - 1)
    <3>1. Day * (k - 1) <= now /\ now < Day * (k - 1) + Day
      BY <2>1, <2>5
    <3> QED
      BY <2>1, <2>4, <3>1, MidnightBefore
  <2> QED
    BY <2>5, <2>6
<1> QED
  BY <1>1, <1>2, TypeInit, PathInit, SleepInit, PTL DEF Spec

=============================================================================
