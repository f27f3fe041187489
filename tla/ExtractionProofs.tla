-------------------------- MODULE ExtractionProofs --------------------------
(***************************************************************************)
(* What becomes of the frames, for any number of videos, frames, attempts  *)
(* and processors.                                                         *)
(***************************************************************************)
EXTENDS Extraction, FiniteSetTheorems, FunctionTheorems, WellFoundedInduction, TLAPS

USE VideosAssumption, ExtractionBounds

Count == Cardinality(Videos)

\* The number of videos is a number.
LEMMA CountType == Count \in Nat
BY FS_CardinalityType DEF Count

\* An order is a sequence with a place for every video.
LEMMA OrderFacts ==
  ASSUME NEW o \in Orders
  PROVE  o \in Seq(Videos) /\ Len(o) = Count /\ \A v \in Videos : \E i \in 1 .. Count : o[i] = v
BY CountType DEF Orders, Count

-----------------------------------------------------------------------------
(* Types. *)

Working == {"extracting", "probing", "writing", "copying", "reconstructing"}

\* Nothing runs but while frames are extracted.
RestInv ==
  /\ step # "extracting" => flying = {} /\ broken = FALSE
  /\ step \in Working => order \in Orders
  /\ Len(cache) <= Count
  /\ step # "idle" => attempt >= 1

TypeInv == TypeOK /\ RestInv

\* The types hold when the process starts.
LEMMA TypeInit == Init => TypeInv
<1> SUFFICES ASSUME Init PROVE TypeInv
  OBVIOUS
<1>1. images \in [Slots -> (Videos \X (1 .. MaxFrames)) \union {None}]
  BY DEF Init
<1>2. Cardinality({}) = 0
  BY FS_EmptySet
<1>3. /\ order \in Seq(Videos) /\ started \in 0 .. Len(order) /\ DOMAIN metas = 1 .. Len(metas)
      /\ sets \in Seq(FrameSets) /\ cache \in Seq(FrameSets) /\ Len(sets) = 0 /\ Len(cache) = 0
      /\ started = 0 /\ flying = {} /\ step = "idle" /\ broken = FALSE
      /\ attempt \in 0 .. MaxAttempts
  BY DEF Init
<1>4. /\ flying \subseteq Videos /\ Cardinality(flying) <= cpus
      /\ Len(sets) + Cardinality(flying) <= started
  BY <1>2, <1>3 DEF Init
<1>5. RestInv
  BY <1>3, CountType DEF RestInv, Working
<1>6. /\ probe \in [Videos -> Probes] /\ rate \in Rates /\ cpus \in 1 .. MaxCpus
      /\ frames \in [Videos -> 1 .. MaxFrames] /\ step \in Steps /\ stage \in Stages
      /\ dirs \subseteq FrameSets /\ disturbed \in BOOLEAN
  BY DEF Init, Steps, Stages
<1> QED
  BY <1>1, <1>3, <1>4, <1>5, <1>6 DEF TypeInv, TypeOK

\* The end of an attempt has the types.
LEMMA EndTypes ==
  ASSUME TypeInv, step # "idle", NEW s \in {"idle", "done"}, Ends(s), UNCHANGED inputs,
         attempt' = attempt, stage' \in Stages, cache' = cache, dirs' \subseteq FrameSets,
         images' = images, disturbed' = disturbed
  PROVE  TypeInv'
<1>1. Cardinality({}) = 0
  BY FS_EmptySet
<1>2. /\ order' \in Seq(Videos) /\ started' \in 0 .. Len(order') /\ DOMAIN metas' = 1 .. Len(metas')
      /\ sets' \in Seq(FrameSets) /\ Len(sets') = 0 /\ flying' = {} /\ started' = 0 /\ broken' = FALSE
      /\ step' \in {"idle", "done"}
  BY DEF Ends
<1>3. Cardinality(flying') <= cpus' /\ Len(sets') + Cardinality(flying') <= started'
  BY <1>1, <1>2 DEF TypeInv, TypeOK, inputs
<1>4. RestInv'
  BY <1>2 DEF TypeInv, RestInv, Working, Count
<1> QED
  BY <1>2, <1>3, <1>4 DEF TypeInv, TypeOK, inputs, Steps

\* A copy has the types.
LEMMA CopyTypes ==
  ASSUME TypeOK, CopyFrames, step' = "reconstructing"
  PROVE  images' \in [Slots -> (Videos \X (1 .. MaxFrames)) \union {None}]
<1> DEFINE From(s) == { f \in (DOMAIN sets) \X (1 .. MaxFrames) :
                          f[2] <= frames[sets[f[1]][1]] /\ FileOf(f[1], f[2]) = s }
           Image(s) == IF From(s) = {} THEN images[s]
                       ELSE LET f == CHOOSE f \in From(s) : TRUE IN <<sets[f[1]][1], f[2]>>
<1>1. images' = [s \in Slots |-> Image(s)]
  BY DEF CopyFrames, Ends
<1>2. ASSUME NEW s \in Slots PROVE Image(s) \in (Videos \X (1 .. MaxFrames)) \union {None}
  <2>1. CASE From(s) = {}
    BY <2>1 DEF TypeOK
  <2>2. CASE From(s) # {}
    <3> DEFINE g == CHOOSE f \in From(s) : TRUE
    <3>1. g \in From(s)
      BY <2>2
    <3> HIDE DEF g
    <3>2. g[1] \in DOMAIN sets /\ g[2] \in 1 .. MaxFrames
      BY <3>1
    <3>3. sets[g[1]] \in FrameSets
      BY <3>2 DEF TypeOK
    <3>4. <<sets[g[1]][1], g[2]>> \in Videos \X (1 .. MaxFrames)
      BY <3>2, <3>3 DEF FrameSets
    <3> QED
      BY <2>2, <3>4 DEF g
  <2> QED
    BY <2>1, <2>2
<1> HIDE DEF Image
<1> QED
  BY <1>1, <1>2

\* Every step keeps the types.
LEMMA TypeStep == TypeInv /\ [Next]_vars => TypeInv'
<1> SUFFICES ASSUME TypeInv, [Next]_vars PROVE TypeInv'
  OBVIOUS
<1> USE CountType DEF TypeInv, TypeOK
<1>0. IsFiniteSet(flying) /\ Cardinality(flying) \in Nat /\ attempt \in Nat
  BY FS_Subset, FS_CardinalityType
<1>a. <<>> \in Seq(FrameSets) /\ Len(<<>>) = 0 /\ {} \subseteq FrameSets
  OBVIOUS
<1>1. CASE Attempt
  BY <1>0, <1>1 DEF Attempt, inputs, saved, local, RestInv, Steps, Working
<1>2. CASE Disturb
  <2>1. cache' \in Seq(FrameSets) /\ Len(cache') <= Count /\ dirs' \subseteq FrameSets /\ stage' \in Stages
    <3>1. cache' \in {cache, <<>>} /\ dirs' \in {dirs, {}} /\ stage' \in {stage, "validation"}
      BY <1>2 DEF Disturb
    <3>2. Len(cache) <= Count /\ "validation" \in Stages
      BY DEF RestInv, Stages
    <3>3. CASE cache' = cache
      BY <1>a, <3>1, <3>2, <3>3
    <3>4. CASE cache' = <<>>
      <4>1. cache' \in Seq(FrameSets) /\ Len(cache') <= Count
        BY ONLY <1>a, <3>4, CountType
      <4> QED
        BY <1>a, <3>1, <3>2, <4>1
    <3> QED
      BY <3>1, <3>3, <3>4
  <2> QED
    BY <1>2, <2>1 DEF Disturb, inputs, local, RestInv, Working, Count
<1>3. CASE Validate
  <2>1. CASE stage' = "frames" /\ step' = "finding" /\ UNCHANGED local
    BY <1>3, <2>1 DEF Validate, inputs, local, RestInv, Working, Stages, Steps
  <2>2. CASE Ends("idle") /\ stage' = stage
    BY <1>3, <2>2, EndTypes DEF Validate
  <2> QED
    BY <1>3, <2>1, <2>2 DEF Validate
<1>4. CASE Discover
  <2>1. order' \in Seq(Videos) /\ Len(order') = Count /\ order' \in Orders
    BY <1>4, OrderFacts DEF Discover
  <2>2. flying = {} /\ broken = FALSE /\ Cardinality(flying) = 0
    BY <1>4, FS_EmptySet DEF Discover, RestInv
  <2>3. /\ sets' \in Seq(FrameSets) /\ started' \in 0 .. Count /\ Len(sets') <= started'
        /\ step' \in {"probing", "extracting"}
    <3>1. \/ sets' = cache /\ started' = Count /\ step' = "probing"
          \/ sets' = <<>> /\ started' = 0 /\ step' = "extracting"
      BY <1>4 DEF Discover, Count
    <3>2. Len(cache) <= Count
      BY DEF RestInv
    <3>3. CASE sets' = cache /\ started' = Count /\ step' = "probing"
      BY <3>2, <3>3
    <3>4. CASE sets' = <<>> /\ started' = 0 /\ step' = "extracting"
      <4>1. sets' \in Seq(FrameSets) /\ Len(sets') = 0
        BY ONLY <1>a, <3>4
      <4> QED
        BY <3>4, <4>1
    <3> QED
      BY <3>1, <3>3, <3>4
  <2>4. UNCHANGED <<inputs, saved, flying, broken, metas, attempt, disturbed>>
    BY <1>4 DEF Discover
  <2>5. step = "finding"
    BY <1>4 DEF Discover
  <2>6. RestInv'
    <3>1. order' \in Orders' /\ Count' = Count
      BY <2>1 DEF Orders, Count
    <3> QED
      BY <2>1, <2>2, <2>3, <2>4, <2>5, <3>1 DEF RestInv, saved
  <2> QED
    BY <2>1, <2>2, <2>3, <2>4, <2>6 DEF inputs, saved, Steps
<1>5. CASE Extract
  <2>1. order[started + 1] \in Videos
    BY <1>5 DEF Extract
  <2>2. flying' \subseteq Videos /\ Cardinality(flying') <= Cardinality(flying) + 1 /\ Cardinality(flying') \in Nat
    <3>1. flying' = flying \union {order[started + 1]}
      BY <1>5 DEF Extract
    <3>2. Cardinality(flying') \in {Cardinality(flying), Cardinality(flying) + 1}
      BY <1>0, <3>1, FS_AddElement
    <3> QED
      BY <1>0, <2>1, <3>1, <3>2
  <2>3. started' = started + 1 /\ started < Len(order) /\ Cardinality(flying) < cpus /\ step = "extracting"
        /\ UNCHANGED <<probe, rate, cpus, frames, stage, cache, manifest, images, dirs, order, broken, sets,
                       metas, step, attempt, disturbed>>
    BY <1>5 DEF Extract, inputs, saved
  <2>4. started' \in 0 .. Len(order') /\ Len(sets') + Cardinality(flying') <= started'
        /\ Cardinality(flying') <= cpus'
    <3>1. Len(sets) \in Nat /\ Len(order) \in Nat /\ cpus \in Nat
      OBVIOUS
    <3> QED
      BY <1>0, <2>2, <2>3, <3>1
  <2>5. RestInv'
    BY <2>3 DEF RestInv, Working, Orders, Count
  <2> QED
    BY <2>2, <2>3, <2>4, <2>5
<1>6. ASSUME NEW v \in Videos, Extracted(v) PROVE TypeInv'
  <2>1. <<v, attempt>> \in FrameSets
    BY <1>0, <1>6 DEF Extracted, RestInv, FrameSets
  <2>2. flying' \subseteq Videos /\ Cardinality(flying') = Cardinality(flying) - 1
    BY <1>0, <1>6, FS_RemoveElement DEF Extracted
  <2>3. sets' \in Seq(FrameSets) /\ Len(sets') = Len(sets) + 1 /\ dirs' \subseteq FrameSets
    <3>1. sets \in Seq(FrameSets) /\ dirs \subseteq FrameSets
      OBVIOUS
    <3>2. sets' = Append(sets, <<v, attempt>>) /\ dirs' = dirs \union {<<v, attempt>>}
      BY <1>6 DEF Extracted
    <3>3. ASSUME NEW e \in FrameSets
          PROVE  Append(sets, e) \in Seq(FrameSets) /\ Len(Append(sets, e)) = Len(sets) + 1
      BY ONLY <3>1
    <3> QED
      BY ONLY <2>1, <3>1, <3>2, <3>3
  <2>4. step = "extracting"
        /\ UNCHANGED <<probe, rate, cpus, frames, stage, cache, manifest, images, started, order, broken,
                       metas, step, attempt, disturbed>>
    BY <1>6 DEF Extracted, inputs
  <2>5. Cardinality(flying') <= cpus' /\ Len(sets') + Cardinality(flying') <= started'
    <3>1. Len(sets) \in Nat /\ cpus \in Nat /\ started \in Nat
      OBVIOUS
    <3> QED
      BY <1>0, <2>2, <2>3, <2>4, <3>1
  <2>6. RestInv'
    BY <2>4 DEF RestInv, Working, Orders, Count
  <2> QED
    BY <2>2, <2>3, <2>4, <2>5, <2>6
<1>7. ASSUME NEW v \in Videos, ExtractionFails(v) PROVE TypeInv'
  <2>1. flying' \subseteq Videos /\ Cardinality(flying') = Cardinality(flying) - 1
    BY <1>0, <1>7, FS_RemoveElement DEF ExtractionFails
  <2>2. step = "extracting" /\ broken' = TRUE
        /\ UNCHANGED <<probe, rate, cpus, frames, stage, cache, manifest, images, dirs, started, order, sets,
                       metas, step, attempt, disturbed>>
    BY <1>7 DEF ExtractionFails, inputs, saved
  <2>3. Cardinality(flying') <= cpus' /\ Len(sets') + Cardinality(flying') <= started'
    <3>1. Len(sets) \in Nat /\ cpus \in Nat /\ started \in Nat
      OBVIOUS
    <3> QED
      BY <1>0, <2>1, <2>2, <3>1
  <2>4. RestInv'
    BY <2>2 DEF RestInv, Working, Orders, Count
  <2> QED
    BY <2>1, <2>2, <2>3, <2>4
<1>8. CASE Collect
  <2>1. CASE broken
    BY <1>8, <2>1, EndTypes DEF Collect, AllTaken
  <2>2. CASE ~ broken
    <3>1. Len(sets) <= Count
      BY <1>0, <1>8, OrderFacts DEF Collect, AllTaken, RestInv, Working
    <3> QED
      BY <1>8, <2>2, <3>1 DEF Collect, AllTaken, inputs, local, RestInv, Working, Stages, Steps, Count
  <2> QED
    BY <2>1, <2>2
<1>9. CASE Probe
  <2>1. DOMAIN order = 1 .. Len(order) /\ Len(order) \in Nat
    OBVIOUS
  <2>2. DOMAIN metas' = 1 .. Len(metas')
    BY <1>9, <2>1 DEF Probe
  <2> QED
    BY <1>9, <2>2 DEF Probe, inputs, RestInv, Working, Stages, Steps
<1>10. CASE ProbeFails
  BY <1>10, EndTypes DEF ProbeFails, saved
<1>11. CASE WriteManifest
  <2>1. CASE Len(metas) # Len(sets)
    BY <1>11, <2>1, EndTypes DEF WriteManifest
  <2>2. CASE Len(metas) = Len(sets)
    BY <1>11, <2>2 DEF WriteManifest, inputs, local, RestInv, Working, Stages, Steps
  <2> QED
    BY <2>1, <2>2
<1>12. CASE CopyFrames
  <2>1. CASE \A i \in DOMAIN sets : sets[i] \in dirs
    <3>1. step' = "reconstructing" /\ UNCHANGED local
      BY <1>12, <2>1 DEF CopyFrames
    <3> QED
      BY <1>12, <3>1, CopyTypes DEF CopyFrames, inputs, local, RestInv, Working, Steps
  <2>2. CASE ~ \A i \in DOMAIN sets : sets[i] \in dirs
    BY <1>12, <2>2, EndTypes DEF CopyFrames
  <2> QED
    BY <2>1, <2>2
<1>13. CASE Reconstruct
  BY <1>13, EndTypes DEF Reconstruct, saved
<1>14. CASE Finished \/ UNCHANGED vars
  BY <1>14 DEF Finished, vars, inputs, saved, local, RestInv
<1> QED
  BY <1>1, <1>2, <1>3, <1>4, <1>5, <1>6, <1>7, <1>8, <1>9, <1>10, <1>11, <1>12, <1>13, <1>14
  DEF Next

\* The types hold for any number of videos, attempts and processors.
THEOREM TypeCorrect == Spec => []TypeOK
<1>1. TypeInv => TypeOK
  BY DEF TypeInv
<1> QED
  BY <1>1, TypeInit, TypeStep, PTL DEF Spec

-----------------------------------------------------------------------------
(* The frame sets. *)

After == {"probing", "writing", "copying", "reconstructing"}

\* A frame set of every video.
Covers(s) == Len(s) = Count /\ \A v \in Videos : \E i \in DOMAIN s : s[i][1] = v

SetInv ==
  /\ cache # <<>> => Covers(cache)
  /\ step = "extracting" /\ ~ broken =>
       \A j \in 1 .. started : order[j] \in flying \/ \E i \in DOMAIN sets : sets[i][1] = order[j]
  /\ step \in After => Covers(sets)
  /\ step \in {"extracting", "probing", "writing", "copying"} =>
       \A i \in DOMAIN sets : sets[i] \in dirs

\* As many frame sets as videos, one of each: then no video has two.
LEMMA OnePerVideo ==
  ASSUME NEW s \in Seq(FrameSets), Len(s) <= Count,
         \A v \in Videos : \E i \in DOMAIN s : s[i][1] = v
  PROVE  /\ Len(s) = Count
         /\ \A i, j \in DOMAIN s : s[i][1] = s[j][1] => i = j
<1> DEFINE D == 1 .. Len(s)
           f == [i \in D |-> s[i][1]]
<1>1. D = DOMAIN s /\ Len(s) \in Nat
  OBVIOUS
<1>2. f \in [D -> Videos]
  BY <1>1 DEF FrameSets
<1>3. f \in Surjection(D, Videos)
  BY <1>1, <1>2, Fun_IsSurj
<1>4. IsFiniteSet(D) /\ Cardinality(D) = Len(s)
  <2>1. 1 \in Int /\ Len(s) \in Int
    BY <1>1
  <2>2. IsFiniteSet(D) /\ Cardinality(D) = IF 1 > Len(s) THEN 0 ELSE Len(s) - 1 + 1
    BY <2>1, FS_Interval
  <2> QED
    BY ONLY <1>1, <2>2
<1>5. Count <= Len(s) /\ (Count = Len(s) <=> f \in Injection(D, Videos))
  BY <1>3, <1>4, FS_Surjection DEF Count
<1>6. Len(s) = Count
  BY <1>1, <1>5, CountType
<1>7. f \in Injection(D, Videos)
  BY <1>5, <1>6
<1>8. \A a, b \in D : f[a] = f[b] => a = b
  BY <1>7, Fun_InjectionProperties
<1> QED
  BY <1>1, <1>6, <1>8

\* What an extraction adds.
LEMMA Appended ==
  ASSUME TypeInv, NEW v \in Videos, Extracted(v)
  PROVE  /\ DOMAIN sets' = DOMAIN sets \union {Len(sets) + 1}
         /\ \A i \in DOMAIN sets : sets'[i] = sets[i]
         /\ sets'[Len(sets) + 1] = <<v, attempt>>
         /\ Len(sets') = Len(sets) + 1
<1>1. sets \in Seq(FrameSets) /\ attempt \in 1 .. MaxAttempts
  BY DEF Extracted, TypeInv, TypeOK, RestInv
<1>2. <<v, attempt>> \in FrameSets
  BY <1>1 DEF FrameSets
<1>3. sets' = Append(sets, <<v, attempt>>)
  BY DEF Extracted
<1>4. ASSUME NEW e \in FrameSets
      PROVE  /\ DOMAIN Append(sets, e) = DOMAIN sets \union {Len(sets) + 1}
             /\ \A i \in DOMAIN sets : Append(sets, e)[i] = sets[i]
             /\ Append(sets, e)[Len(sets) + 1] = e
             /\ Len(Append(sets, e)) = Len(sets) + 1
  BY ONLY <1>1
<1> QED
  BY ONLY <1>2, <1>3, <1>4

\* There are no frame sets when the process starts.
LEMMA SetInit == Init => SetInv
BY DEF Init, SetInv, After

\* Every step keeps what is known of the frame sets.
LEMMA SetStep == TypeInv /\ SetInv /\ [Next]_vars => SetInv'
<1> SUFFICES ASSUME TypeInv, SetInv, [Next]_vars PROVE SetInv'
  OBVIOUS
<1> USE CountType
<1>e. ASSUME NEW s \in {"idle", "done"}, Ends(s), cache' = cache PROVE SetInv'
  BY <1>e DEF Ends, SetInv, After, Covers, Count
<1>1. CASE Attempt
  BY <1>1 DEF Attempt, saved, local, SetInv, After, Covers, Count
<1>2. CASE Disturb
  BY <1>2 DEF Disturb, local, SetInv, After, Covers, Count
<1>3. CASE Validate
  <2>1. CASE step' = "finding" /\ UNCHANGED local
    BY <1>3, <2>1 DEF Validate, local, SetInv, After, Covers, Count
  <2> QED
    BY <1>3, <1>e, <2>1 DEF Validate
<1>4. CASE Discover
  <2>1. CASE sets' = cache /\ step' = "probing" /\ CacheValid
    BY <1>4, <2>1 DEF Discover, CacheValid, saved, SetInv, After, Covers, Count
  <2>2. CASE sets' = <<>> /\ started' = 0 /\ step' = "extracting"
    BY <1>4, <2>2 DEF Discover, saved, SetInv, After, Covers, Count
  <2> QED
    BY <1>4, <2>1, <2>2 DEF Discover
<1>5. CASE Extract
  <2>1. started \in Nat
    BY DEF TypeInv, TypeOK
  <2>2. ASSUME ~ broken', NEW j \in 1 .. started'
        PROVE  order'[j] \in flying' \/ \E i \in DOMAIN sets' : sets'[i][1] = order'[j]
    <3>1. CASE j = started + 1
      BY <1>5, <3>1 DEF Extract
    <3>2. CASE j \in 1 .. started
      BY <1>5, <2>2, <3>2 DEF Extract, SetInv
    <3> QED
      BY <1>5, <2>1, <3>1, <3>2 DEF Extract
  <2> QED
    BY <1>5, <2>2 DEF Extract, saved, SetInv, After, Covers, Count
<1>6. ASSUME NEW v \in Videos, Extracted(v) PROVE SetInv'
  <2>1. /\ DOMAIN sets' = DOMAIN sets \union {Len(sets) + 1}
        /\ \A i \in DOMAIN sets : sets'[i] = sets[i] /\ sets[i] \in dirs
        /\ sets'[Len(sets) + 1] = <<v, attempt>>
    BY <1>6, Appended DEF Extracted, SetInv
  <2>2. ASSUME ~ broken', NEW j \in 1 .. started'
        PROVE  order'[j] \in flying' \/ \E i \in DOMAIN sets' : sets'[i][1] = order'[j]
    <3>1. order'[j] \in flying \/ \E i \in DOMAIN sets : sets[i][1] = order'[j]
      BY <1>6, <2>2 DEF Extracted, SetInv
    <3>2. CASE order'[j] = v
      BY <2>1, <3>2
    <3>3. CASE order'[j] \in flying /\ order'[j] # v
      BY <1>6, <3>3 DEF Extracted
    <3>4. CASE \E i \in DOMAIN sets : sets[i][1] = order'[j]
      BY <2>1, <3>4
    <3> QED
      BY <3>1, <3>2, <3>3, <3>4
  <2>3. \A i \in DOMAIN sets' : sets'[i] \in dirs'
    BY <1>6, <2>1 DEF Extracted
  <2>4. step' = "extracting" /\ cache' = cache
    BY <1>6 DEF Extracted
  <2> QED
    BY <2>2, <2>3, <2>4 DEF SetInv, After, Covers, Count
<1>7. ASSUME NEW v \in Videos, ExtractionFails(v) PROVE SetInv'
  BY <1>7 DEF ExtractionFails, saved, SetInv, After, Covers, Count
<1>8. CASE Collect
  <2>1. CASE broken
    BY <1>8, <1>e, <2>1 DEF Collect
  <2>2. CASE ~ broken
    <3>1. order \in Orders /\ started = Len(order) /\ flying = {} /\ step = "extracting"
      BY <1>8 DEF Collect, AllTaken, TypeInv, RestInv, Working
    <3>2. \A v \in Videos : \E i \in DOMAIN sets : sets[i][1] = v
      BY <2>2, <3>1, OrderFacts DEF SetInv
    <3>3. Len(sets) <= Count /\ sets \in Seq(FrameSets)
      BY <3>1, OrderFacts, FS_EmptySet DEF TypeInv, TypeOK
    <3>4. Covers(sets)
      BY <3>2, <3>3, OnePerVideo DEF Covers
    <3>5. step' = "probing" /\ cache' = sets /\ sets' = sets /\ dirs' = dirs
      BY <1>8, <2>2 DEF Collect, local
    <3> QED
      BY <3>1, <3>4, <3>5 DEF SetInv, After, Covers, Count
  <2> QED
    BY <2>1, <2>2
<1>9. CASE Probe
  <2>1. step = "probing" /\ step' \in {"writing", "copying"} /\ UNCHANGED <<cache, sets, dirs>>
    BY <1>9 DEF Probe
  <2> QED
    BY <2>1 DEF SetInv, After, Covers, Count
<1>10. CASE ProbeFails
  BY <1>10, <1>e DEF ProbeFails, saved
<1>11. CASE WriteManifest
  <2>1. CASE step' = "copying" /\ UNCHANGED local
    BY <1>11, <2>1 DEF WriteManifest, local, SetInv, After, Covers, Count
  <2> QED
    BY <1>11, <1>e, <2>1 DEF WriteManifest
<1>12. CASE CopyFrames
  <2>1. CASE step' = "reconstructing" /\ UNCHANGED local
    BY <1>12, <2>1 DEF CopyFrames, local, SetInv, After, Covers, Count
  <2> QED
    BY <1>12, <1>e, <2>1 DEF CopyFrames
<1>13. CASE Reconstruct
  BY <1>13, <1>e DEF Reconstruct, saved
<1>14. CASE Finished \/ UNCHANGED vars
  BY <1>14 DEF Finished, vars, saved, local, SetInv, After, Covers, Count
<1> QED
  BY <1>1, <1>2, <1>3, <1>4, <1>5, <1>6, <1>7, <1>8, <1>9, <1>10, <1>11, <1>12, <1>13, <1>14
  DEF Next

\* Extraction is all or nothing, for any number of videos, processors and
\* attempts.
THEOREM AllVideos == Spec => []EveryVideoOnce
<1>1. SetInv => EveryVideoOnce
  BY DEF SetInv, EveryVideoOnce, After, Covers, Count
<1> QED
  BY <1>1, TypeInit, TypeStep, SetInit, SetStep, PTL DEF Spec

\* What is to be copied is there.
THEOREM DirectoriesStay == Spec => []FramesStay
<1>1. SetInv => FramesStay
  BY DEF SetInv, FramesStay
<1> QED
  BY <1>1, TypeInit, TypeStep, SetInit, SetStep, PTL DEF Spec

-----------------------------------------------------------------------------
(* The copies. *)

Later == {"metadata", "manifest", "colmap"}

\* Slot <<i, k>> of the folder belongs to the k-th frame of set i.
Belongs(s, t) == t[1] \in DOMAIN s /\ t[2] <= frames[s[t[1]][1]]

\* A folder that holds the frames of the sets and nothing else.
Copied(s) ==
  \A t \in Slots : images[t] = IF Belongs(s, t) THEN <<s[t[1]][1], t[2]>> ELSE None

Empty == \A t \in Slots : images[t] = None

CopyInv ==
  step = "reconstructing" =>
    \A t \in Slots : Belongs(sets, t) => images[t] = <<sets[t[1]][1], t[2]>>

\* As long as nothing is lost between the attempts, they work with the frame
\* sets that the first extraction left behind.
KeptInv ==
  ~ disturbed =>
    /\ stage \in {"validation", "frames"} => cache = <<>> /\ Empty
    /\ stage \in Later => CacheValid
    /\ Empty \/ Copied(cache)
    /\ step = "validating" => stage = "validation"
    /\ step = "finding" => stage # "validation"
    /\ step = "extracting" => stage = "frames"
    /\ step \in After => stage \in Later /\ sets = cache
    /\ step = "reconstructing" => Copied(sets)

\* What a copy leaves in the folder.
LEMMA CopyEffect ==
  ASSUME CopyFrames, step' = "reconstructing", NEW t \in Slots
  PROVE  images'[t] = IF Belongs(sets, t) THEN <<sets[t[1]][1], t[2]>> ELSE images[t]
<1> DEFINE From(s) == { f \in (DOMAIN sets) \X (1 .. MaxFrames) :
                          f[2] <= frames[sets[f[1]][1]] /\ FileOf(f[1], f[2]) = s }
           Image(s) == IF From(s) = {} THEN images[s]
                       ELSE LET f == CHOOSE f \in From(s) : TRUE IN <<sets[f[1]][1], f[2]>>
<1>1. images' = [s \in Slots |-> Image(s)]
  BY DEF CopyFrames, Ends
<1>2. t[2] \in 1 .. MaxFrames /\ t = <<t[1], t[2]>>
  BY DEF Slots
<1>3. \A f \in From(t) : f[1] = t[1] /\ f[2] = t[2]
  BY <1>2 DEF FileOf
<1>4. CASE Belongs(sets, t)
  <2>1. <<t[1], t[2]>> \in From(t)
    BY <1>2, <1>4 DEF Belongs, FileOf
  <2> DEFINE g == CHOOSE f \in From(t) : TRUE
  <2>2. g \in From(t)
    BY <2>1
  <2> HIDE DEF g
  <2>3. g[1] = t[1] /\ g[2] = t[2]
    BY <1>3, <2>2
  <2>4. Image(t) = <<sets[g[1]][1], g[2]>>
    BY <2>1 DEF g
  <2> HIDE DEF From, Image
  <2> QED
    BY <1>1, <1>4, <2>3, <2>4
<1>5. CASE ~ Belongs(sets, t)
  <2>1. From(t) = {}
    BY <1>3, <1>5 DEF Belongs
  <2>2. Image(t) = images[t]
    BY <2>1
  <2> HIDE DEF From, Image
  <2> QED
    BY <1>1, <1>5, <2>2
<1> QED
  BY <1>4, <1>5

\* Nothing is copied when the process starts.
LEMMA KeptInit == Init => CopyInv /\ KeptInv
<1> SUFFICES ASSUME Init PROVE CopyInv /\ KeptInv
  OBVIOUS
<1>1. Empty /\ step = "idle" /\ stage = "validation" /\ cache = <<>>
  BY DEF Init, Empty
<1> QED
  BY <1>1 DEF CopyInv, KeptInv, Later, After

\* Every step keeps what is known of the copies.
LEMMA KeptStep ==
  TypeInv /\ SetInv /\ CopyInv /\ KeptInv /\ [Next]_vars => CopyInv' /\ KeptInv'
<1> SUFFICES ASSUME TypeInv, SetInv, CopyInv, KeptInv, [Next]_vars PROVE CopyInv' /\ KeptInv'
  OBVIOUS
<1>f. ASSUME images' = images, UNCHANGED inputs
      PROVE  /\ Empty' = Empty
             /\ sets' = sets => Copied(sets)' = Copied(sets)
             /\ cache' = cache => Copied(cache)' = Copied(cache)
  BY <1>f DEF Empty, Copied, Belongs, Slots, inputs
<1>e. ASSUME step # "idle", step # "extracting" \/ broken, step # "finding",
             NEW s \in {"idle", "done"}, Ends(s), UNCHANGED <<inputs, saved, disturbed>>
      PROVE  CopyInv' /\ KeptInv'
  <2>1. step' \in {"idle", "done"} /\ UNCHANGED <<stage, cache, images, dirs, disturbed>>
    BY <1>e DEF Ends, saved
  <2> QED
    BY <1>e, <1>f, <2>1 DEF CopyInv, KeptInv, CacheValid, After
<1>1. CASE Attempt
  <2>1. UNCHANGED <<inputs, stage, cache, images, dirs, disturbed, sets>>
        /\ step' = IF stage = "validation" THEN "validating" ELSE "finding"
    BY <1>1 DEF Attempt, saved, local
  <2> QED
    BY <1>f, <2>1 DEF CopyInv, KeptInv, CacheValid, After
<1>2. CASE Disturb
  BY <1>2 DEF Disturb, local, CopyInv, KeptInv
<1>3. CASE Validate
  <2>1. CASE stage' = "frames" /\ step' = "finding" /\ UNCHANGED local
    <3>1. step = "validating" /\ UNCHANGED <<inputs, cache, images, dirs, disturbed, sets>>
      BY <1>3, <2>1 DEF Validate, local
    <3> QED
      BY <1>f, <2>1, <3>1 DEF CopyInv, KeptInv, CacheValid, After, Later
  <2>2. CASE Ends("idle") /\ stage' = stage
    BY <1>3, <1>e, <2>2 DEF Validate, saved
  <2> QED
    BY <1>3, <2>1, <2>2 DEF Validate
<1>4. CASE Discover
  <2>1. step = "finding" /\ UNCHANGED <<inputs, stage, cache, images, dirs, disturbed>>
    BY <1>4 DEF Discover, saved
  <2>2. CASE stage # "frames" /\ CacheValid /\ sets' = cache /\ step' = "probing"
    <3>1. ~ disturbed => stage \in Later
      BY <2>1, <2>2 DEF KeptInv, TypeInv, TypeOK, Stages, Later
    <3> QED
      BY <1>f, <2>1, <2>2, <3>1 DEF CopyInv, KeptInv, CacheValid, After
  <2>3. CASE ~ (stage # "frames" /\ CacheValid) /\ step' = "extracting"
    <3>1. ~ disturbed => stage = "frames"
      BY <2>1, <2>3 DEF KeptInv, TypeInv, TypeOK, Stages, Later
    <3> QED
      BY <1>f, <2>1, <2>3, <3>1 DEF CopyInv, KeptInv, CacheValid, After
  <2> QED
    BY <1>4, <2>2, <2>3 DEF Discover
<1>5. CASE Extract
  <2>1. step = "extracting" /\ UNCHANGED <<inputs, step, stage, cache, images, dirs, disturbed, sets>>
    BY <1>5 DEF Extract, saved
  <2> QED
    BY <1>f, <2>1 DEF CopyInv, KeptInv, CacheValid, After
<1>6. ASSUME NEW v \in Videos, Extracted(v) PROVE CopyInv' /\ KeptInv'
  <2>1. step = "extracting" /\ UNCHANGED <<inputs, step, stage, cache, images, disturbed>>
        /\ dirs \subseteq dirs'
    BY <1>6 DEF Extracted
  <2>2. CacheValid => CacheValid'
    BY <2>1 DEF CacheValid
  <2> QED
    BY <1>f, <2>1, <2>2 DEF CopyInv, KeptInv, After
<1>7. ASSUME NEW v \in Videos, ExtractionFails(v) PROVE CopyInv' /\ KeptInv'
  <2>1. step = "extracting" /\ UNCHANGED <<inputs, step, stage, cache, images, dirs, disturbed, sets>>
    BY <1>7 DEF ExtractionFails, saved
  <2> QED
    BY <1>f, <2>1 DEF CopyInv, KeptInv, CacheValid, After
<1>8. CASE Collect
  <2>1. step = "extracting" /\ UNCHANGED <<inputs, manifest, images, dirs, attempt, disturbed>>
    BY <1>8 DEF Collect, AllTaken
  <2>2. CASE broken
    BY <1>8, <1>e, <2>1, <2>2 DEF Collect, saved
  <2>3. CASE ~ broken
    <3>1. /\ step' = "probing" /\ cache' = sets /\ sets' = sets
          /\ stage' = IF stage = "frames" THEN "metadata" ELSE stage
      BY <1>8, <2>3 DEF Collect, local
    <3>2. SetInv'
      BY SetStep
    <3>3. Covers(sets)' /\ sets' \in Seq(FrameSets) /\ Count' \in Nat \ {0}
      BY <3>1, <3>2, TypeStep, CountType, FS_EmptySet DEF SetInv, After, TypeInv, TypeOK, Count, FrameSets
    <3>4. sets' # <<>>
      BY <3>3 DEF Covers
    <3>5. CacheValid'
      BY <2>1, <3>1, <3>4 DEF CacheValid, SetInv
    <3> QED
      BY <1>f, <2>1, <3>1, <3>5 DEF CopyInv, KeptInv, After, Later
  <2> QED
    BY <2>2, <2>3
<1>9. CASE Probe
  <2>1. /\ step = "probing" /\ step' \in {"writing", "copying"}
        /\ stage' \in {stage, "manifest"} /\ (stage' = stage \/ stage = "metadata")
        /\ UNCHANGED <<inputs, cache, images, dirs, disturbed, sets>>
    BY <1>9 DEF Probe
  <2> QED
    BY <1>f, <2>1 DEF CopyInv, KeptInv, CacheValid, After, Later
<1>10. CASE ProbeFails
  BY <1>10, <1>e DEF ProbeFails
<1>11. CASE WriteManifest
  <2>1. step = "writing" /\ UNCHANGED <<inputs, cache, images, dirs, disturbed>>
    BY <1>11 DEF WriteManifest
  <2>2. CASE step' = "copying" /\ stage' = "colmap" /\ sets' = sets
    BY <1>f, <2>1, <2>2 DEF CopyInv, KeptInv, CacheValid, After, Later
  <2>3. CASE Ends("idle") /\ UNCHANGED <<stage, manifest>>
    BY <1>e, <2>1, <2>3 DEF saved
  <2> QED
    BY <1>11, <2>2, <2>3 DEF WriteManifest, local
<1>12. CASE CopyFrames
  <2>1. step = "copying" /\ UNCHANGED <<inputs, stage, cache, manifest, dirs, disturbed>>
    BY <1>12 DEF CopyFrames
  <2>2. CASE step' = "reconstructing" /\ sets' = sets
    <3>1. ASSUME NEW t \in Slots
          PROVE  images'[t] = IF Belongs(sets, t) THEN <<sets[t[1]][1], t[2]>> ELSE images[t]
      BY <1>12, <2>2, CopyEffect
    <3>2. ASSUME NEW t \in Slots PROVE Belongs(sets, t)' <=> Belongs(sets, t)
      BY <2>1, <2>2 DEF Belongs, inputs
    <3>3. CopyInv'
      BY <2>2, <3>1, <3>2 DEF CopyInv, Slots, Belongs
    <3>4. ASSUME ~ disturbed PROVE Copied(sets)' /\ sets' = cache' /\ stage' \in Later
      <4>1. sets = cache /\ stage \in Later /\ (Empty \/ Copied(sets))
        BY <2>1, <3>4 DEF KeptInv, After
      <4>2. ASSUME NEW t \in Slots, ~ Belongs(sets, t) PROVE images[t] = None
        BY <4>1, <4>2 DEF Empty, Copied
      <4>3. Copied(sets)'
        BY <2>1, <2>2, <3>1, <4>2 DEF Copied, Slots, Belongs, inputs
      <4> QED
        BY <2>1, <2>2, <4>1, <4>3
    <3>5. CacheValid' = CacheValid
      BY <2>1 DEF CacheValid
    <3>6. Copied(sets)' /\ sets' = cache' => Copied(cache)'
      BY DEF Copied, Belongs
    <3>7. KeptInv'
      BY <2>1, <2>2, <3>4, <3>5, <3>6 DEF KeptInv, After, Later
    <3> QED
      BY <3>3, <3>7
  <2>3. CASE Ends("idle") /\ images' = images
    BY <1>e, <2>1, <2>3 DEF saved
  <2> QED
    BY <1>12, <2>2, <2>3 DEF CopyFrames, local
<1>13. CASE Reconstruct
  BY <1>13, <1>e DEF Reconstruct
<1>14. CASE Finished \/ UNCHANGED vars
  <2>1. UNCHANGED <<inputs, step, stage, cache, images, dirs, disturbed, sets>>
    BY <1>14 DEF Finished, vars, saved, local
  <2>2. CopyInv'
    BY <2>1 DEF CopyInv, Slots, Belongs, inputs
  <2> QED
    BY <1>f, <2>1, <2>2 DEF KeptInv, CacheValid
<1> QED
  BY <1>1, <1>2, <1>3, <1>4, <1>5, <1>6, <1>7, <1>8, <1>9, <1>10, <1>11, <1>12, <1>13, <1>14
  DEF Next

\* A frame has the slot of its set, and no other if nothing was lost.
LEMMA OneCopy == TypeInv /\ SetInv /\ CopyInv /\ KeptInv => EveryFrameOnce
<1> SUFFICES ASSUME TypeInv, SetInv, CopyInv, KeptInv, step = "reconstructing",
                    NEW v \in Videos, NEW k \in 1 .. frames[v]
             PROVE  Copies(v, k) # {} /\ (~ disturbed => Cardinality(Copies(v, k)) = 1)
  BY DEF EveryFrameOnce
<1>1. Covers(sets) /\ sets \in Seq(FrameSets) /\ Count \in Nat
  BY CountType DEF SetInv, After, TypeInv, TypeOK
<1>2. PICK i \in DOMAIN sets : sets[i][1] = v
  BY <1>1 DEF Covers
<1>3. k \in 1 .. MaxFrames
  BY DEF TypeInv, TypeOK
<1>4. i \in 1 .. Count
  BY <1>1 DEF Covers
<1>5. <<i, k>> \in Slots
  BY <1>3, <1>4 DEF Slots, Count
<1>6. Belongs(sets, <<i, k>>)
  BY <1>2 DEF Belongs
<1>7. images[<<i, k>>] = <<v, k>>
  BY <1>2, <1>5, <1>6 DEF CopyInv
<1>8. <<i, k>> \in Copies(v, k)
  BY <1>5, <1>7 DEF Copies
<1>9. ASSUME ~ disturbed, NEW t \in Copies(v, k) PROVE t = <<i, k>>
  <2>1. t \in Slots /\ images[t] = <<v, k>> /\ t = <<t[1], t[2]>>
    BY <1>9 DEF Copies, Slots
  <2>2. images[t] # None
    BY <1>3, <2>1, NoneAssumption
  <2>3. Belongs(sets, t) /\ images[t] = <<sets[t[1]][1], t[2]>>
    BY <1>9, <2>1, <2>2 DEF KeptInv, Copied
  <2>4. t[1] \in DOMAIN sets /\ sets[t[1]][1] = v /\ t[2] = k
    BY <2>1, <2>3 DEF Belongs
  <2>5. Len(sets) <= Count /\ \A w \in Videos : \E j \in DOMAIN sets : sets[j][1] = w
    BY <1>1 DEF Covers
  <2>6. t[1] = i
    BY <1>1, <1>2, <2>4, <2>5, OnePerVideo
  <2> QED
    BY <2>1, <2>4, <2>6
<1>10. ~ disturbed => Copies(v, k) = {<<i, k>>}
  BY <1>8, <1>9
<1> QED
  BY <1>8, <1>10, FS_Singleton

\* Every frame of every video goes to the reconstruction once, in a retry too.
THEOREM FramesOnce == Spec => []EveryFrameOnce
BY TypeInit, TypeStep, SetInit, SetStep, KeptInit, KeptStep, OneCopy, PTL DEF Spec

-----------------------------------------------------------------------------
(* The manifest. *)

\* Every frame set of the cache is of an earlier attempt, or of this one.
AgeInv ==
  /\ \A i \in DOMAIN cache : cache[i][2] <= attempt
  /\ step \in {"validating", "finding"} => \A i \in DOMAIN cache : cache[i][2] < attempt
  /\ step = "extracting" => \A i \in DOMAIN sets : sets[i][2] = attempt

\* One processor runs one extraction after the other.
OrderInv ==
  cpus = 1 =>
    /\ step = "extracting" /\ ~ broken =>
         /\ \A i \in DOMAIN sets : sets[i] = <<order[i], attempt>>
         /\ \/ flying = {} /\ started = Len(sets)
            \/ flying = {order[started]} /\ started = Len(sets) + 1
    /\ step \in After => \A i \in DOMAIN sets : sets[i][2] = attempt => sets[i][1] = order[i]

MetaInv == step = "writing" => metas = [i \in DOMAIN order |-> Metadata(probe[order[i]])]

\* What an entry of a manifest says.
EntryTrue(e, m) ==
  /\ cpus = 1 /\ e.since = m.written => e.framesOf = e.video
  /\ e.offsets = [k \in 1 .. frames[e.framesOf] |-> Offset(k, Metadata(probe[e.video]))]

EntriesTrue == manifest # None => \A i \in DOMAIN manifest.entries : EntryTrue(manifest.entries[i], manifest)

ManInv == AgeInv /\ OrderInv /\ MetaInv /\ EntriesTrue

\* There is no manifest when the process starts.
LEMMA ManInit == Init => ManInv
BY DEF Init, ManInv, AgeInv, OrderInv, MetaInv, EntriesTrue, After

\* The frame sets of an attempt are not younger than the attempt.
LEMMA AgeStep == TypeInv /\ AgeInv /\ [Next]_vars => AgeInv'
<1> SUFFICES ASSUME TypeInv, AgeInv, [Next]_vars PROVE AgeInv'
  OBVIOUS
<1>1. ASSUME UNCHANGED <<cache, attempt>>, step' # "extracting",
             step' \in {"validating", "finding"} => step \in {"validating", "finding"}
      PROVE  AgeInv'
  BY <1>1 DEF AgeInv
<1>2. CASE Attempt
  <2>1. attempt \in Nat /\ \A i \in DOMAIN cache : cache[i][2] \in Nat
    BY DEF TypeInv, TypeOK, FrameSets
  <2> QED
    BY <1>2, <2>1 DEF Attempt, saved, AgeInv
<1>3. CASE Disturb
  <2>1. cache' = cache \/ cache' = <<>>
    BY <1>3 DEF Disturb, saved
  <2> QED
    BY <1>3, <2>1 DEF Disturb, AgeInv
<1>4. CASE Discover
  <2>1. CASE step' = "probing"
    BY <1>1, <1>4, <2>1 DEF Discover, saved
  <2>2. CASE step' = "extracting" /\ sets' = <<>>
    BY <1>4, <2>2 DEF Discover, saved, AgeInv
  <2> QED
    BY <1>4, <2>1, <2>2 DEF Discover
<1>5. CASE Extract
  BY <1>5 DEF Extract, saved, AgeInv
<1>6. ASSUME NEW v \in Videos, Extracted(v) PROVE AgeInv'
  <2>1. \A i \in DOMAIN sets' : sets'[i][2] = attempt
    BY <1>6, Appended DEF Extracted, AgeInv
  <2> QED
    BY <1>6, <2>1 DEF Extracted, AgeInv
<1>7. ASSUME NEW v \in Videos, ExtractionFails(v) PROVE AgeInv'
  BY <1>7 DEF ExtractionFails, saved, AgeInv
<1>8. CASE Collect
  <2>1. CASE broken
    BY <1>1, <1>8, <2>1 DEF Collect, Ends
  <2>2. CASE ~ broken
    <3>1. \A i \in DOMAIN sets : sets[i][2] = attempt
      BY <1>8, <2>2 DEF Collect, AllTaken, AgeInv
    <3>2. attempt \in Nat /\ cache' = sets /\ attempt' = attempt /\ step' = "probing"
      BY <1>8, <2>2 DEF Collect, TypeInv, TypeOK
    <3> QED
      BY <3>1, <3>2 DEF AgeInv
  <2> QED
    BY <2>1, <2>2
<1>9. CASE Validate \/ Probe \/ ProbeFails \/ WriteManifest \/ CopyFrames \/ Reconstruct
  BY <1>1, <1>9 DEF Validate, Probe, ProbeFails, WriteManifest, CopyFrames, Reconstruct, Ends, saved
<1>10. CASE Finished \/ UNCHANGED vars
  BY <1>10 DEF Finished, vars, saved, local, AgeInv
<1> QED
  BY <1>2, <1>3, <1>4, <1>5, <1>6, <1>7, <1>8, <1>9, <1>10 DEF Next

\* One processor keeps the order.
LEMMA OrderStep == TypeInv /\ AgeInv /\ OrderInv /\ [Next]_vars => OrderInv'
<1> SUFFICES ASSUME TypeInv, AgeInv, OrderInv, [Next]_vars, cpus' = 1 PROVE OrderInv'
  BY DEF OrderInv
<1>0. cpus = 1 /\ cpus' = cpus
  BY DEF Next, Attempt, Disturb, Validate, Discover, Extract, Extracted, ExtractionFails, Collect, Probe,
         ProbeFails, WriteManifest, CopyFrames, Reconstruct, Finished, vars, inputs
<1>1. ASSUME step' \notin After, step' # "extracting" PROVE OrderInv'
  BY <1>1 DEF OrderInv
<1>2. ASSUME step \in After, step' \in After, UNCHANGED <<sets, order, attempt>> PROVE OrderInv'
  BY <1>0, <1>2 DEF OrderInv, After
<1>3. CASE Discover
  <2>1. CASE sets' = cache /\ step' = "probing"
    <3>1. \A i \in DOMAIN sets' : sets'[i][2] < attempt /\ sets'[i][2] \in Nat
      BY <1>3, <2>1 DEF Discover, AgeInv, TypeInv, TypeOK, FrameSets
    <3>2. attempt' = attempt /\ attempt \in Nat
      BY <1>3 DEF Discover, TypeInv, TypeOK
    <3> QED
      BY <2>1, <3>1, <3>2 DEF OrderInv
  <2>2. CASE sets' = <<>> /\ started' = 0 /\ step' = "extracting"
    <3>1. flying' = {}
      BY <1>3 DEF Discover, TypeInv, RestInv
    <3> QED
      BY <2>2, <3>1 DEF OrderInv, After
  <2> QED
    BY <1>3, <2>1, <2>2 DEF Discover
<1>4. CASE Extract
  <2>1. ASSUME ~ broken PROVE flying = {} /\ started = Len(sets)
    <3>1. Cardinality({order[started]}) = 1 /\ Cardinality(flying) < 1
      BY <1>0, <1>4, FS_Singleton DEF Extract
    <3>2. (flying = {} /\ started = Len(sets)) \/ flying = {order[started]}
      BY <1>0, <1>4, <2>1 DEF OrderInv, Extract
    <3>3. flying # {order[started]}
      BY <3>1
    <3> QED
      BY <3>2, <3>3
  <2> QED
    BY <1>0, <1>4, <2>1 DEF Extract, saved, OrderInv, After
<1>5. ASSUME NEW v \in Videos, Extracted(v) PROVE OrderInv'
  <2>1. CASE broken
    BY <1>5, <2>1 DEF Extracted, OrderInv, After
  <2>2. CASE ~ broken
    <3>1. flying = {order[started]} /\ started = Len(sets) + 1 /\ v = order[started]
      BY <1>0, <1>5, <2>2 DEF Extracted, OrderInv
    <3>2. flying' = {} /\ started' = Len(sets') /\ order' = order /\ attempt' = attempt
          /\ step' = "extracting"
      BY <1>5, <3>1, Appended DEF Extracted
    <3>3. \A i \in DOMAIN sets : sets[i] = <<order[i], attempt>>
      BY <1>0, <1>5, <2>2 DEF Extracted, OrderInv
    <3>4. \A i \in DOMAIN sets' : sets'[i] = <<order[i], attempt>>
      BY <1>5, <3>1, <3>3, Appended
    <3> QED
      BY <3>2, <3>4 DEF OrderInv, After
  <2> QED
    BY <2>1, <2>2
<1>6. ASSUME NEW v \in Videos, ExtractionFails(v) PROVE OrderInv'
  BY <1>6 DEF ExtractionFails, OrderInv, After
<1>7. CASE Collect
  <2>1. CASE broken
    BY <1>1, <1>7, <2>1 DEF Collect, Ends, After
  <2>2. CASE ~ broken
    <3>1. \A i \in DOMAIN sets : sets[i] = <<order[i], attempt>>
      BY <1>0, <1>7, <2>2 DEF Collect, AllTaken, OrderInv
    <3> QED
      BY <1>7, <2>2, <3>1 DEF Collect, local, OrderInv
  <2> QED
    BY <2>1, <2>2
<1>8. CASE Probe
  BY <1>2, <1>8 DEF Probe, After
<1>9. CASE WriteManifest
  BY <1>1, <1>2, <1>9 DEF WriteManifest, Ends, local, After
<1>10. CASE CopyFrames
  BY <1>1, <1>2, <1>10 DEF CopyFrames, Ends, local, After
<1>11. CASE Attempt \/ Disturb \/ Validate \/ ProbeFails \/ Reconstruct
  BY <1>1, <1>11 DEF Attempt, Disturb, Validate, ProbeFails, Reconstruct, Ends, After
<1>12. CASE Finished \/ UNCHANGED vars
  BY <1>0, <1>12 DEF Finished, vars, local, OrderInv
<1> QED
  BY <1>3, <1>4, <1>5, <1>6, <1>7, <1>8, <1>9, <1>10, <1>11, <1>12 DEF Next

\* The metadata that are written are those of the videos in their order.
LEMMA MetaStep == MetaInv /\ [Next]_vars => MetaInv'
<1> SUFFICES ASSUME MetaInv, [Next]_vars, step' = "writing" PROVE MetaInv'
  BY DEF MetaInv
<1>1. CASE Probe
  BY <1>1 DEF Probe, MetaInv, inputs
<1>2. CASE Finished \/ UNCHANGED vars
  BY <1>2 DEF Finished, vars, local, inputs, MetaInv
<1> QED
  BY <1>1, <1>2 DEF Next, Attempt, Disturb, Validate, Discover, Extract, Extracted, ExtractionFails, Collect,
       ProbeFails, WriteManifest, CopyFrames, Reconstruct, Ends, AllTaken

\* What is written is true.
LEMMA EntriesStep == TypeInv /\ SetInv /\ OrderInv /\ MetaInv /\ EntriesTrue /\ [Next]_vars => EntriesTrue'
<1> SUFFICES ASSUME TypeInv, SetInv, OrderInv, MetaInv, EntriesTrue, [Next]_vars PROVE EntriesTrue'
  OBVIOUS
<1>0. UNCHANGED inputs
  BY DEF Next, Attempt, Disturb, Validate, Discover, Extract, Extracted, ExtractionFails, Collect, Probe,
         ProbeFails, WriteManifest, CopyFrames, Reconstruct, Finished, vars
<1>1. ASSUME manifest' = manifest PROVE EntriesTrue'
  BY <1>0, <1>1 DEF EntriesTrue, EntryTrue, Offset, inputs
<1>2. CASE WriteManifest /\ manifest' # manifest
  <2>1. manifest' = [written |-> attempt, entries |-> [i \in DOMAIN sets |-> Entry(i)],
                     intrinsics |-> Intrinsics(metas)]
    BY <1>2 DEF WriteManifest
  <2>2. manifest'.written = attempt /\ DOMAIN manifest'.entries = DOMAIN sets
        /\ \A i \in DOMAIN sets : manifest'.entries[i] = Entry(i)
    BY <2>1
  <2>3. step = "writing" /\ metas = [i \in DOMAIN order |-> Metadata(probe[order[i]])]
    BY <1>2 DEF WriteManifest, MetaInv
  <2>4. DOMAIN sets = DOMAIN order
    <3>1. order \in Orders /\ Covers(sets) /\ sets \in Seq(FrameSets)
      BY <2>3 DEF TypeInv, TypeOK, RestInv, Working, SetInv, After
    <3>2. DOMAIN sets = 1 .. Count /\ DOMAIN order = 1 .. Count
      BY <3>1 DEF Covers, Orders, Count
    <3> QED
      BY <3>2
  <2>5. ASSUME NEW i \in DOMAIN sets PROVE EntryTrue(Entry(i), manifest')
    <3>1. metas[i] = Metadata(probe[order[i]])
      BY <2>3, <2>4
    <3>2. /\ Entry(i).video = order[i] /\ Entry(i).framesOf = sets[i][1] /\ Entry(i).since = sets[i][2]
          /\ Entry(i).offsets = [k \in 1 .. frames[sets[i][1]] |-> Offset(k, metas[i])]
      BY DEF Entry
    <3>3. cpus = 1 /\ sets[i][2] = attempt => sets[i][1] = order[i]
      BY <2>3 DEF OrderInv, After
    <3> QED
      BY <2>2, <3>1, <3>2, <3>3 DEF EntryTrue
  <2> QED
    BY <1>0, <2>2, <2>5 DEF EntriesTrue, EntryTrue, Offset, inputs
<1> QED
  BY <1>1, <1>2 DEF Next, Attempt, Disturb, Validate, Discover, Extract, Extracted, ExtractionFails, Collect,
       Probe, ProbeFails, CopyFrames, Reconstruct, Finished, vars, saved

\* The manifest is true as far as ManifestIsTrue says.
LEMMA TrueEntries == EntriesTrue => ManifestIsTrue
<1> SUFFICES ASSUME EntriesTrue PROVE ManifestPairsInOrder /\ OffsetsAreTimes
  BY DEF ManifestIsTrue
<1>1. ManifestPairsInOrder
  BY DEF ManifestPairsInOrder, ManifestPairs, EntriesTrue, EntryTrue
<1>2. OffsetsAreTimes
  <2> SUFFICES ASSUME rate = None, manifest # None, NEW i \in DOMAIN manifest.entries,
                      manifest.entries[i].video = manifest.entries[i].framesOf,
                      NEW k \in DOMAIN manifest.entries[i].offsets
               PROVE  Same(manifest.entries[i].offsets[k], FrameTime(manifest.entries[i].video, k))
    BY DEF OffsetsAreTimes
  <2> DEFINE e == manifest.entries[i]
  <2>1. e.offsets = [n \in 1 .. frames[e.framesOf] |-> Offset(n, Metadata(probe[e.video]))]
    BY DEF EntriesTrue, EntryTrue
  <2> HIDE DEF e
  <2>2. e.offsets[k] = Offset(k, Metadata(probe[e.video]))
    BY <2>1 DEF e
  <2>3. FrameTime(e.video, k) = e.offsets[k]
    BY <2>2 DEF FrameTime, Offset
  <2> QED
    BY <2>3 DEF Same, e
<1> QED
  BY <1>1, <1>2

\* The manifest's pairs and offsets are true where they can be relied on, for
\* any number of videos.
THEOREM TrueManifest == Spec => []ManifestIsTrue
<1>1. TypeInv /\ SetInv /\ ManInv /\ [Next]_vars => ManInv'
  BY AgeStep, OrderStep, MetaStep, EntriesStep DEF ManInv
<1>2. ManInv => ManifestIsTrue
  BY TrueEntries DEF ManInv
<1> QED
  BY <1>1, <1>2, TypeInit, TypeStep, SetInit, SetStep, ManInit, PTL DEF Spec

-----------------------------------------------------------------------------
(* The camera intrinsics. *)

Before == { p \in Nat \X Nat : p[1] < p[2] }

\* A set of numbers that is not empty has a least one.
LEMMA Least ==
  ASSUME NEW S \in SUBSET Nat, S # {}
  PROVE  \E i \in S : \A k \in S : i <= k
<1>1. IsWellFoundedOn(Before, Nat)
  BY NatLessThanWellFounded DEF Before, OpToRel
<1>2. PICK i \in S : \A k \in S : ~ (<<k, i>> \in Before)
  BY <1>1, WFMin
<1>3. ASSUME NEW k \in S PROVE i <= k
  <2>1. <<k, i>> \in Nat \X Nat
    OBVIOUS
  <2>2. ~ (k < i)
    BY <1>2, <2>1 DEF Before
  <2> QED
    BY <2>2
<1> QED
  BY <1>3

\* The first of some numbers is the least of them.
LEMMA FirstIsLeast ==
  ASSUME NEW S \in SUBSET Nat, S # {}, NEW default
  PROVE  FirstOf(S, default) \in S /\ \A k \in S : FirstOf(S, default) <= k
BY Least DEF FirstOf

\* The first tag is a tag, if it is there, and none before it is.
LEMMA FirstTagFacts ==
  ASSUME NEW tags, DOMAIN tags \subseteq Nat \ {0}, FirstTag(tags) # None
  PROVE  \E i \in DOMAIN tags :
           FirstTag(tags) = tags[i] /\ \A k \in DOMAIN tags : k < i => tags[k] = None
<1> DEFINE S == { k \in DOMAIN tags : tags[k] # None }
           i == FirstOf(S, 0)
<1>1. S # {}
  BY DEF FirstTag, FirstOf
<1>2. S \in SUBSET Nat
  OBVIOUS
<1>3. i \in S /\ \A k \in S : i <= k
  BY <1>1, <1>2, FirstIsLeast
<1>4. FirstTag(tags) = IF i = 0 THEN None ELSE tags[i]
  BY DEF FirstTag
<1> HIDE DEF i
<1>5. i \in DOMAIN tags /\ FirstTag(tags) = tags[i]
  BY <1>3, <1>4
<1>6. \A k \in DOMAIN tags : k < i => tags[k] = None
  BY <1>3
<1> QED
  BY <1>5, <1>6

Fractions == Int \X Int

\* The focal lengths are fractions.
LEMMA FocalTypes ==
  ASSUME NEW p \in Probes
  PROVE  /\ FocalLength(p) # None => FocalLength(p) \in Fractions
         /\ FocalLength35(p) # None => FocalLength35(p) \in Fractions
<1>1. /\ p.focal \in Seq(Fractions \union {None}) /\ p.focal35 \in Seq(Fractions \union {None})
  BY ReportsAssumption DEF Fractions
<1>2. ASSUME NEW s \in Seq(Fractions \union {None})
      PROVE  DOMAIN s \subseteq Nat \ {0} /\ \A i \in DOMAIN s : s[i] \in Fractions \union {None}
  OBVIOUS
<1>3. ASSUME FocalLength35(p) # None PROVE FocalLength35(p) \in Fractions
  BY <1>1, <1>2, <1>3, FirstTagFacts DEF FocalLength35
<1>4. ASSUME FocalLength(p) # None PROVE FocalLength(p) \in Fractions
  <2> DEFINE tags == [k \in DOMAIN p.focal |-> ParseRational(p.focal[k])]
  <2>1. DOMAIN tags \subseteq Nat \ {0}
    BY <1>1, <1>2
  <2>2. FocalLength(p) = FirstTag(tags)
    BY DEF FocalLength
  <2>3. \A i \in DOMAIN tags : tags[i] \in Fractions \union {None}
    BY <1>1, <1>2 DEF ParseRational
  <2> HIDE DEF tags
  <2> QED
    BY <1>4, <2>1, <2>2, <2>3, FirstTagFacts
<1> QED
  BY <1>3, <1>4

\* The width in the metadata is a number.
LEMMA WidthType ==
  ASSUME NEW p \in Probes, Metadata(p) # None
  PROVE  Metadata(p).width \in Nat /\ Metadata(p).camera = CameraInfo(p)
<1> DEFINE S == { i \in DOMAIN p.streams : p.streams[i].video }
           s == p.streams[VideoStream(p)]
<1>1. VideoStream(p) # 0 /\ s.width # None
  BY DEF Metadata
<1>2. VideoStream(p) \in DOMAIN p.streams
  <2>1. S \in SUBSET Nat /\ VideoStream(p) = FirstOf(S, 0)
    BY ReportsAssumption DEF VideoStream
  <2>2. S # {}
    BY <1>1, <2>1 DEF FirstOf
  <2> QED
    BY <2>1, <2>2, FirstIsLeast
<1>3. s.width \in Nat
  BY <1>1, <1>2, ReportsAssumption
<1>4. Metadata(p).width = s.width /\ Metadata(p).camera = CameraInfo(p)
  BY DEF Metadata
<1> QED
  BY <1>3, <1>4

\* The product of positive numbers is positive.
LEMMA Products ==
  ASSUME NEW a \in Int, NEW b \in Int, a > 0, b > 0
  PROVE  a * b \in Int /\ a * b > 0
OBVIOUS

\* A positive focal length and a sensor of positive width give a positive fx.
LEMMA FromExifPositive ==
  ASSUME NEW f \in Fractions, NEW s \in Fractions, NEW w \in Nat,
         Positive(f), Positive(s), w > 0
  PROVE  Positive(FromExif(f, s, w))
<1>1. f[1] \in Int /\ f[2] \in Int /\ s[1] \in Int /\ s[2] \in Int
      /\ f[1] > 0 /\ f[2] > 0 /\ s[1] > 0 /\ s[2] > 0
  BY DEF Fractions, Positive, Num, Den
<1>2. FromExif(f, s, w) = <<(f[1] * s[2]) * w, (f[2] * s[1]) * 1>>
  BY DEF FromExif, Times, Over, Whole, Num, Den
<1>3. f[1] * s[2] \in Int /\ f[1] * s[2] > 0 /\ f[2] * s[1] \in Int /\ f[2] * s[1] > 0
  BY <1>1, Products
<1>4. (f[1] * s[2]) * w > 0 /\ (f[2] * s[1]) * 1 > 0
  BY <1>3, Products
<1> QED
  BY <1>2, <1>4 DEF Positive, Num, Den

\* A sensor whose width comes from the two focal lengths.
Estimated(f, f35) == Over(Whole(36), Over(f35, f))

\* It is positive if both focal lengths are, and gives fx / width = f35 / 36.
LEMMA EstimatedFits ==
  ASSUME NEW f \in Fractions, NEW g \in Fractions, NEW w \in Nat, Positive(f), Positive(g)
  PROVE  /\ Estimated(f, g) \in Fractions /\ Positive(Estimated(f, g))
         /\ Same(Over(FromExif(f, Estimated(f, g), w), Whole(w)), Over(g, Whole(36)))
<1>1. f[1] \in Int /\ f[2] \in Int /\ g[1] \in Int /\ g[2] \in Int
      /\ f[1] > 0 /\ f[2] > 0 /\ g[1] > 0 /\ g[2] > 0
  BY DEF Fractions, Positive, Num, Den
<1>2. Estimated(f, g) = <<36 * (g[2] * f[1]), 1 * (g[1] * f[2])>>
  BY DEF Estimated, Over, Whole, Num, Den
<1>3. g[2] * f[1] \in Int /\ g[2] * f[1] > 0 /\ g[1] * f[2] \in Int /\ g[1] * f[2] > 0
  BY <1>1, Products
<1>4. Estimated(f, g) \in Fractions /\ Positive(Estimated(f, g))
  BY <1>2, <1>3 DEF Fractions, Positive, Num, Den
<1>5. Over(FromExif(f, Estimated(f, g), w), Whole(w))
        = <<((f[1] * (1 * (g[1] * f[2]))) * w) * 1, ((f[2] * (36 * (g[2] * f[1]))) * 1) * w>>
  BY <1>2 DEF FromExif, Times, Over, Whole, Num, Den
<1>6. Over(g, Whole(36)) = <<g[1] * 1, g[2] * 36>>
  BY DEF Over, Whole, Num, Den
<1>7. ASSUME NEW a \in Int, NEW b \in Int, NEW c \in Int, NEW d \in Int
      PROVE  (((a * (1 * (c * b))) * w) * 1) * (d * 36) = (c * 1) * (((b * (36 * (d * a))) * 1) * w)
  OBVIOUS
<1>8. Same(Over(FromExif(f, Estimated(f, g), w), Whole(w)), Over(g, Whole(36)))
  BY <1>1, <1>5, <1>6, <1>7 DEF Same, Num, Den
<1> QED
  BY <1>4, <1>8

\* The sensors that are known, and that of a smartphone, have a positive width.
LEMMA KnownWidths ==
  ASSUME NEW model
  PROVE  /\ <<576, 100>> \in Fractions /\ Positive(<<576, 100>>)
         /\ LookupWidth(model) # None =>
              LookupWidth(model) \in Fractions /\ Positive(LookupWidth(model))
<1>1. LookupWidth(model) \in {<<76, 10>>, <<64, 10>>, <<617, 100>>, None}
  BY DEF LookupWidth
<1> QED
  BY <1>1 DEF Fractions, Positive, Num, Den

\* What a positive focal length gives, with the sensor of its own video.
LEMMA FxFits ==
  ASSUME NEW p \in Probes, NEW w \in Nat, CameraInfo(p) # None,
         FocalLength(p) # None, Positive(FocalLength(p))
  PROVE  LET fx == FromExif(CameraInfo(p).focal, SensorOf(CameraInfo(p)), w) IN
         /\ (FocalLength35(p) # None => Positive(FocalLength35(p))) /\ w > 0 => Positive(fx)
         /\ FocalLength35(p) # None /\ Positive(FocalLength35(p)) =>
              Same(Over(fx, Whole(w)), Over(FocalLength35(p), Whole(36)))
<1> DEFINE c == CameraInfo(p)
           f == FocalLength(p)
           g == FocalLength35(p)
           s == SensorOf(c)
<1>1. c = [focal |-> f, focal35 |-> g, sensor |-> SensorWidth(p)]
  BY DEF CameraInfo
<1>2. f \in Fractions /\ (g # None => g \in Fractions)
  BY FocalTypes
<1>3. c.focal = f /\ c.focal35 = g /\ c.sensor = SensorWidth(p)
  BY <1>1
<1> HIDE DEF c
<1>4. ASSUME g # None, Positive(g)
      PROVE  (w > 0 => Positive(FromExif(f, s, w))) /\ Same(Over(FromExif(f, s, w), Whole(w)), Over(g, Whole(36)))
  <2>1. Estimated(f, g) \in Fractions /\ Positive(Estimated(f, g))
        /\ Same(Over(FromExif(f, Estimated(f, g), w), Whole(w)), Over(g, Whole(36)))
    BY <1>2, <1>4, EstimatedFits
  <2>2. SensorWidth(p) = Estimated(f, g)
    BY <1>4 DEF SensorWidth, Estimated, Positive
  <2>3. Estimated(f, g) # None
    BY <2>1, ReportsAssumption DEF Fractions
  <2>4. s = Estimated(f, g)
    BY <1>3, <2>2, <2>3 DEF SensorOf
  <2> QED
    BY <1>2, <2>1, <2>4, FromExifPositive
<1>5. ASSUME g = None, w > 0 PROVE Positive(FromExif(f, s, w))
  <2>1. SensorWidth(p) = LookupWidth(CameraModel(p))
    BY <1>5 DEF SensorWidth
  <2>2. s = IF SensorWidth(p) # None THEN SensorWidth(p) ELSE <<576, 100>>
    BY <1>3, <1>5 DEF SensorOf
  <2>3. s \in Fractions /\ Positive(s)
    BY <2>1, <2>2, KnownWidths
  <2> QED
    BY <1>2, <1>5, <2>3, FromExifPositive
<1> QED
  BY <1>3, <1>4, <1>5 DEF c

\* What passed validation stays so, in a retry too.
ValidInv ==
  stage # "validation" \/ step = "finding" \/ step = "extracting" \/ step \in After =>
    \A v \in Videos : Metadata(probe[v]) # None

\* The metadata of the videos in an order.
MetasIn(o) == [i \in DOMAIN o |-> Metadata(probe[o[i]])]

\* The intrinsics are those of the videos in the order of the manifest.
IntrInv ==
  manifest # None =>
    /\ \A v \in Videos : Metadata(probe[v]) # None
    /\ \E o \in Orders : /\ manifest.intrinsics = Intrinsics(MetasIn(o))
                         /\ manifest.entries[1].video = o[1]

\* They hold when the process starts.
LEMMA IntrInit == Init => ValidInv /\ IntrInv
BY DEF Init, ValidInv, IntrInv, After

\* Every step keeps what was found valid.
LEMMA ValidStep == TypeInv /\ ValidInv /\ [Next]_vars => ValidInv'
<1> SUFFICES ASSUME TypeInv, ValidInv, [Next]_vars PROVE ValidInv'
  OBVIOUS
<1>0. UNCHANGED inputs
  BY DEF Next, Attempt, Disturb, Validate, Discover, Extract, Extracted, ExtractionFails, Collect, Probe,
         ProbeFails, WriteManifest, CopyFrames, Reconstruct, Finished, vars
<1>1. CASE Validate
  BY <1>0, <1>1 DEF Validate, Valid, ValidInv, Ends, inputs, After
<1>2. CASE Attempt
  BY <1>0, <1>2 DEF Attempt, ValidInv, saved, inputs, After
<1>3. CASE Disturb
  BY <1>0, <1>3 DEF Disturb, ValidInv, inputs, After
<1>4. CASE step = "finding" \/ step = "extracting" \/ step \in After
  BY <1>0, <1>4 DEF ValidInv, inputs
<1>5. CASE Finished \/ UNCHANGED vars
  BY <1>5 DEF Finished, vars, saved, inputs, ValidInv
<1> QED
  BY <1>1, <1>2, <1>3, <1>4, <1>5 DEF Next, Discover, Extract, Extracted, ExtractionFails, Collect,
     AllTaken, Probe, ProbeFails, WriteManifest, CopyFrames, Reconstruct, After

\* What is written are the intrinsics of the videos in their order.
LEMMA IntrStep == TypeInv /\ SetInv /\ MetaInv /\ ValidInv /\ IntrInv /\ [Next]_vars => IntrInv'
<1> SUFFICES ASSUME TypeInv, SetInv, MetaInv, ValidInv, IntrInv, [Next]_vars PROVE IntrInv'
  OBVIOUS
<1>0. probe' = probe
  BY DEF Next, Attempt, Disturb, Validate, Discover, Extract, Extracted, ExtractionFails, Collect, Probe,
         ProbeFails, WriteManifest, CopyFrames, Reconstruct, Finished, vars, inputs
<1>1. \A o \in Orders : MetasIn(o)' = MetasIn(o)
  BY <1>0 DEF MetasIn
<1>2. ASSUME manifest' = manifest PROVE IntrInv'
  <2> SUFFICES ASSUME manifest # None PROVE IntrInv'
    BY <1>2 DEF IntrInv
  <2>1. PICK o \in Orders : manifest.intrinsics = Intrinsics(MetasIn(o)) /\ manifest.entries[1].video = o[1]
    BY DEF IntrInv
  <2>2. MetasIn(o)' = MetasIn(o) /\ Intrinsics(MetasIn(o))' = Intrinsics(MetasIn(o))
    BY <1>1 DEF Intrinsics
  <2> QED
    BY <1>0, <1>2, <2>1, <2>2 DEF IntrInv
<1>3. CASE WriteManifest /\ manifest' # manifest
  <2>1. /\ manifest' = [written |-> attempt, entries |-> [i \in DOMAIN sets |-> Entry(i)],
                        intrinsics |-> Intrinsics(metas)]
        /\ step = "writing"
    BY <1>3 DEF WriteManifest
  <2>2. order \in Orders /\ Covers(sets) /\ metas = MetasIn(order) /\ sets \in Seq(FrameSets)
    BY <2>1 DEF TypeInv, TypeOK, RestInv, Working, SetInv, After, MetaInv, MetasIn
  <2>3. 1 \in DOMAIN sets
    <3>1. Count # 0
      BY FS_EmptySet, VideosAssumption DEF Count
    <3> QED
      BY <2>2, <3>1, CountType DEF Covers
  <2>4. PICK o \in Orders : o = order
    BY <2>2
  <2>5. manifest'.entries[1].video = o[1] /\ manifest'.intrinsics = Intrinsics(MetasIn(o))
    BY <2>1, <2>2, <2>3, <2>4 DEF Entry
  <2>6. \A v \in Videos : Metadata(probe'[v]) # None
    BY <1>0, <2>1 DEF ValidInv, After
  <2>7. Intrinsics(MetasIn(o))' = Intrinsics(MetasIn(o))
    BY <1>1 DEF Intrinsics
  <2> QED
    BY <2>5, <2>6, <2>7 DEF IntrInv
<1> QED
  BY <1>2, <1>3 DEF Next, Attempt, Disturb, Validate, Discover, Extract, Extracted, ExtractionFails, Collect,
     Probe, ProbeFails, CopyFrames, Reconstruct, Finished, vars, saved

\* The intrinsics of the videos fit them.
LEMMA FitOfOrder == TypeInv /\ IntrInv => IntrinsicsFit
<1> SUFFICES ASSUME TypeInv, IntrInv, manifest # None, manifest.intrinsics # None PROVE IntrinsicsFit
  BY DEF IntrinsicsFit
<1>1. PICK o \in Orders : manifest.intrinsics = Intrinsics(MetasIn(o)) /\ manifest.entries[1].video = o[1]
  BY DEF IntrInv
<1> DEFINE p == probe[o[1]]
           m == Metadata(p)
           metadata == MetasIn(o)
<1>2. 1 \in DOMAIN o /\ o[1] \in Videos
  <2>1. Count # 0
    BY FS_EmptySet, VideosAssumption DEF Count
  <2> QED
    BY <2>1, CountType DEF Orders, Count
<1>3. p \in Probes /\ m # None
  BY <1>2 DEF TypeInv, TypeOK, IntrInv
<1>4. m.width \in Nat /\ m.camera = CameraInfo(p)
  BY <1>3, WidthType
<1>5. DOMAIN metadata = DOMAIN o /\ \A i \in DOMAIN o : metadata[i] = Metadata(probe[o[i]])
  BY DEF MetasIn
<1> HIDE DEF metadata
<1>6. metadata[1] = m
  BY <1>2, <1>5
<1>7. /\ \A i \in DOMAIN metadata : metadata[i].width = m.width /\ metadata[i].height = m.height
      /\ m.camera # None /\ m.camera.focal # None
      /\ Intrinsics(metadata) = [width |-> m.width, height |-> m.height,
                                 fx |-> FromExif(m.camera.focal, SensorOf(m.camera), m.width)]
  BY <1>1, <1>6 DEF Intrinsics, metadata
<1>8. /\ manifest.intrinsics.width = m.width /\ manifest.intrinsics.height = m.height
      /\ manifest.intrinsics.fx = FromExif(CameraInfo(p).focal, SensorOf(CameraInfo(p)), m.width)
  BY <1>1, <1>4, <1>7 DEF metadata
<1>9. \A v \in Videos : Metadata(probe[v]).width = m.width /\ Metadata(probe[v]).height = m.height
  <2>1. \A v \in Videos : \E i \in DOMAIN o : o[i] = v
    BY DEF Orders
  <2> QED
    BY <1>5, <1>7, <2>1
<1>10. CameraInfo(p) # None /\ FocalLength(p) # None
  BY <1>4, <1>7 DEF CameraInfo
<1> HIDE DEF p
<1> QED
  BY <1>1, <1>3, <1>4, <1>8, <1>9, <1>10, FxFits DEF IntrinsicsFit, p

\* The intrinsics in the manifest fit every video of the job, whatever ffprobe
\* reports.
THEOREM FittingIntrinsics == Spec => []IntrinsicsFit
<1>1. TypeInv /\ SetInv /\ ManInv /\ [Next]_vars => ManInv'
  BY AgeStep, OrderStep, MetaStep, EntriesStep DEF ManInv
<1>2. TypeInv /\ SetInv /\ ManInv /\ ValidInv /\ IntrInv /\ [Next]_vars => ValidInv' /\ IntrInv'
  BY ValidStep, IntrStep DEF ManInv
<1> QED
  BY <1>1, <1>2, FitOfOrder, TypeInit, TypeStep, SetInit, SetStep, ManInit, IntrInit, PTL DEF Spec

-----------------------------------------------------------------------------
(* An attempt ends. *)

\* The most steps that are left of an attempt: a video that is not taken yet is
\* to be taken and to end, one that is in flight is to end.
StepsLeft ==
  IF step = "validating" THEN 7 + 2 * Count
  ELSE IF step = "finding" THEN 6 + 2 * Count
  ELSE IF step = "extracting" THEN 5 + 2 * (Count - started) + Cardinality(flying)
  ELSE IF step = "probing" THEN 4
  ELSE IF step = "writing" THEN 3
  ELSE IF step = "copying" THEN 2
  ELSE IF step = "reconstructing" THEN 1
  ELSE 0

\* Of the job, with the attempts that may follow.
Span == 8 + 2 * Count
Left == Span * (MaxAttempts - attempt) + StepsLeft

\* Wherever the job is, what happens to it brings it nearer to its end.
GoesOn ==
  [][/\ Left' <= Left
     /\ step' # step \/ step = "extracting" => Left' < Left]_vars

\* Extraction never waits for something that does not come: there is a video to
\* take and room for it, one that may end, or all results are there.
NeverStuck ==
  step = "extracting" =>
    \/ started < Len(order) /\ Cardinality(flying) < cpus
    \/ flying # {}
    \/ AllTaken

\* The attempts that are left count as much each.
LEMMA Spans ==
  /\ Span \in Nat
  /\ \A i \in Nat : Span * i \in Nat
  /\ \A i \in Nat : Span * (i + 1) = Span * i + Span
BY CountType DEF Span

\* Arithmetic of what is left, before and after an attempt begins.
LEMMA SpansAdd ==
  ASSUME NEW p \in Nat, NEW q \in Nat, NEW r \in 0 .. q - 1
  PROVE  p + r \in Nat /\ p + r < p + q
OBVIOUS

\* What is left is a number.
LEMMA LeftType ==
  ASSUME TypeInv
  PROVE  /\ StepsLeft \in 0 .. Span - 1
         /\ Left \in Nat
         /\ step = "extracting" => StepsLeft >= 5
<1> USE CountType DEF TypeInv, TypeOK
<1>1. IsFiniteSet(flying) /\ Cardinality(flying) \in Nat
  BY FS_Subset, FS_CardinalityType
<1>2. step = "extracting" => started \in 0 .. Count /\ Cardinality(flying) <= started
  <2>1. step = "extracting" => Len(order) = Count
    BY OrderFacts DEF RestInv, Working
  <2>2. Len(sets) \in Nat
    OBVIOUS
  <2> QED
    BY <1>1, <2>1, <2>2
<1>3. StepsLeft \in 0 .. Span - 1
  BY <1>1, <1>2 DEF StepsLeft, Span
<1>4. PICK i \in Nat : i = MaxAttempts - attempt
  OBVIOUS
<1>5. PICK p \in Nat : p = Span * i
  BY <1>4, Spans
<1>6. Left = p + StepsLeft
  BY <1>4, <1>5 DEF Left
<1>7. Left \in Nat
  BY ONLY <1>3, <1>6, Spans, SpansAdd, p \in Nat
<1>8. step = "extracting" => StepsLeft >= 5
  BY <1>1, <1>2 DEF StepsLeft
<1> QED
  BY ONLY <1>3, <1>7, <1>8

\* Every action but a loss between attempts has fewer to follow.
LEMMA LeftStep ==
  ASSUME TypeInv, [Next]_vars
  PROVE  [/\ Left' <= Left
          /\ step' # step \/ step = "extracting" => Left' < Left]_vars
<1> USE CountType, LeftType
<1>0. /\ IsFiniteSet(flying) /\ Cardinality(flying) \in Nat
      /\ attempt \in 0 .. MaxAttempts /\ MaxAttempts \in Nat
      /\ StepsLeft \in 0 .. Span - 1 /\ Left \in Nat /\ Span \in Nat
  BY FS_Subset, FS_CardinalityType, Spans DEF TypeInv, TypeOK
<1>a. ASSUME attempt' = attempt, StepsLeft' \in Int, StepsLeft' < StepsLeft
      PROVE  Left' <= Left /\ Left' < Left
  <2>1. Span * (MaxAttempts - attempt) \in Nat
    BY <1>0, Spans
  <2> QED
    BY <1>0, <1>a, <2>1 DEF Left, Span, Count
<1>1. CASE Attempt
  <2>1. attempt' = attempt + 1 /\ attempt < MaxAttempts /\ StepsLeft = 0
        /\ step' \in {"validating", "finding"}
    BY <1>1 DEF Attempt, StepsLeft
  <2>2. StepsLeft' \in 0 .. Span - 1
    BY <2>1 DEF StepsLeft, Span, Count
  <2>3. PICK i \in Nat : i = MaxAttempts - attempt'
    BY <1>0, <2>1
  <2>4. Left = Span * (i + 1) /\ Left' = Span * i + StepsLeft'
    BY <1>0, <2>1, <2>3 DEF Left, Span, Count
  <2>5. PICK p \in Nat : p = Span * i
    BY Spans
  <2>6. Left = p + Span /\ Left' = p + StepsLeft'
    BY <2>4, <2>5, Spans
  <2>7. Left' < Left
    BY ONLY <2>2, <2>5, <2>6, Spans, SpansAdd
  <2>8. Left' \in Int
    BY <2>2, <2>5, <2>6, Spans
  <2> QED
    BY <1>0, <2>7, <2>8
<1>2. CASE Disturb \/ Finished \/ UNCHANGED vars
  <2>1. \/ UNCHANGED <<step, attempt, started, flying>> /\ step # "extracting"
        \/ UNCHANGED vars
    BY <1>2 DEF Disturb, Finished, local, vars
  <2>2. Left' = Left
    BY <2>1 DEF Left, StepsLeft, Span, Count, vars, local
  <2> QED
    BY <1>0, <2>1, <2>2
<1>3. CASE Validate
  <2>1. attempt' = attempt /\ step = "validating" /\ step' \in {"finding", "idle"}
    BY <1>3 DEF Validate, Ends
  <2> QED
    BY <1>a, <2>1 DEF StepsLeft, Count
<1>4. CASE Discover
  <2>1. /\ attempt' = attempt /\ step = "finding" /\ flying' = {}
        /\ step' = "probing" \/ (step' = "extracting" /\ started' = 0)
    BY <1>4 DEF Discover, TypeInv, RestInv
  <2>2. Cardinality({}) = 0
    BY FS_EmptySet
  <2> QED
    BY <1>a, <2>1, <2>2 DEF StepsLeft, Count
<1>5. CASE Extract
  <2>1. /\ attempt' = attempt /\ step = "extracting" /\ step' = step
        /\ started' = started + 1 /\ flying' = flying \union {order[started + 1]}
        /\ started \in Nat
    BY <1>5 DEF Extract, TypeInv, TypeOK
  <2>2. Cardinality(flying') \in Nat /\ Cardinality(flying') <= Cardinality(flying) + 1
    <3>1. PICK v : flying' = flying \union {v}
      BY <2>1
    <3>2. Cardinality(flying \union {v}) =
            IF v \in flying THEN Cardinality(flying) ELSE Cardinality(flying) + 1
      BY <1>0, FS_AddElement
    <3> QED
      BY <1>0, <3>1, <3>2
  <2> QED
    BY <1>0, <1>a, <2>1, <2>2 DEF StepsLeft, Count
<1>6. ASSUME NEW v \in Videos, Extracted(v) \/ ExtractionFails(v)
      PROVE  Left' <= Left /\ Left' < Left
  <2>1. /\ attempt' = attempt /\ step = "extracting" /\ step' = step
        /\ started' = started /\ flying' = flying \ {v} /\ v \in flying
        /\ started \in Nat
    BY <1>6 DEF Extracted, ExtractionFails, local, TypeInv, TypeOK
  <2>2. Cardinality(flying') = Cardinality(flying) - 1
    BY <1>0, <2>1, FS_RemoveElement
  <2> QED
    BY <1>0, <1>a, <2>1, <2>2 DEF StepsLeft, Count
<1>7. CASE Collect
  <2>1. attempt' = attempt /\ step = "extracting" /\ step' \in {"probing", "idle"}
        /\ StepsLeft >= 5
    BY <1>7 DEF Collect, AllTaken, Ends
  <2> QED
    BY <1>0, <1>a, <2>1 DEF StepsLeft
<1>8. CASE Probe \/ ProbeFails
  <2>1. attempt' = attempt /\ step = "probing" /\ step' \in {"writing", "copying", "idle"}
    BY <1>8 DEF Probe, ProbeFails, Ends
  <2> QED
    BY <1>a, <2>1 DEF StepsLeft
<1>9. CASE WriteManifest \/ CopyFrames
  <2>1. attempt' = attempt
        /\ \/ step = "writing" /\ step' \in {"copying", "idle"}
           \/ step = "copying" /\ step' \in {"reconstructing", "idle"}
    BY <1>9 DEF WriteManifest, CopyFrames, Ends
  <2> QED
    BY <1>a, <2>1 DEF StepsLeft
<1>10. CASE Reconstruct
  <2>1. attempt' = attempt /\ step = "reconstructing" /\ step' \in {"done", "idle"}
    BY <1>10 DEF Reconstruct, Ends
  <2> QED
    BY <1>a, <2>1 DEF StepsLeft
<1> QED
  BY <1>1, <1>2, <1>3, <1>4, <1>5, <1>6, <1>7, <1>8, <1>9, <1>10 DEF Next

\* However many videos there are, however many are extracted at a time and
\* whatever fails, an attempt ends within 2 * Count + 8 steps, and the extraction
\* can always go on (process_videos, buffer_unordered).  That ffmpeg returns is
\* left to fairness.
THEOREM ExtractionEnds ==
  Spec => GoesOn /\ [](StepsLeft \in 0 .. Span - 1) /\ []NeverStuck
<1>1. TypeInv => StepsLeft \in 0 .. Span - 1
  BY LeftType
<1>2. TypeInv => NeverStuck
  <2> SUFFICES ASSUME TypeInv, step = "extracting", flying = {}, started # Len(order)
               PROVE  started < Len(order) /\ Cardinality(flying) < cpus
    BY DEF NeverStuck, AllTaken
  <2>1. Cardinality(flying) = 0
    BY FS_EmptySet
  <2> QED
    BY <2>1 DEF TypeInv, TypeOK
<1>3. TypeInv /\ [Next]_vars =>
        [/\ Left' <= Left
         /\ step' # step \/ step = "extracting" => Left' < Left]_vars
  BY LeftStep
<1> QED
  BY <1>1, <1>2, <1>3, TypeInit, TypeStep, PTL DEF Spec, GoesOn

=============================================================================
