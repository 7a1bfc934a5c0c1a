---------------------------- MODULE StartsProofs ----------------------------
(***************************************************************************)
(* Proofs about Replay and ImaginedStarts for any number of tasks,         *)
(* episodes, workers, slots, ranks, steps and updates.                     *)
(***************************************************************************)
EXTENDS ImaginedStarts, FiniteSetTheorems, SequenceTheorems, WellFoundedInduction, TLAPS

-----------------------------------------------------------------------------
(* Numbers and sequences.                                                  *)

LEMMA Sizes ==
  /\ NumTasks \in Nat \ {0} /\ SeqLen \in Nat \ {0} /\ WindowEnv \in Nat \ {0}
  /\ Stride \in Nat \ {0} /\ RecentCount \in Nat /\ NumSlots \in Nat \ {0}
  /\ ActorRanks \in Nat \ {0} /\ BatchSize \in Nat \ {0} /\ WindowBatch \in Nat \ {0}
  /\ PerStep \in Nat /\ MaxSteps \in Nat /\ MaxUpdates \in Nat /\ MaxLeases \in Nat
  /\ MaxAdds \in Nat
BY ReplayAssumption, StartsAssumption

\* Every nonempty set of numbers has a least member: the form in which the
\* proofs below use induction.
LEMMA LeastNumber ==
  ASSUME NEW T \in SUBSET Nat, T # {}
  PROVE  \E n \in T : \A m \in T : n <= m
<1>1. PICK n \in T : \A m \in T : <<m, n>> \notin OpToRel(<, Nat)
  BY NatLessThanWellFounded, WFMin
<1>2. \A m \in T : n <= m
  <2>1. SUFFICES ASSUME NEW m \in T
                 PROVE  n <= m
    OBVIOUS
  <2>2. m \in Nat /\ n \in Nat
    OBVIOUS
  <2>3. ~ (m < n)
    BY <1>1, <2>2 DEF OpToRel
  <2> QED
    BY <2>2, <2>3
<1> QED
  BY <1>2

\* The members of a sequence.
LEMMA Members ==
  ASSUME NEW S, NEW q \in Seq(S)
  PROVE  /\ ToSet(q) \in SUBSET S
         /\ \A x : x \in ToSet(q) <=> \E i \in DOMAIN q : x = q[i]
         /\ \A i \in DOMAIN q : q[i] \in ToSet(q)
         /\ (q = <<>> <=> ToSet(q) = {})
<1>1. DOMAIN q = 1 .. Len(q) /\ Len(q) \in Nat /\ \A i \in DOMAIN q : q[i] \in S
  OBVIOUS
<1>2. q = <<>> <=> DOMAIN q = {}
  <2>1. Len(q) = 0 => q = <<>>
    OBVIOUS
  <2>2. DOMAIN q = {} => Len(q) = 0
    BY <1>1
  <2> QED
    BY <1>1, <2>1, <2>2
<1>3. ToSet(q) = {q[i] : i \in DOMAIN q}
  BY DEF ToSet
<1> QED
  BY <1>1, <1>2, <1>3

\* A row of tokens.
LEMMA OneRow ==
  ASSUME NEW e, NEW n \in Nat
  PROVE  IsFiniteSet({e} \X (1 .. n)) /\ Cardinality({e} \X (1 .. n)) = n
<1>1. IsFiniteSet(1 .. n) /\ Cardinality(1 .. n) = n
  BY FS_Interval
<1>2. IsFiniteSet({e}) /\ Cardinality({e}) = 1
  BY FS_Singleton
<1>3. /\ IsFiniteSet({e} \X (1 .. n))
      /\ Cardinality({e} \X (1 .. n)) = Cardinality({e}) * Cardinality(1 .. n)
  BY <1>1, <1>2, FS_Product
<1> QED
  BY <1>1, <1>2, <1>3

LEMMA ConcatMembers ==
  ASSUME NEW S, NEW p \in Seq(S), NEW q \in Seq(S)
  PROVE  ToSet(p \o q) = ToSet(p) \cup ToSet(q)
<1>1. p \o q \in Seq(S) /\ Len(p \o q) = Len(p) + Len(q)
  BY ConcatProperties
<1>2. \A i \in 1 .. Len(p) + Len(q) : (p \o q)[i] = IF i <= Len(p) THEN p[i] ELSE q[i - Len(p)]
  BY ConcatProperties
<1>3. ASSUME NEW x \in ToSet(p \o q)
      PROVE  x \in ToSet(p) \cup ToSet(q)
  <2>1. PICK i \in 1 .. Len(p) + Len(q) : x = (p \o q)[i]
    BY <1>1, <1>3 DEF ToSet
  <2>2. CASE i <= Len(p)
    BY <1>2, <2>1, <2>2 DEF ToSet
  <2>3. CASE ~(i <= Len(p))
    <3>1. i - Len(p) \in DOMAIN q
      BY <2>3
    <3> QED
      BY <1>2, <2>1, <2>3, <3>1 DEF ToSet
  <2> QED
    BY <2>2, <2>3
<1>4. ASSUME NEW x \in ToSet(p)
      PROVE  x \in ToSet(p \o q)
  <2>1. PICK i \in DOMAIN p : x = p[i]
    BY <1>4 DEF ToSet
  <2>2. i \in 1 .. Len(p) + Len(q) /\ (p \o q)[i] = x
    BY <1>2, <2>1
  <2> QED
    BY <1>1, <2>2 DEF ToSet
<1>5. ASSUME NEW x \in ToSet(q)
      PROVE  x \in ToSet(p \o q)
  <2>1. PICK i \in DOMAIN q : x = q[i]
    BY <1>5 DEF ToSet
  <2>2. i + Len(p) \in 1 .. Len(p) + Len(q) /\ (p \o q)[i + Len(p)] = x
    BY <1>2, <2>1
  <2> QED
    BY <1>1, <2>2 DEF ToSet
<1> QED
  BY <1>3, <1>4, <1>5

-----------------------------------------------------------------------------
(* Adding and evicting episodes.                                           *)

Rec == [id : Nat, task : Tasks, success : BOOLEAN, len : Nat,
        source : {"online", "coldstart"}, version : 0 .. MaxSteps]
Lengths == {e.len : e \in Episodes}

\* What the replay stores fits: ids in order, tasks and lengths as given.
Fitting(q, t, next) ==
  /\ \A i \in DOMAIN q : q[i].task = t /\ q[i].id < next /\ q[i].len \in Lengths
  /\ \A i, j \in DOMAIN q : i < j => q[i].id < q[j].id
  /\ Transitions(q) <= Capacity

Sound(s, next, pending) ==
  /\ \A t \in Tasks : Fitting(s[t], t, next)
  /\ \A t, u \in Tasks : \A r \in ToSet(s[t]) : \A q \in ToSet(s[u]) : r.id = q.id => t = u
  /\ pending \subseteq 0 .. next - 1

Reps == [stored : [Tasks -> Seq(Rec)], next : Nat, pending : SUBSET Nat]

\* The loop of add_episode ends, with what is left of the task's records at
\* the end of the queue; the new one stays if it fits alone.
LEMMA EvictedIs ==
  ASSUME NEW recs \in Seq(Rec)
  PROVE  \E k \in 1 .. Len(recs) + 1 :
           /\ Evicted(recs) = SubSeq(recs, k, Len(recs))
           /\ Transitions(Evicted(recs)) <= Capacity
           /\ recs # <<>> /\ recs[Len(recs)].len <= Capacity => k <= Len(recs)
<1> DEFINE fits == {k \in 1 .. Len(recs) + 1 :
                      Transitions(SubSeq(recs, k, Len(recs))) <= Capacity}
<1>l. Len(recs) \in Nat
  OBVIOUS
<1>1. Len(recs) + 1 \in fits
  <2>1. SubSeq(recs, Len(recs) + 1, Len(recs)) = <<>>
    BY <1>l, SubSeqEmpty
  <2>2. UNION {{i} \X (1 .. (<<>>)[i].len) : i \in DOMAIN (<<>>)} = {}
    OBVIOUS
  <2>3. Transitions(<<>>) = 0
    BY <2>2, FS_EmptySet DEF Transitions
  <2>4. Len(recs) + 1 \in 1 .. Len(recs) + 1 /\ 0 <= Capacity
    BY <1>l, ReplayAssumption
  <2> QED
    BY <2>1, <2>3, <2>4
<1>2. fits \in SUBSET Nat
  BY <1>l
<1>3. PICK k \in fits : \A m \in fits : k <= m
  BY <1>1, <1>2, LeastNumber
<1>4. ASSUME NEW m \in fits, \A n \in fits : m <= n
      PROVE  m = k
  BY <1>2, <1>3, <1>4
<1>5. Min(fits) = k
  BY <1>3, <1>4 DEF Min
<1>6. Evicted(recs) = SubSeq(recs, k, Len(recs))
  BY <1>5 DEF Evicted
<1>7. ASSUME recs # <<>>, recs[Len(recs)].len <= Capacity
      PROVE  Len(recs) \in fits
  <2>1. Len(recs) \in 1 .. Len(recs) + 1 /\ recs[Len(recs)] \in Rec
    BY <1>7, <1>l
  <2>2. PICK x \in Rec : x = recs[Len(recs)]
    BY <2>1
  <2>3. SubSeq(recs, Len(recs), Len(recs)) = <<x>>
    <3>1. PICK l \in 1 .. Len(recs) : l = Len(recs)
      BY <1>7, <1>l
    <3>2. /\ SubSeq(recs, l, l) \in Seq(Rec) /\ Len(SubSeq(recs, l, l)) = 1
          /\ SubSeq(recs, l, l)[1] = recs[l]
      <4>1. \A i \in l .. l : recs[i] \in Rec
        BY <3>1
      <4>2. /\ SubSeq(recs, l, l) \in Seq(Rec)
            /\ Len(SubSeq(recs, l, l)) = (IF l <= l THEN l - l + 1 ELSE 0)
            /\ \A i \in 1 .. l - l + 1 : SubSeq(recs, l, l)[i] = recs[l + i - 1]
        BY <3>1, <4>1, SubSeqProperties
      <4> QED
        BY <4>2
    <3>3. ASSUME NEW y \in Seq(Rec), Len(y) = 1, y[1] = x
          PROVE  y = <<x>>
      BY <3>3
    <3>4. SubSeq(recs, l, l) = <<x>>
      BY ONLY <2>2, <3>1, <3>2, <3>3
    <3> QED
      BY ONLY <3>1, <3>4
  <2>4. UNION {{i} \X (1 .. <<x>>[i].len) : i \in DOMAIN <<x>>} = {1} \X (1 .. x.len)
    OBVIOUS
  <2>n. PICK n \in Nat : n = x.len
    BY DEF Rec
  <2>6. Cardinality({1} \X (1 .. n)) = n
    BY OneRow
  <2>7. Transitions(<<x>>) = x.len
    BY <2>n, <2>4, <2>6 DEF Transitions
  <2> QED
    BY <1>7, <2>1, <2>2, <2>3, <2>7
<1>8. recs # <<>> /\ recs[Len(recs)].len <= Capacity => k <= Len(recs)
  BY <1>3, <1>7
<1> HIDE DEF fits
<1>9. k \in 1 .. Len(recs) + 1 /\ Transitions(SubSeq(recs, k, Len(recs))) <= Capacity
  BY <1>3 DEF fits
<1> QED
  BY <1>6, <1>8, <1>9

\* One record more, and some of the oldest fewer.
LEMMA EvictedFits ==
  ASSUME NEW t \in Tasks, NEW q \in Seq(Rec), NEW n \in Nat, Fitting(q, t, n),
         NEW r \in Rec, r.task = t, r.id = n, r.len \in Lengths
  PROVE  /\ Evicted(Append(q, r)) \in Seq(Rec) /\ Fitting(Evicted(Append(q, r)), t, n + 1)
         /\ ToSet(Evicted(Append(q, r))) \subseteq ToSet(q) \cup {r}
         /\ r.len <= Capacity => r \in ToSet(Evicted(Append(q, r)))
<1>1. PICK a \in Seq(Rec) : a = Append(q, r)
  BY AppendProperties
<1>2. /\ Len(a) = Len(q) + 1 /\ a # <<>>
      /\ \A i \in 1 .. Len(q) : a[i] = q[i]
      /\ a[Len(q) + 1] = r
  BY <1>1, AppendProperties
<1>l. Len(q) \in Nat /\ DOMAIN q = 1 .. Len(q) /\ DOMAIN a = 1 .. Len(q) + 1
  BY <1>2
<1>3. PICK k \in 1 .. Len(a) + 1 :
           /\ Evicted(a) = SubSeq(a, k, Len(a))
           /\ Transitions(Evicted(a)) <= Capacity
           /\ a # <<>> /\ a[Len(a)].len <= Capacity => k <= Len(a)
  BY EvictedIs
<1>4. PICK b : b = Evicted(a)
  OBVIOUS
<1>5. /\ b \in Seq(Rec) /\ Len(b) = IF k <= Len(a) THEN Len(a) - k + 1 ELSE 0
      /\ \A i \in 1 .. Len(a) - k + 1 : b[i] = a[k + i - 1]
  <2>1. \A i \in k .. Len(a) : a[i] \in Rec
    BY <1>3
  <2> QED
    BY <1>3, <1>4, <2>1, SubSeqProperties
<1>6. DOMAIN b = 1 .. Len(a) - k + 1
  BY <1>2, <1>3, <1>5, <1>l
<1>7. ASSUME NEW i \in DOMAIN b
      PROVE  b[i] = a[k + i - 1] /\ k + i - 1 \in 1 .. Len(q) + 1
  BY <1>2, <1>3, <1>5, <1>6, <1>l
<1>8. ASSUME NEW i \in 1 .. Len(q) + 1
      PROVE  a[i].task = t /\ a[i].id < n + 1 /\ a[i].len \in Lengths
  <2>1. CASE i \in 1 .. Len(q)
    <3>1. q[i].task = t /\ q[i].id < n /\ q[i].len \in Lengths /\ a[i] = q[i] /\ q[i] \in Rec
      BY <1>2, <1>l, <2>1 DEF Fitting
    <3> QED
      BY <3>1 DEF Rec
  <2>2. CASE i = Len(q) + 1
    BY <1>2, <2>2
  <2> QED
    BY <1>l, <2>1, <2>2
<1>9. ASSUME NEW i \in 1 .. Len(q) + 1, NEW j \in 1 .. Len(q) + 1, i < j
      PROVE  a[i].id < a[j].id
  <2>1. i \in DOMAIN q /\ a[i] = q[i] /\ q[i].id < n
    BY <1>2, <1>9, <1>l DEF Fitting
  <2>2. CASE j \in DOMAIN q
    BY <1>2, <1>9, <1>l, <2>1, <2>2 DEF Fitting
  <2>3. CASE j = Len(q) + 1
    BY <1>2, <2>1, <2>3
  <2> QED
    BY <1>l, <2>2, <2>3
<1>10. \A i \in DOMAIN b : b[i].task = t /\ b[i].id < n + 1 /\ b[i].len \in Lengths
  BY <1>7, <1>8
<1>11. ASSUME NEW i \in DOMAIN b, NEW j \in DOMAIN b, i < j
       PROVE  b[i].id < b[j].id
  <2>1. k + i - 1 < k + j - 1
    BY <1>3, <1>6, <1>11
  <2> QED
    BY <1>7, <1>9, <2>1
<1>12. Fitting(b, t, n + 1)
  BY <1>3, <1>4, <1>10, <1>11 DEF Fitting
<1>13. ASSUME NEW x \in ToSet(b)
       PROVE  x \in ToSet(q) \cup {r}
  <2>1. PICK i \in DOMAIN b : x = b[i]
    BY <1>13 DEF ToSet
  <2>2. PICK j \in 1 .. Len(q) + 1 : x = a[j]
    BY <1>7, <2>1
  <2>3. CASE j \in DOMAIN q
    BY <1>2, <2>2, <2>3 DEF ToSet
  <2>4. CASE j = Len(q) + 1
    BY <1>2, <2>2, <2>4
  <2> QED
    BY <1>l, <2>3, <2>4
<1>14. ASSUME r.len <= Capacity
       PROVE  r \in ToSet(b)
  <2>1. a[Len(a)] = r
    BY <1>2, <1>l
  <2>2. k <= Len(a)
    BY <1>2, <1>3, <1>14, <2>1
  <2>3. Len(a) - k + 1 \in DOMAIN b /\ b[Len(a) - k + 1] = a[Len(a)]
    <3>1. Len(a) - k + 1 \in 1 .. Len(a) - k + 1
      BY <1>2, <1>3, <1>l, <2>2
    <3>2. k + (Len(a) - k + 1) - 1 = Len(a)
      BY <1>2, <1>3, <1>l
    <3> QED
      BY <1>5, <1>6, <3>1, <3>2
  <2> QED
    BY <2>1, <2>3 DEF ToSet
<1> QED
  BY <1>1, <1>4, <1>5, <1>12, <1>13, <1>14

\* No episode of the task is longer than what the replay keeps of the task.
EpisodesFit == \A f \in Episodes : f.len <= Capacity

\* A replay that has records does not lose the last one.
StillSome(s, u) == Records(s) # {} /\ EpisodesFit => Records(u) # {}

\* What one more episode may change.
Grown(q, w, source, version) ==
  /\ q.pending \subseteq w.pending /\ w.pending \subseteq q.pending \cup {q.next}
  /\ q.next <= w.next
  /\ \A x \in Records(w.stored) :
       \/ x \in Records(q.stored)
       \/ /\ x.id = q.next /\ x.version = version /\ x.source = source
          /\ source = "online" => q.next \in w.pending
  /\ StillSome(q.stored, w.stored)

\* What add_episode does to the contents.
LEMMA AddKeeps ==
  ASSUME NEW q \in Reps, Sound(q.stored, q.next, q.pending), NEW e \in Episodes,
         NEW source \in {"online", "coldstart"}, NEW version \in 0 .. MaxSteps,
         NEW w, w = With(q, e, source, version)
  PROVE  w \in Reps /\ Sound(w.stored, w.next, w.pending) /\ Grown(q, w, source, version)
<1>1. CASE e.len < SeqLen
  <2>1. w = q
    BY <1>1 DEF With
  <2>2. q.next \in Nat
    BY DEF Reps
  <2>3. Grown(q, q, source, version)
    BY <2>2 DEF Grown, StillSome
  <2> QED
    BY <2>1, <2>3
<1>2. CASE ~(e.len < SeqLen)
  <2> DEFINE rr == [id |-> q.next, task |-> e.task, success |-> e.success,
                    len |-> e.len, source |-> source, version |-> version]
  <2>e. e.task \in Tasks /\ e.success \in BOOLEAN /\ e.len \in Nat /\ e.len \in Lengths
    BY StartsAssumption DEF Lengths
  <2>q. q.stored \in [Tasks -> Seq(Rec)] /\ q.next \in Nat /\ q.pending \in SUBSET Nat
    BY DEF Reps
  <2>1. /\ rr \in Rec /\ rr.task = e.task /\ rr.id = q.next /\ rr.len = e.len
        /\ rr.version = version /\ rr.source = source
    BY <2>e, <2>q DEF Rec
  <2>2. w = [stored |-> [q.stored EXCEPT ![e.task] = Evicted(Append(@, rr))],
             next |-> q.next + 1,
             pending |-> IF source = "online" THEN q.pending \cup {q.next} ELSE q.pending]
    BY <1>2 DEF With
  <2> HIDE DEF rr
  <2>3. PICK r \in Rec : r = rr
    BY <2>1
  <2>4. PICK b : b = Evicted(Append(q.stored[e.task], r))
    OBVIOUS
  <2>5. Fitting(q.stored[e.task], e.task, q.next) /\ q.stored[e.task] \in Seq(Rec)
    BY <2>e, <2>q DEF Sound
  <2>6. /\ b \in Seq(Rec) /\ Fitting(b, e.task, q.next + 1)
        /\ ToSet(b) \subseteq ToSet(q.stored[e.task]) \cup {r}
        /\ r.len <= Capacity => r \in ToSet(b)
    BY <2>1, <2>3, <2>4, <2>5, <2>e, <2>q, EvictedFits
  <2>7. PICK s : s = [q.stored EXCEPT ![e.task] = b]
    OBVIOUS
  <2>8. /\ s \in [Tasks -> Seq(Rec)] /\ s[e.task] = b
        /\ \A t \in Tasks : t # e.task => s[t] = q.stored[t]
    BY <2>6, <2>7, <2>q, <2>e
  <2>9. /\ w.stored = s /\ w.next = q.next + 1
        /\ w.pending = IF source = "online" THEN q.pending \cup {q.next} ELSE q.pending
    BY <2>2, <2>3, <2>4, <2>7
  <2>10. w.pending \in SUBSET Nat /\ w \in Reps
    <3>1. w.pending \in SUBSET Nat
      BY <2>9, <2>q
    <3> QED
      BY <2>2, <2>3, <2>4, <2>7, <2>8, <2>9, <2>q, <3>1 DEF Reps
  <2>11. ASSUME NEW t \in Tasks
         PROVE  /\ Fitting(s[t], t, q.next + 1)
                /\ \A x \in ToSet(s[t]) : x \in ToSet(q.stored[t]) \/ (x = r /\ t = e.task)
    <3>1. CASE t = e.task
      BY <2>6, <2>8, <3>1
    <3>2. CASE t # e.task
      <4>1. Fitting(q.stored[t], t, q.next) /\ s[t] = q.stored[t]
        BY <2>8, <3>2 DEF Sound
      <4>2. q.stored[t] \in Seq(Rec)
        BY <2>q
      <4>3. \A i \in DOMAIN q.stored[t] : q.stored[t][i].id < q.next + 1
        <5>1. SUFFICES ASSUME NEW i \in DOMAIN q.stored[t]
                       PROVE  q.stored[t][i].id < q.next + 1
          OBVIOUS
        <5>2. q.stored[t][i] \in Rec /\ q.stored[t][i].id < q.next
          BY <4>1, <4>2 DEF Fitting
        <5>3. q.stored[t][i].id \in Nat
          BY <5>2 DEF Rec
        <5> QED
          BY <2>q, <5>2, <5>3
      <4>4. Fitting(s[t], t, q.next + 1)
        BY <4>1, <4>3 DEF Fitting
      <4> QED
        BY <4>1, <4>4
    <3> QED
      BY <3>1, <3>2
  <2>12. ASSUME NEW t \in Tasks, NEW x \in ToSet(q.stored[t])
         PROVE  x.id < q.next /\ x \in Rec
    <3>1. PICK i \in DOMAIN q.stored[t] : x = q.stored[t][i]
      BY <2>12 DEF ToSet
    <3> QED
      BY <3>1, <2>q DEF Sound, Fitting
  <2>13. ASSUME NEW t \in Tasks, NEW u \in Tasks, NEW x \in ToSet(s[t]), NEW y \in ToSet(s[u]),
                x.id = y.id
         PROVE  t = u
    <3>1. x \in ToSet(q.stored[t]) \/ (x = r /\ t = e.task)
      BY <2>11
    <3>2. y \in ToSet(q.stored[u]) \/ (y = r /\ u = e.task)
      BY <2>11
    <3>3. r.id = q.next /\ ~(q.next < q.next)
      BY <2>1, <2>3, <2>q
    <3> QED
      BY <2>12, <2>13, <3>1, <3>2, <3>3 DEF Sound
  <2>14. w.pending \subseteq 0 .. w.next - 1
    <3>1. q.pending \subseteq 0 .. q.next - 1
      BY DEF Sound
    <3>2. 0 .. q.next - 1 \subseteq 0 .. (q.next + 1) - 1 /\ q.next \in 0 .. (q.next + 1) - 1
      BY <2>q
    <3> QED
      BY <2>9, <3>1, <3>2
  <2>15. Sound(w.stored, w.next, w.pending)
    BY <2>9, <2>11, <2>13, <2>14 DEF Sound
  <2>16. ASSUME NEW x \in Records(w.stored)
         PROVE  \/ x \in Records(q.stored)
                \/ /\ x.id = q.next /\ x.version = version /\ x.source = source
                   /\ source = "online" => q.next \in w.pending
    <3>1. PICK t \in Tasks : x \in ToSet(s[t])
      BY <2>9, <2>16 DEF Records
    <3> QED
      BY <2>1, <2>3, <2>9, <2>11, <3>1 DEF Records
  <2>17. ASSUME EpisodesFit
         PROVE  Records(w.stored) # {}
    <3>1. r \in ToSet(s[e.task])
      BY <2>1, <2>3, <2>6, <2>8, <2>17 DEF EpisodesFit
    <3> QED
      BY <2>9, <2>e, <3>1 DEF Records
  <2>18. q.next <= w.next /\ q.pending \subseteq w.pending /\ w.pending \subseteq q.pending \cup {q.next}
    BY <2>9, <2>q
  <2>19. Grown(q, w, source, version)
    BY <2>16, <2>17, <2>18 DEF Grown, StillSome
  <2> QED
    BY <2>10, <2>15, <2>19
<1> QED
  BY <1>1, <1>2

\* What every add_episode preserves, the loop over them preserves; by
\* induction on the first episode after which it would not hold.
LEMMA AllKeep ==
  ASSUME NEW G, NEW rep \in G, NEW eps \in Seq(Episodes), NEW source, NEW version,
         \A q \in G, e \in Episodes : With(q, e, source, version) \in G
  PROVE  WithAll(rep, eps, source, version) \in G
<1> DEFINE Body(f, n) == IF n = 0 THEN rep ELSE With(f[n - 1], eps[n], source, version)
           Is(f, m) == f = [n \in 0 .. m |-> Body(f, n)]
<1>l. Len(eps) \in Nat /\ \A n \in 1 .. Len(eps) : eps[n] \in Episodes
  OBVIOUS
<1>1. ASSUME NEW m \in Nat, NEW f, Is(f, m + 1)
      PROVE  Is([n \in 0 .. m |-> f[n]], m)
  <2>1. PICK g : g = [n \in 0 .. m |-> f[n]]
    OBVIOUS
  <2>2. \A n \in 0 .. m : g[n] = Body(g, n)
    <3>1. SUFFICES ASSUME NEW n \in 0 .. m
                   PROVE  g[n] = Body(g, n)
      OBVIOUS
    <3>2. g[n] = f[n] /\ f[n] = Body(f, n)
      BY <1>1, <2>1
    <3>3. n # 0 => g[n - 1] = f[n - 1]
      BY <2>1
    <3> QED
      BY <3>2, <3>3
  <2>3. g = [n \in 0 .. m |-> g[n]]
    BY <2>1
  <2>4. g = [n \in 0 .. m |-> Body(g, n)]
    BY <2>2, <2>3
  <2> QED
    BY <2>1, <2>4
<1>2. ASSUME NEW m \in Nat, NEW f, Is(f, m)
      PROVE  \E g : Is(g, m + 1)
  <2>1. PICK g : g = [n \in 0 .. m + 1 |-> IF n <= m THEN f[n]
                                           ELSE With(f[m], eps[m + 1], source, version)]
    OBVIOUS
  <2>2. ASSUME NEW n \in 0 .. m + 1
        PROVE  g[n] = Body(g, n)
    <3>1. CASE n <= m
      <4>1. n \in 0 .. m /\ g[n] = f[n] /\ f[n] = Body(f, n)
        BY <1>2, <2>1, <3>1
      <4>2. n # 0 => g[n - 1] = f[n - 1]
        BY <2>1, <4>1
      <4> QED
        BY <4>1, <4>2
    <3>2. CASE n = m + 1
      <4>1. g[n] = With(f[m], eps[m + 1], source, version) /\ n # 0 /\ n - 1 = m
        BY <2>1, <3>2
      <4>2. g[m] = f[m]
        BY <2>1
      <4> QED
        BY <3>2, <4>1, <4>2
    <3> QED
      BY <3>1, <3>2
  <2>3. g = [n \in 0 .. m + 1 |-> Body(g, n)]
    <3>1. g = [n \in 0 .. m + 1 |-> g[n]]
      BY <2>1
    <3> QED
      BY <2>2, <3>1
  <2> QED
    BY <2>3
<1>3. \A m \in Nat : \E f : Is(f, m)
  <2> DEFINE T == {m \in Nat : \A f : ~Is(f, m)}
  <2>1. SUFFICES ASSUME T # {}
                 PROVE  FALSE
    OBVIOUS
  <2>2. PICK m \in T : \A k \in T : m <= k
    BY <2>1, LeastNumber
  <2>3. m # 0
    <3>1. PICK f : f = [n \in 0 .. 0 |-> rep]
      OBVIOUS
    <3>2. f = [n \in 0 .. 0 |-> Body(f, n)]
      BY <3>1
    <3> QED
      BY <2>2, <3>2
  <2>m. m \in Nat
    BY <2>2
  <2>4. PICK k \in Nat : m = k + 1
    <3>1. m - 1 \in Nat /\ m = (m - 1) + 1
      BY ONLY <2>3, <2>m
    <3> QED
      BY ONLY <3>1
  <2>n. k \notin T
    <3>1. ~(m <= k)
      BY ONLY <2>m, <2>4
    <3> HIDE DEF T
    <3> QED
      BY <2>2, <3>1
  <2>5. PICK f : Is(f, k)
    BY <2>n
  <2>6. \E g : Is(g, k + 1)
    BY <1>2, <2>5
  <2>7. \E g : Is(g, m)
    BY ONLY <2>4, <2>6
  <2> QED
    BY <2>2, <2>7
<1>4. PICK f : f = CHOOSE g : Is(g, Len(eps))
  OBVIOUS
<1>5. Is(f, Len(eps))
  BY <1>3, <1>4, <1>l
<1>6. WithAll(rep, eps, source, version) = f[Len(eps)]
  BY <1>4 DEF WithAll
<1>7. \A n \in 0 .. Len(eps) : f[n] \in G
  <2> DEFINE T == {n \in 0 .. Len(eps) : f[n] \notin G}
  <2>1. SUFFICES ASSUME T # {}
                 PROVE  FALSE
    OBVIOUS
  <2>2. T \in SUBSET Nat
    BY <1>l
  <2>3. PICK n \in T : \A k \in T : n <= k
    BY <2>1, <2>2, LeastNumber
  <2>4. n \in 0 .. Len(eps) /\ f[n] \notin G /\ f[n] = Body(f, n)
    BY <1>5, <2>3
  <2>5. n # 0
    BY <2>4
  <2>6. n - 1 \in 0 .. Len(eps) /\ n - 1 \notin T /\ eps[n] \in Episodes
    BY <1>l, <2>3, <2>4, <2>5
  <2>7. f[n - 1] \in G
    BY <2>6
  <2> QED
    BY <2>4, <2>5, <2>6, <2>7
<1> QED
  BY <1>6, <1>7, <1>l

-----------------------------------------------------------------------------
(* Flattening.                                                             *)

FlatBody(q, f, i) == IF i = 1 THEN q[i] ELSE f[i - 1] \o q[i]
IsFlat(q, f, m)   == f = [i \in 1 .. m |-> FlatBody(q, f, i)]
Agree(p, q, m)    == \A i \in 1 .. m : p[i] = q[i]

\* The recursion of FlattenSeq has a solution, by induction on its length.
LEMMA FlatExists ==
  ASSUME NEW q, NEW m \in Nat
  PROVE  \E f : IsFlat(q, f, m)
<1> DEFINE T == {n \in Nat : \A f : ~IsFlat(q, f, n)}
<1>1. SUFFICES ASSUME T # {}
               PROVE  FALSE
  OBVIOUS
<1>2. PICK n \in T : \A k \in T : n <= k
  BY <1>1, LeastNumber
<1>n. n \in Nat
  BY <1>2
<1>3. n # 0
  <2>1. SUFFICES ASSUME n = 0
                 PROVE  FALSE
    OBVIOUS
  <2>2. PICK f : f = [i \in 1 .. 0 |-> 0]
    OBVIOUS
  <2>3. 1 .. 0 = {}
    OBVIOUS
  <2>4. [i \in 1 .. 0 |-> 0] = [i \in 1 .. 0 |-> FlatBody(q, f, i)]
    BY <2>3
  <2>5. IsFlat(q, f, 0)
    BY <2>2, <2>4 DEF IsFlat
  <2> QED
    BY <1>2, <2>1, <2>5
<1>4. PICK k \in Nat : n = k + 1
  <2>1. n - 1 \in Nat /\ n = (n - 1) + 1
    BY ONLY <1>3, <1>n
  <2> QED
    BY ONLY <2>1
<1>5. k \notin T
  <2>1. ~(n <= k)
    BY ONLY <1>n, <1>4
  <2> HIDE DEF T
  <2> QED
    BY <1>2, <2>1
<1>6. PICK f : IsFlat(q, f, k)
  BY <1>5
<1>7. PICK g : g = [i \in 1 .. k + 1 |-> IF i <= k THEN f[i] ELSE FlatBody(q, f, k + 1)]
  OBVIOUS
<1>8. ASSUME NEW i \in 1 .. k + 1
      PROVE  g[i] = FlatBody(q, g, i)
  <2>1. i - 1 \in 1 .. k => g[i - 1] = f[i - 1]
    BY <1>7
  <2>2. CASE i <= k
    <3>1. g[i] = f[i] /\ f[i] = FlatBody(q, f, i)
      BY <1>6, <1>7, <2>2 DEF IsFlat
    <3>2. i # 1 => i - 1 \in 1 .. k
      BY <2>2
    <3> QED
      BY <2>1, <3>1, <3>2 DEF FlatBody
  <2>3. CASE i = k + 1
    <3>1. g[i] = FlatBody(q, f, i)
      BY <1>7, <2>3
    <3>2. i # 1 => i - 1 \in 1 .. k
      BY <2>3
    <3> QED
      BY <2>1, <3>1, <3>2 DEF FlatBody
  <2> QED
    BY <2>2, <2>3
<1>9. IsFlat(q, g, n)
  <2>1. g = [i \in 1 .. k + 1 |-> g[i]]
    BY <1>7
  <2>2. g = [i \in 1 .. k + 1 |-> FlatBody(q, g, i)]
    BY <1>8, <2>1
  <2> QED
    BY <1>4, <2>2 DEF IsFlat
<1> QED
  BY <1>2, <1>9

\* Solutions agree where they are both defined.
LEMMA FlatUnique ==
  ASSUME NEW p, NEW q, NEW m \in Nat, NEW n \in Nat, m <= n,
         Agree(p, q, m), NEW f, IsFlat(p, f, m), NEW g, IsFlat(q, g, n)
  PROVE  Agree(f, g, m)
<1> DEFINE T == {i \in 1 .. m : f[i] # g[i]}
<1>1. SUFFICES ASSUME T # {}
               PROVE  FALSE
  BY DEF Agree
<1>2. T \in SUBSET Nat
  OBVIOUS
<1>3. PICK i \in T : \A k \in T : i <= k
  BY <1>1, <1>2, LeastNumber
<1>4. i \in 1 .. m /\ i \in 1 .. n /\ f[i] # g[i]
  BY <1>3
<1>5. f[i] = FlatBody(p, f, i) /\ g[i] = FlatBody(q, g, i)
  BY <1>4 DEF IsFlat
<1>6. i # 1 => f[i - 1] = g[i - 1]
  BY <1>3, <1>4
<1> QED
  BY <1>4, <1>5, <1>6 DEF FlatBody, Agree

\* FlattenSeq is the last value of a solution.
LEMMA FlatIs ==
  ASSUME NEW S, NEW q \in Seq(S), q # <<>>
  PROVE  \E f : IsFlat(q, f, Len(q)) /\ FlattenSeq(q) = f[Len(q)]
<1>1. Len(q) \in Nat /\ Len(q) # 0
  OBVIOUS
<1>2. PICK f : f = CHOOSE g : IsFlat(q, g, Len(q))
  OBVIOUS
<1>3. IsFlat(q, f, Len(q))
  BY <1>1, <1>2, FlatExists
<1>4. FlattenSeq(q) = f[Len(q)]
  BY <1>1, <1>2 DEF FlattenSeq, IsFlat, FlatBody
<1> QED
  BY <1>3, <1>4

\* What holds of nothing, and is kept when a block is added, holds of the blocks
\* put together.
LEMMA FlatKeeps ==
  ASSUME NEW S, NEW B \in SUBSET Seq(S), NEW G, <<>> \in G,
         \A p \in G, b \in B : p \o b \in G, NEW q \in Seq(B)
  PROVE  FlattenSeq(q) \in G
<1>1. CASE q = <<>>
  <2>1. Len(q) = 0
    BY <1>1
  <2> QED
    BY <1>1, <2>1 DEF FlattenSeq
<1>2. CASE q # <<>>
  <2>1. PICK f : IsFlat(q, f, Len(q)) /\ FlattenSeq(q) = f[Len(q)]
    BY <1>2, FlatIs
  <2>2. PICK n \in Nat : n = Len(q) /\ n # 0
    BY <1>2
  <2>3. \A i \in 1 .. n : f[i] \in G
    <3> DEFINE T == {i \in 1 .. n : f[i] \notin G}
    <3>1. SUFFICES ASSUME T # {}
                   PROVE  FALSE
      OBVIOUS
    <3>2. T \in SUBSET Nat
      OBVIOUS
    <3>3. PICK i \in T : \A k \in T : i <= k
      BY <3>1, <3>2, LeastNumber
    <3>4. i \in 1 .. n /\ f[i] \notin G
      BY <3>3
    <3>5. f[i] = FlatBody(q, f, i) /\ q[i] \in B /\ q[i] \in Seq(S)
      <4>1. IsFlat(q, f, n) /\ i \in DOMAIN q
        BY <2>1, <2>2, <3>4
      <4>2. f[i] = FlatBody(q, f, i)
        BY ONLY <3>4, <4>1 DEF IsFlat
      <4>3. q[i] \in B
        BY <4>1
      <4> QED
        BY <4>2, <4>3
    <3>6. i # 1 => f[i - 1] \in G
      BY <3>3, <3>4
    <3>7. CASE i = 1
      <4>1. <<>> \o q[i] = q[i]
        BY <3>5, ConcatEmptySeq
      <4> QED
        BY <3>4, <3>5, <3>7, <4>1 DEF FlatBody
    <3>8. CASE i # 1
      BY <3>4, <3>5, <3>6, <3>8 DEF FlatBody
    <3> QED
      BY <3>7, <3>8
  <2> QED
    BY <2>1, <2>2, <2>3
<1> QED
  BY <1>1, <1>2

\* The last block comes last.
LEMMA FlatLast ==
  ASSUME NEW S, NEW q \in Seq(Seq(S)), q # <<>>
  PROVE  /\ Front(q) \in Seq(Seq(S)) /\ FlattenSeq(Front(q)) \in Seq(S)
         /\ FlattenSeq(q) = FlattenSeq(Front(q)) \o q[Len(q)]
<1>1. PICK n \in Nat : n = Len(q) /\ n # 0
  OBVIOUS
<1>2. PICK p : p = Front(q)
  OBVIOUS
<1>3. /\ p \in Seq(Seq(S)) /\ Len(p) = n - 1
      /\ \A i \in 1 .. n - 1 : p[i] = q[i]
  <2>1. \A i \in 1 .. n - 1 : q[i] \in Seq(S)
    BY <1>1
  <2>2. /\ SubSeq(q, 1, n - 1) \in Seq(Seq(S))
        /\ Len(SubSeq(q, 1, n - 1)) = (IF 1 <= n - 1 THEN (n - 1) - 1 + 1 ELSE 0)
        /\ \A i \in 1 .. (n - 1) - 1 + 1 : SubSeq(q, 1, n - 1)[i] = q[1 + i - 1]
    BY <1>1, <2>1, SubSeqProperties
  <2>3. p = SubSeq(q, 1, n - 1)
    BY <1>1, <1>2 DEF Front
  <2> QED
    BY <1>1, <2>2, <2>3
<1>4. FlattenSeq(p) \in Seq(S)
  <2>1. <<>> \in Seq(S) /\ \A a \in Seq(S), b \in Seq(S) : a \o b \in Seq(S)
    BY ConcatProperties, EmptySeq
  <2> QED
    BY <1>3, <2>1, FlatKeeps
<1>5. PICK f : IsFlat(q, f, n) /\ FlattenSeq(q) = f[n]
  BY <1>1, FlatIs
<1>6. f[n] = FlatBody(q, f, n) /\ q[n] \in Seq(S)
  <2>1. n \in 1 .. n
    BY ONLY <1>1
  <2>2. f[n] = FlatBody(q, f, n)
    BY ONLY <1>5, <2>1 DEF IsFlat
  <2>3. n \in DOMAIN q
    BY <1>1, <2>1
  <2> QED
    BY <2>2, <2>3
<1>7. CASE n = 1
  <2>1. Len(p) = 0 /\ p = <<>>
    BY <1>3, <1>7
  <2>2. FlattenSeq(p) = <<>>
    BY <2>1 DEF FlattenSeq
  <2>3. <<>> \o q[n] = q[n]
    BY <1>6, ConcatEmptySeq
  <2> QED
    BY <1>1, <1>2, <1>3, <1>4, <1>5, <1>6, <1>7, <2>2, <2>3 DEF FlatBody
<1>8. CASE n # 1
  <2>1. p # <<>> /\ n - 1 \in Nat /\ n - 1 \in 1 .. n - 1
    BY <1>1, <1>3, <1>8
  <2>2. PICK g : IsFlat(p, g, n - 1) /\ FlattenSeq(p) = g[n - 1]
    BY <1>3, <2>1, FlatIs
  <2>3. g[n - 1] = f[n - 1]
    <3>1. PICK m \in Nat : m = n - 1 /\ m <= n
      BY <1>1, <2>1
    <3>2. m \in 1 .. m /\ Agree(p, q, m) /\ IsFlat(p, g, m)
      BY <1>3, <2>1, <2>2, <3>1 DEF Agree
    <3>3. Agree(g, f, m)
      <4>1. m \in Nat /\ n \in Nat /\ m <= n /\ IsFlat(q, f, n)
        BY <1>1, <1>5, <3>1
      <4> QED
        BY ONLY <3>2, <4>1, FlatUnique
    <3> QED
      BY ONLY <3>1, <3>2, <3>3 DEF Agree
  <2>4. FlattenSeq(q) = FlattenSeq(p) \o q[n]
    BY <1>5, <1>6, <1>8, <2>2, <2>3 DEF FlatBody
  <2> QED
    BY <1>1, <1>2, <1>3, <1>4, <2>4
<1> QED
  BY <1>7, <1>8

-----------------------------------------------------------------------------
(* Sets of numbers in increasing order.                                    *)

Smaller(S, x) == {j \in S : j < x}

\* InOrder lists every member of the set once, the k-th with k - 1 below it.
LEMMA Ordered ==
  ASSUME NEW S \in SUBSET Nat, IsFiniteSet(S), NEW f, f = InOrder(S)
  PROVE  /\ Cardinality(S) \in Nat /\ f \in [1 .. Cardinality(S) -> S]
         /\ f \in Seq(S) /\ Len(f) = Cardinality(S)
         /\ \A k \in 1 .. Cardinality(S) : Cardinality(Smaller(S, f[k])) = k - 1
         /\ \A i, j \in 1 .. Cardinality(S) : i < j => f[i] < f[j]
         /\ \A x \in S : \E k \in 1 .. Cardinality(S) : f[k] = x
<1>1. Cardinality(S) \in Nat
  BY FS_CardinalityType
<1>2. \A x \in S : IsFiniteSet(Smaller(S, x)) /\ Cardinality(Smaller(S, x)) \in Nat
  BY FS_Subset, FS_CardinalityType DEF Smaller
<1>3. ASSUME NEW x \in S
      PROVE  Cardinality(Smaller(S, x)) + 1 \in 1 .. Cardinality(S)
  <2>1. x \notin Smaller(S, x) /\ Smaller(S, x) \cup {x} \in SUBSET S
    BY DEF Smaller
  <2>2. Cardinality(Smaller(S, x) \cup {x}) = Cardinality(Smaller(S, x)) + 1
    BY <1>2, <2>1, FS_AddElement
  <2>3. Cardinality(Smaller(S, x) \cup {x}) <= Cardinality(S)
    BY <2>1, FS_Subset
  <2> QED
    BY <1>1, <1>2, <2>2, <2>3
<1>4. ASSUME NEW x \in S, NEW y \in S, x < y
      PROVE  Cardinality(Smaller(S, x)) < Cardinality(Smaller(S, y))
  <2>n. x \in Nat /\ y \in Nat /\ \A j \in S : j \in Nat
    OBVIOUS
  <2>0. \A j \in S : j < x => j < y
    BY <1>4, <2>n
  <2>1. x \notin Smaller(S, x) /\ Smaller(S, x) \cup {x} \in SUBSET Smaller(S, y)
    <3>1. ~(x < x)
      BY <2>n
    <3>2. \A j : j \in Smaller(S, x) <=> j \in S /\ j < x
      BY DEF Smaller
    <3>3. \A j : j \in Smaller(S, y) <=> j \in S /\ j < y
      BY DEF Smaller
    <3> QED
      BY <1>4, <2>0, <3>1, <3>2, <3>3
  <2>2. Cardinality(Smaller(S, x) \cup {x}) = Cardinality(Smaller(S, x)) + 1
    BY <1>2, <2>1, FS_AddElement
  <2>3. Cardinality(Smaller(S, x) \cup {x}) <= Cardinality(Smaller(S, y))
    BY <1>2, <2>1, FS_Subset
  <2> QED
    BY <1>2, <2>2, <2>3
<1>5. ASSUME NEW x \in S, NEW y \in S, Cardinality(Smaller(S, x)) = Cardinality(Smaller(S, y))
      PROVE  x = y
  <2>1. ~(Cardinality(Smaller(S, x)) < Cardinality(Smaller(S, y)))
        /\ ~(Cardinality(Smaller(S, y)) < Cardinality(Smaller(S, x)))
    BY <1>2, <1>5
  <2>2. ~(x < y) /\ ~(y < x)
    BY <1>4, <2>1
  <2> QED
    BY <2>2
<1>6. ASSUME NEW i \in 1 .. Cardinality(S)
      PROVE  \E x \in S : Cardinality(Smaller(S, x)) = i - 1
  <2> DEFINE T == 1 .. Cardinality(S)
             g == [x \in S |-> Cardinality(Smaller(S, x)) + 1]
  <2>1. g \in Injection(S, T)
    BY <1>2, <1>3, <1>5 DEF Injection, IsInjective
  <2>2. IsFiniteSet(T) /\ Cardinality(T) = Cardinality(S)
    BY <1>1, FS_Interval
  <2>3. g \in Surjection(S, T)
    BY <2>1, <2>2, FS_Injection
  <2>4. PICK x \in S : g[x] = i
    BY <2>3 DEF Surjection
  <2>5. Cardinality(Smaller(S, x)) + 1 = i /\ Cardinality(Smaller(S, x)) \in Nat
    BY <1>2, <2>4
  <2> QED
    BY <2>5
<1>7. f = [k \in 1 .. Cardinality(S) |->
             CHOOSE i \in S : Cardinality(Smaller(S, i)) = k - 1]
  BY DEF InOrder, Smaller
<1>8. ASSUME NEW k \in 1 .. Cardinality(S)
      PROVE  f[k] \in S /\ Cardinality(Smaller(S, f[k])) = k - 1
  BY <1>6, <1>7
<1>9. f \in [1 .. Cardinality(S) -> S]
  BY <1>7, <1>8
<1>10. f \in Seq(S) /\ Len(f) = Cardinality(S)
  BY <1>1, <1>9
<1>11. ASSUME NEW i \in 1 .. Cardinality(S), NEW j \in 1 .. Cardinality(S), i < j
       PROVE  f[i] < f[j]
  <2>1. f[i] \in S /\ f[j] \in S /\ f[i] \in Nat /\ f[j] \in Nat
    BY <1>8
  <2>2. Cardinality(Smaller(S, f[i])) = i - 1 /\ Cardinality(Smaller(S, f[j])) = j - 1
    BY <1>8
  <2>3. f[i] # f[j]
    BY <1>11, <2>2
  <2>4. ~(f[j] < f[i])
    <3>1. ~(j - 1 < i - 1)
      BY <1>11
    <3> QED
      BY <1>4, <2>1, <2>2, <3>1
  <2> QED
    BY <2>1, <2>3, <2>4
<1>12. ASSUME NEW x \in S
       PROVE  \E k \in 1 .. Cardinality(S) : f[k] = x
  <2>1. PICK k \in 1 .. Cardinality(S) : Cardinality(Smaller(S, x)) + 1 = k
    BY <1>3
  <2>2. f[k] \in S /\ Cardinality(Smaller(S, f[k])) = Cardinality(Smaller(S, x))
    BY <1>1, <1>2, <1>8, <2>1
  <2>3. f[k] = x
    BY <1>5, <2>2
  <2> QED
    BY <2>3
<1> QED
  BY <1>1, <1>8, <1>9, <1>10, <1>11, <1>12

-----------------------------------------------------------------------------
(* The records a start may be drawn from.                                  *)

Stored == stored \in [Tasks -> Seq(Rec)] /\ nextId \in Nat
          /\ Sound(stored, nextId, pendingLatest)

\* The eligible records of a task are those that are stored, each once.
LEMMA EligibleAre ==
  ASSUME Stored, NEW t \in Tasks, NEW failed, NEW q, q = EligibleOf(t, failed)
  PROVE  /\ q \in Seq(Rec)
         /\ \A r : r \in ToSet(q) <=> r \in ToSet(stored[t]) /\ (failed => ~r.success)
         /\ \A i, j \in DOMAIN q : i < j => q[i].id < q[j].id
<1> DEFINE keep == {i \in DOMAIN stored[t] : failed => ~stored[t][i].success}
<1>s. stored[t] \in Seq(Rec) /\ Fitting(stored[t], t, nextId)
  BY DEF Stored, Sound
<1>1. PICK p : p = InOrder(keep)
  OBVIOUS
<1>2. keep \in SUBSET (1 .. Len(stored[t])) /\ keep \in SUBSET Nat /\ Len(stored[t]) \in Nat
  BY <1>s
<1>3. IsFiniteSet(keep)
  <2>1. IsFiniteSet(1 .. Len(stored[t]))
    BY <1>2, FS_Interval
  <2> HIDE DEF keep
  <2> QED
    BY <1>2, <2>1, FS_Subset
<1>4. q = [k \in DOMAIN p |-> stored[t][p[k]]]
  BY <1>1 DEF EligibleOf
<1>k. keep \subseteq DOMAIN stored[t]
      /\ \A i \in DOMAIN stored[t] : i \in keep <=> (failed => ~stored[t][i].success)
  OBVIOUS
<1> HIDE DEF keep
<1>5. PICK n \in Nat : n = Cardinality(keep)
  BY <1>2, <1>3, FS_CardinalityType
<1>6. /\ p \in [1 .. n -> keep]
      /\ \A i, j \in 1 .. n : i < j => p[i] < p[j]
      /\ \A x \in keep : \E k \in 1 .. n : p[k] = x
  BY <1>1, <1>2, <1>3, <1>5, Ordered
<1>7. ASSUME NEW k \in 1 .. n
      PROVE  p[k] \in DOMAIN stored[t] /\ stored[t][p[k]] \in Rec
  BY <1>6, <1>k, <1>s
<1>8. q \in [1 .. n -> Rec] /\ \A k \in 1 .. n : q[k] = stored[t][p[k]]
  BY <1>4, <1>6, <1>7
<1>9. q \in Seq(Rec) /\ DOMAIN q = 1 .. n
  BY <1>8
<1>10. ASSUME NEW r
       PROVE  r \in ToSet(q) <=> r \in ToSet(stored[t]) /\ (failed => ~r.success)
  <2>1. ASSUME r \in ToSet(q)
        PROVE  r \in ToSet(stored[t]) /\ (failed => ~r.success)
    <3>1. PICK k \in 1 .. n : r = q[k]
      BY <1>9, <2>1 DEF ToSet
    <3>2. p[k] \in keep /\ p[k] \in DOMAIN stored[t] /\ r = stored[t][p[k]]
      BY <1>6, <1>7, <1>8, <3>1
    <3> QED
      BY <1>k, <3>2 DEF ToSet
  <2>2. ASSUME r \in ToSet(stored[t]), failed => ~r.success
        PROVE  r \in ToSet(q)
    <3>1. PICK i \in DOMAIN stored[t] : r = stored[t][i]
      BY <2>2 DEF ToSet
    <3>2. i \in keep
      BY <1>k, <2>2, <3>1
    <3>3. PICK k \in 1 .. n : p[k] = i
      BY <1>6, <3>2
    <3> QED
      BY <1>8, <1>9, <3>1, <3>3 DEF ToSet
  <2> QED
    BY <2>1, <2>2
<1>11. ASSUME NEW i \in 1 .. n, NEW j \in 1 .. n, i < j
       PROVE  q[i].id < q[j].id
  <2>1. p[i] < p[j]
    BY <1>6, <1>11
  <2> QED
    BY <1>7, <1>8, <1>s, <2>1 DEF Fitting
<1> QED
  BY <1>9, <1>10, <1>11

\* The n tasks that have eligible records, each once.
TasksInTurn(tasks, n, failed) ==
  /\ tasks \in [1 .. n -> Tasks]
  /\ \A k \in 1 .. n : EligibleOf(tasks[k], failed) # <<>>
  /\ \A t \in Tasks : EligibleOf(t, failed) # <<>> => \E k \in 1 .. n : tasks[k] = t
  /\ \A j, k \in 1 .. n : tasks[j] = tasks[k] => j = k

RecordInTurn(tasks, n, failed, i) ==
  LET recs == EligibleOf(tasks[(i % n) + 1], failed)
  IN recs[((i \div n) % Len(recs)) + 1]

\* Some task has eligible records if any record is eligible; the tasks that have
\* some take turns, and so do the records of each.
LEMMA StartIs ==
  ASSUME Stored, NEW failed, Eligible(failed) # {}
  PROVE  \E n \in Nat \ {0} : \E tasks :
           /\ tasks = EligibleTasks(failed) /\ Len(tasks) = n
           /\ TasksInTurn(tasks, n, failed)
           /\ \A i : StartAt(i, failed) = RecordInTurn(tasks, n, failed, i)
<1> DEFINE some == {t \in Tasks : EligibleOf(t, failed) # <<>>}
<1>1. some \in SUBSET Nat /\ IsFiniteSet(some)
  <2>1. Tasks = 1 .. NumTasks /\ IsFiniteSet(1 .. NumTasks) /\ Tasks \in SUBSET Nat
    BY Sizes, FS_Interval DEF Tasks
  <2>2. some \in SUBSET Tasks
    OBVIOUS
  <2> HIDE DEF some
  <2> QED
    BY <2>1, <2>2, FS_Subset
<1>2. some # {}
  <2>1. PICK r \in Records(stored) : failed => ~r.success
    BY DEF Eligible
  <2>2. PICK t \in Tasks : r \in ToSet(stored[t])
    BY <2>1 DEF Records
  <2>3. PICK q : q = EligibleOf(t, failed)
    OBVIOUS
  <2>4. q \in Seq(Rec) /\ r \in ToSet(q)
    BY <2>1, <2>2, <2>3, EligibleAre
  <2>5. q # <<>>
    BY <2>4, Members
  <2> QED
    BY <2>3, <2>5
<1>3. PICK tasks : tasks = InOrder(some)
  OBVIOUS
<1>k. \A t : t \in some <=> t \in Tasks /\ EligibleOf(t, failed) # <<>>
  OBVIOUS
<1>e. EligibleTasks(failed) = tasks
  BY <1>3 DEF EligibleTasks
<1> HIDE DEF some
<1>4. PICK n \in Nat : n = Cardinality(some)
  BY <1>1, FS_CardinalityType
<1>5. n # 0
  BY <1>1, <1>2, <1>4, FS_EmptySet
<1>6. /\ tasks \in [1 .. n -> some] /\ tasks \in Seq(some) /\ Len(tasks) = n
      /\ \A i, j \in 1 .. n : i < j => tasks[i] < tasks[j]
      /\ \A x \in some : \E k \in 1 .. n : tasks[k] = x
  BY <1>1, <1>3, <1>4, Ordered
<1>7. tasks \in [1 .. n -> Tasks] /\ \A k \in 1 .. n : EligibleOf(tasks[k], failed) # <<>>
  BY <1>6, <1>k
<1>8. ASSUME NEW j \in 1 .. n, NEW k \in 1 .. n, tasks[j] = tasks[k]
      PROVE  j = k
  <2>0. tasks[j] \in some /\ tasks[j] \in Nat
    BY <1>1, <1>6
  <2>1. ~(tasks[j] < tasks[k]) /\ ~(tasks[k] < tasks[j])
    BY <1>8, <2>0
  <2> QED
    BY <1>6, <2>1
<1>9. \A i : StartAt(i, failed) = RecordInTurn(tasks, n, failed, i)
  BY <1>6, <1>e DEF StartAt, RecordInTurn
<1>10. TasksInTurn(tasks, n, failed)
  BY <1>6, <1>7, <1>8, <1>k DEF TasksInTurn
<1> QED
  BY <1>5, <1>6, <1>e, <1>9, <1>10

\* The start that is drawn is an eligible record.
LEMMA StartEligible ==
  ASSUME Stored, NEW failed, Eligible(failed) # {}, NEW i \in Nat
  PROVE  StartAt(i, failed) \in Eligible(failed) /\ StartAt(i, failed) \in Rec
<1>0. PICK n \in Nat \ {0} : \E tasks :
           /\ TasksInTurn(tasks, n, failed)
           /\ \A j : StartAt(j, failed) = RecordInTurn(tasks, n, failed, j)
  BY StartIs
<1>1. PICK tasks : /\ TasksInTurn(tasks, n, failed)
                   /\ \A j : StartAt(j, failed) = RecordInTurn(tasks, n, failed, j)
  BY <1>0
<1>2. (i % n) + 1 \in 1 .. n /\ i \div n \in Nat
  BY <1>0
<1>3. PICK t \in Tasks : t = tasks[(i % n) + 1]
  BY <1>1, <1>2 DEF TasksInTurn
<1>4. PICK q : q = EligibleOf(t, failed)
  OBVIOUS
<1>5. q \in Seq(Rec) /\ q # <<>>
  BY <1>1, <1>2, <1>3, <1>4, EligibleAre DEF TasksInTurn
<1>6. PICK m \in Nat \ {0} : m = Len(q)
  BY <1>5
<1>7. ((i \div n) % m) + 1 \in 1 .. m
  <2>1. PICK d \in Nat : d = i \div n
    BY <1>2
  <2>2. (d % m) + 1 \in 1 .. m
    OBVIOUS
  <2> QED
    BY ONLY <2>1, <2>2
<1>8. PICK r : r = StartAt(i, failed)
  OBVIOUS
<1>9. r \in ToSet(q)
  <2>1. r = q[((i \div n) % m) + 1]
    BY <1>1, <1>3, <1>4, <1>6, <1>8 DEF RecordInTurn
  <2> QED
    BY <1>5, <1>6, <1>7, <2>1 DEF ToSet
<1>10. r \in ToSet(stored[t]) /\ (failed => ~r.success) /\ r \in Rec
  BY <1>4, <1>5, <1>9, EligibleAre, Members
<1> QED
  BY <1>8, <1>10 DEF Eligible, Records

-----------------------------------------------------------------------------
(* Classifier windows.                                                     *)

Windows == {w \in [rec : Rec, end : Nat, positive : BOOLEAN, last : BOOLEAN] :
              WindowEnv <= w.end /\ w.end <= w.rec.len}
Cuts    == {w \in Windows : w.rec \in Records(stored)}
Blocks  == UNION {WindowsOf(r) : r \in Candidates}

\* In a sequence of whole blocks every end window has its early negative.
Paired(p) == \A i \in DOMAIN p : p[i].last /\ EarlyEnds(p[i].rec) # {} =>
                i < Len(p) /\ p[i + 1].rec = p[i].rec /\ ~p[i + 1].last

\* One window may wait for the next batch, and it is an early negative.
Waiting(q) == q \in Seq(Windows) /\ Len(q) <= 1 /\ \A i \in DOMAIN q : ~q[i].last

LEMMA StoredRecords ==
  ASSUME Stored
  PROVE  Records(stored) \subseteq Rec
BY DEF Stored, Records, ToSet

\* What one draw yields.
LEMMA OneBlock ==
  ASSUME Stored, NEW b \in Blocks
  PROVE  /\ b \in Seq(Cuts) /\ Len(b) \in {1, 2} /\ Paired(b)
         /\ Len(b) = 2 => ~b[2].last
<1>1. PICK r \in Candidates : b \in WindowsOf(r)
  BY DEF Blocks
<1>2. r \in Records(stored) /\ r \in Rec /\ r.len >= WindowEnv
  BY <1>1, StoredRecords DEF Candidates
<1>3. PICK n \in Nat : n = r.len
  BY <1>2 DEF Rec
<1>4. EndWindow(r) \in Cuts /\ EndWindow(r).rec = r /\ EndWindow(r).last
  <2>1. r.success \in BOOLEAN
    BY <1>2 DEF Rec
  <2> QED
    BY <1>2, <1>3, <2>1 DEF EndWindow, Cuts, Windows
<1>5. ASSUME NEW e \in EarlyEnds(r)
      PROVE  Early(r, e) \in Cuts /\ Early(r, e).rec = r /\ ~Early(r, e).last
  <2>1. e \in WindowEnv .. n - Stride
    BY <1>3, <1>5 DEF EarlyEnds
  <2>2. e \in Nat /\ WindowEnv <= e /\ e <= n
    BY <1>3, <2>1, Sizes
  <2> QED
    BY <1>2, <1>3, <2>2 DEF Early, Cuts, Windows
<1>6. CASE EarlyEnds(r) = {}
  <2>1. b = <<EndWindow(r)>>
    BY <1>1, <1>6 DEF WindowsOf
  <2>2. PICK w : w = EndWindow(r)
    OBVIOUS
  <2> QED
    BY <1>4, <1>6, <2>1, <2>2 DEF Paired
<1>7. CASE EarlyEnds(r) # {}
  <2>1. PICK e \in EarlyEnds(r) : b = <<EndWindow(r), Early(r, e)>>
    BY <1>1, <1>7 DEF WindowsOf
  <2>2. PICK w, v : w = EndWindow(r) /\ v = Early(r, e)
    OBVIOUS
  <2>3. w \in Cuts /\ v \in Cuts /\ w.rec = r /\ v.rec = r /\ ~v.last
    BY <1>4, <1>5, <2>2
  <2>4. b = <<w, v>>
    BY <2>1, <2>2
  <2> QED
    BY <2>3, <2>4 DEF Paired
<1> QED
  BY <1>6, <1>7

\* Whole blocks stay whole when they are put together.
LEMMA PairedConcat ==
  ASSUME NEW S, NEW p \in Seq(S), NEW q \in Seq(S), Paired(p), Paired(q)
  PROVE  Paired(p \o q)
<1>1. /\ p \o q \in Seq(S) /\ Len(p \o q) = Len(p) + Len(q)
      /\ \A i \in 1 .. Len(p) + Len(q) :
           (p \o q)[i] = IF i <= Len(p) THEN p[i] ELSE q[i - Len(p)]
  BY ConcatProperties
<1>2. PICK m \in Nat, n \in Nat : m = Len(p) /\ n = Len(q)
  OBVIOUS
<1>3. PICK a : a = p \o q
  OBVIOUS
<1>4. /\ DOMAIN a = 1 .. m + n /\ Len(a) = m + n
      /\ \A i \in 1 .. m + n : a[i] = IF i <= m THEN p[i] ELSE q[i - m]
  BY <1>1, <1>2, <1>3
<1>5. ASSUME NEW i \in 1 .. m + n, a[i].last, EarlyEnds(a[i].rec) # {}
      PROVE  i < m + n /\ a[i + 1].rec = a[i].rec /\ ~a[i + 1].last
  <2>1. CASE i <= m
    <3>1. a[i] = p[i] /\ i \in DOMAIN p
      BY <1>2, <1>4, <2>1
    <3>2. i < m /\ p[i + 1].rec = p[i].rec /\ ~p[i + 1].last
      BY <1>2, <1>5, <3>1 DEF Paired
    <3>3. i + 1 \in 1 .. m + n /\ i + 1 <= m
      BY <1>2, <3>2
    <3>4. a[i + 1] = p[i + 1]
      BY <1>4, <3>3
    <3> QED
      BY <1>2, <3>1, <3>2, <3>4
  <2>2. CASE ~(i <= m)
    <3>1. PICK j \in DOMAIN q : j = i - m
      BY <1>2, <2>2
    <3>2. a[i] = q[j]
      BY <1>4, <2>2, <3>1
    <3>3. j < n /\ q[j + 1].rec = q[j].rec /\ ~q[j + 1].last
      BY <1>2, <1>5, <3>2 DEF Paired
    <3>4. i + 1 \in 1 .. m + n /\ ~(i + 1 <= m) /\ (i + 1) - m = j + 1 /\ i < m + n
      BY <1>2, <2>2, <3>1, <3>3
    <3>5. a[i + 1] = q[j + 1]
      BY <1>4, <3>4
    <3> QED
      BY <3>2, <3>3, <3>4, <3>5
  <2> QED
    BY <2>1, <2>2
<1> QED
  BY <1>3, <1>4, <1>5 DEF Paired

\* A classifier batch and what is left over are whole blocks after the window
\* that waited; at most one window waits again, an early negative.
LEMMA WindowsSampled ==
  ASSUME Stored, Waiting(windowQueue), NEW size \in Nat \ {0}, SampleWindows(size)
  PROVE  \E flat \in Seq(Cuts) :
           /\ Paired(flat)
           /\ windows' \o windowQueue' = windowQueue \o flat
           /\ windows' \in Seq(Windows) /\ Waiting(windowQueue')
           /\ ToSet(windows') \cup ToSet(windowQueue') \subseteq ToSet(windowQueue) \cup Cuts
<1>1. PICK n \in 0 .. size : \E draws \in [1 .. n -> Blocks] :
         LET all == windowQueue \o FlattenSeq(draws)
         IN /\ Len(all) >= size
            /\ n > 0 => Len(windowQueue \o FlattenSeq(Front(draws))) < size
            /\ windows' = SubSeq(all, 1, size)
            /\ windowQueue' = LeftOver(all, size)
  BY DEF SampleWindows, Blocks
<1>2. PICK draws \in [1 .. n -> Blocks] :
         LET all == windowQueue \o FlattenSeq(draws)
         IN /\ Len(all) >= size
            /\ n > 0 => Len(windowQueue \o FlattenSeq(Front(draws))) < size
            /\ windows' = SubSeq(all, 1, size)
            /\ windowQueue' = LeftOver(all, size)
  BY <1>1
<1>n. n \in Nat
  BY <1>1
<1>3. draws \in Seq(Blocks) /\ Len(draws) = n
  BY <1>2, <1>n
<1>4. Blocks \in SUBSET Seq(Cuts)
  BY OneBlock
<1>5. PICK flat : flat = FlattenSeq(draws)
  OBVIOUS
<1>6. flat \in Seq(Cuts) /\ Paired(flat)
  <2>1. PICK G : G = {p \in Seq(Cuts) : Paired(p)}
    OBVIOUS
  <2>2. <<>> \in G
    BY <2>1 DEF Paired
  <2>3. \A p \in G, b \in Blocks : p \o b \in G
    <3>1. SUFFICES ASSUME NEW p \in G, NEW b \in Blocks
                   PROVE  p \o b \in G
      OBVIOUS
    <3>2. p \in Seq(Cuts) /\ Paired(p) /\ b \in Seq(Cuts) /\ Paired(b)
      BY <2>1, OneBlock
    <3>3. p \o b \in Seq(Cuts) /\ Paired(p \o b)
      BY ONLY <3>2, PairedConcat, ConcatProperties
    <3> QED
      BY <2>1, <3>3
  <2>4. flat \in G
    BY <1>3, <1>4, <1>5, <2>2, <2>3, FlatKeeps
  <2> QED
    BY <2>1, <2>4
<1>7. Cuts \subseteq Windows
  BY DEF Cuts
<1>8. flat \in Seq(Windows) /\ windowQueue \in Seq(Windows) /\ Len(windowQueue) <= 1
  <2>1. flat \in Seq(Windows)
    BY <1>6, <1>7, SeqMonotonic
  <2> QED
    BY <2>1 DEF Waiting
<1>9. PICK all \in Seq(Windows) : /\ all = windowQueue \o flat
                                  /\ Len(all) = Len(windowQueue) + Len(flat)
                                  /\ ToSet(all) = ToSet(windowQueue) \cup ToSet(flat)
  <2>1. windowQueue \o flat \in Seq(Windows)
    BY <1>8, ConcatProperties
  <2>2. Len(windowQueue \o flat) = Len(windowQueue) + Len(flat)
    BY <1>8, ConcatProperties
  <2>3. ToSet(windowQueue \o flat) = ToSet(windowQueue) \cup ToSet(flat)
    BY <1>8, ConcatMembers
  <2> QED
    BY <2>1, <2>2, <2>3
<1>10. PICK m \in Nat : m = Len(all)
  BY <1>9
<1>11. /\ m >= size /\ windows' = SubSeq(all, 1, size)
       /\ windowQueue' = SubSeq(all, size + 1, m)
  BY <1>2, <1>5, <1>9, <1>10 DEF LeftOver
<1>12. PICK rest : rest = SubSeq(all, size + 1, m)
  OBVIOUS
<1>13. /\ rest \in Seq(Windows) /\ Len(rest) = m - size
       /\ \A i \in 1 .. m - size : rest[i] = all[size + i]
  <2>1. \A i \in size + 1 .. m : all[i] \in Windows
    BY <1>9, <1>10
  <2>2. /\ rest \in Seq(Windows)
        /\ Len(rest) = IF size + 1 <= m THEN m - (size + 1) + 1 ELSE 0
        /\ \A i \in 1 .. m - (size + 1) + 1 : rest[i] = all[(size + 1) + i - 1]
    BY <1>10, <1>12, <2>1, SubSeqProperties
  <2>3. CASE m = size
    <3>1. Len(rest) = 0 /\ m - size = 0
      BY <1>10, <2>2, <2>3
    <3> QED
      BY <2>2, <3>1
  <2>4. CASE m # size
    <3>1. size + 1 <= m /\ m - (size + 1) + 1 = m - size
      BY <1>10, <1>11, <2>4
    <3>2. \A i \in 1 .. m - size : (size + 1) + i - 1 = size + i
      BY <1>10
    <3> QED
      BY <2>2, <3>1, <3>2
  <2> QED
    BY <2>3, <2>4
<1>14. windows' \in Seq(Windows) /\ windows' \o windowQueue' = all
  <2>1. size \in 1 .. m /\ m \in 1 .. m /\ size \in Nat
    BY <1>10, <1>11
  <2>2. \A i \in 1 .. size : all[i] \in Windows
    BY <1>9, <1>10, <2>1
  <2>3. SubSeq(all, 1, size) \in Seq(Windows)
    BY <2>1, <2>2, SubSeqProperties
  <2>4. SubSeq(all, 1, size) \o SubSeq(all, size + 1, m) = SubSeq(all, 1, m)
    <3>1. 1 \in 1 .. Len(all) + 1 /\ size \in 1 - 1 .. Len(all) /\ m \in size .. Len(all)
      BY <1>10, <2>1
    <3> QED
      BY <1>9, <3>1, ConcatAdjacentSubSeq
  <2>5. SubSeq(all, 1, m) = all
    BY <1>9, <1>10, SubSeqFull
  <2> QED
    BY <1>11, <2>3, <2>4, <2>5
<1>15. m - size <= 1 /\ (m - size = 1 => ~all[m].last)
  <2>1. CASE n = 0
    <3>1. flat = draws /\ Len(flat) = 0
      BY <1>3, <1>5, <2>1 DEF FlattenSeq
    <3>2. PICK c \in Nat : c = Len(windowQueue) /\ c <= 1
      BY <1>8
    <3>3. m = c
      BY <1>9, <1>10, <3>1, <3>2
    <3> QED
      BY <1>10, <3>2, <3>3
  <2>2. CASE n # 0
    <3>0. draws # <<>> /\ draws \in Seq(Seq(Cuts))
      BY <1>3, <1>4, <2>2, SeqMonotonic
    <3>1. PICK front : front = FlattenSeq(Front(draws))
      OBVIOUS
    <3>2. front \in Seq(Cuts) /\ flat = front \o draws[n]
      BY <1>3, <1>5, <3>0, <3>1, FlatLast
    <3>3. PICK b \in Blocks : b = draws[n]
      <4>1. n \in 1 .. n
        BY <1>n, <2>2
      <4> QED
        BY <4>1
    <3>4. b \in Seq(Cuts) /\ Len(b) \in {1, 2} /\ (Len(b) = 2 => ~b[2].last)
      BY OneBlock
    <3>5. /\ Len(flat) = Len(front) + Len(b)
          /\ \A i \in 1 .. Len(front) + Len(b) :
               flat[i] = IF i <= Len(front) THEN front[i] ELSE b[i - Len(front)]
      BY <3>2, <3>3, <3>4, ConcatProperties
    <3>6. Len(windowQueue \o front) < size
      BY <1>2, <1>n, <2>2, <3>1
    <3>7. front \in Seq(Windows)
      BY <1>7, <3>2, SeqMonotonic
    <3>8. Len(windowQueue \o front) = Len(windowQueue) + Len(front)
      BY <1>8, <3>7, ConcatProperties
    <3>9. PICK c \in Nat, d \in Nat : c = Len(windowQueue) /\ d = Len(front)
      BY <1>8, <3>2
    <3>10. c + d < size /\ m = c + d + Len(b)
      BY <1>9, <1>10, <3>5, <3>6, <3>8, <3>9
    <3>11. ASSUME m - size = 1
           PROVE  ~all[m].last
      <4>0. Len(b) = 2
        <5>1. Len(b) # 1
          <6>1. SUFFICES ASSUME Len(b) = 1
                         PROVE  FALSE
            OBVIOUS
          <6>2. c \in Nat /\ d \in Nat /\ m = c + d + 1 /\ c + d < size /\ size \in Nat
            BY <3>9, <3>10, <6>1
          <6>3. m \in Nat /\ m - size = 1
            BY <1>10, <3>11
          <6> QED
            BY ONLY <6>2, <6>3
        <5> QED
          BY <3>4, <5>1
      <4>1. d + 2 \in 1 .. d + Len(b) /\ ~(d + 2 <= d) /\ (d + 2) - d = 2 /\ m = c + d + 2
        BY <3>9, <3>10, <4>0
      <4>2. flat[d + 2] = b[2]
        BY <3>5, <3>9, <4>1
      <4>3. all[m] = flat[d + 2]
        <5>1. Len(flat) = d + 2 /\ m \in 1 .. c + Len(flat) /\ ~(m <= c) /\ m - c = d + 2
          <6>1. Len(flat) = d + 2
            BY <3>5, <3>9, <4>0
          <6>2. c \in Nat /\ d \in Nat
            BY <3>9
          <6> QED
            BY ONLY <4>1, <6>1, <6>2
        <5>2. all[m] = IF m <= c THEN windowQueue[m] ELSE flat[m - c]
          BY <1>8, <1>9, <3>9, <5>1, ConcatProperties
        <5> QED
          BY <5>1, <5>2
      <4> QED
        BY <3>4, <4>0, <4>2, <4>3
    <3>12. m - size <= 1
      <4>1. c \in Nat /\ d \in Nat /\ size \in Nat /\ (m = c + d + 1 \/ m = c + d + 2)
        BY <3>4, <3>9, <3>10
      <4> QED
        BY ONLY <3>10, <4>1
    <3> QED
      BY <3>11, <3>12
  <2> QED
    BY <2>1, <2>2
<1>16. Waiting(rest)
  <2>1. ASSUME NEW i \in DOMAIN rest
        PROVE  ~rest[i].last
    <3>1. i \in 1 .. m - size
      BY <1>13
    <3>2. i = 1 /\ m - size = 1 /\ size + i = m
      BY <1>10, <1>15, <3>1
    <3> QED
      BY <1>13, <1>15, <3>1, <3>2
  <2> QED
    BY <1>13, <1>15, <2>1 DEF Waiting
<1>17. ToSet(windows') \cup ToSet(windowQueue') \subseteq ToSet(windowQueue) \cup Cuts
  <2>0. PICK first : first = windows'
    OBVIOUS
  <2>1. ToSet(first) \cup ToSet(rest) = ToSet(all)
    <3>1. first \in Seq(Windows) /\ rest \in Seq(Windows) /\ first \o rest = all
      BY <1>11, <1>12, <1>13, <1>14, <2>0
    <3>2. \A p, q \in Seq(Windows) : ToSet(p \o q) = ToSet(p) \cup ToSet(q)
      BY ONLY ConcatMembers
    <3> QED
      BY ONLY <3>1, <3>2
  <2>2. ToSet(flat) \subseteq Cuts
    BY <1>6, Members
  <2> QED
    BY <1>9, <1>11, <1>12, <2>0, <2>1, <2>2
<1> QED
  BY <1>6, <1>9, <1>11, <1>12, <1>14, <1>16, <1>17

-----------------------------------------------------------------------------
(* Filling the replay.                                                     *)

\* An online record that is stored has been met, or its turn is still to come.
Turns(q, met) ==
  /\ met \subseteq 0 .. q.next - 1 /\ met \cap q.pending = {}
  /\ \A r \in Records(q.stored) : r.source = "online" => r.id \in met \cup q.pending

LEMMA AllAdded ==
  ASSUME NEW rep \in Reps, Sound(rep.stored, rep.next, rep.pending), NEW met, Turns(rep, met),
         NEW eps \in Seq(Episodes), NEW source \in {"online", "coldstart"},
         NEW version \in 0 .. MaxSteps, NEW w, w = WithAll(rep, eps, source, version)
  PROVE  /\ w \in Reps /\ Sound(w.stored, w.next, w.pending) /\ Turns(w, met)
         /\ \A x \in Records(w.stored) : x \in Records(rep.stored) \/ x.version = version
         /\ StillSome(rep.stored, w.stored)
<1> DEFINE Good(q) ==
      /\ Sound(q.stored, q.next, q.pending) /\ Turns(q, met)
      /\ \A x \in Records(q.stored) : x \in Records(rep.stored) \/ x.version = version
      /\ StillSome(rep.stored, q.stored)
<1>1. PICK G : G = {q \in Reps : Good(q)}
  OBVIOUS
<1>2. rep \in G
  BY <1>1 DEF StillSome
<1>3. ASSUME NEW q \in G, NEW e \in Episodes
      PROVE  With(q, e, source, version) \in G
  <2>1. q \in Reps /\ Good(q)
    BY <1>1
  <2>2. PICK v : v = With(q, e, source, version)
    OBVIOUS
  <2>s. q \in Reps /\ Sound(q.stored, q.next, q.pending)
    BY <2>1
  <2> HIDE DEF Good
  <2>3. v \in Reps /\ Sound(v.stored, v.next, v.pending) /\ Grown(q, v, source, version)
    BY <2>2, <2>s, AddKeeps
  <2>4. q.next \in Nat /\ v.next \in Nat
    BY <2>1, <2>3 DEF Reps
  <2>5. Turns(v, met)
    <3>1. met \subseteq 0 .. q.next - 1 /\ met \cap q.pending = {}
      BY <2>1 DEF Turns, Good
    <3>2. 0 .. q.next - 1 \subseteq 0 .. v.next - 1 /\ q.next \notin 0 .. q.next - 1
      BY <2>3, <2>4 DEF Grown
    <3>3. met \subseteq 0 .. v.next - 1 /\ met \cap v.pending = {}
      BY <2>3, <3>1, <3>2 DEF Grown
    <3> QED
      BY <2>1, <2>3, <3>3 DEF Turns, Grown, Good
  <2>6. \A x \in Records(v.stored) : x \in Records(rep.stored) \/ x.version = version
    BY <2>1, <2>3 DEF Grown, Good
  <2>7. StillSome(rep.stored, v.stored)
    BY <2>1, <2>3 DEF Grown, Good, StillSome
  <2> QED
    BY <1>1, <2>2, <2>3, <2>5, <2>6, <2>7 DEF Good
<1> HIDE DEF Good
<1>4. w \in G
  BY <1>2, <1>3, AllKeep
<1> QED
  BY <1>1, <1>4 DEF Good

LatestInv ==
  /\ led \subseteq 0 .. nextId - 1 /\ led \cap pendingLatest = {}
  /\ \A r \in Records(stored) : r.source = "online" => r.id \in led \cup pendingLatest

\* The contents as add_episode takes and leaves them.
LEMMA ContentsAre ==
  ASSUME Stored, LatestInv, NEW rep,
         rep = [stored |-> stored, next |-> nextId, pending |-> pendingLatest]
  PROVE  rep \in Reps /\ Sound(rep.stored, rep.next, rep.pending) /\ Turns(rep, led)
<1>1. pendingLatest \in SUBSET Nat
  <2>1. nextId \in Nat /\ pendingLatest \subseteq 0 .. nextId - 1
    BY DEF Stored, Sound
  <2> QED
    BY <2>1
<1> QED
  BY <1>1 DEF Stored, Reps, Turns, LatestInv

LEMMA NothingSound ==
  ASSUME NEW rep, rep = [stored |-> Nothing, next |-> 0, pending |-> {}]
  PROVE  /\ rep \in Reps /\ Sound(rep.stored, rep.next, rep.pending) /\ Turns(rep, {})
         /\ Records(rep.stored) = {}
<1>1. \A t \in Tasks : Nothing[t] = <<>> /\ ToSet(Nothing[t]) = {}
  BY DEF Nothing, ToSet
<1>2. Transitions(<<>>) = 0
  <2>1. UNION {{i} \X (1 .. (<<>>)[i].len) : i \in DOMAIN (<<>>)} = {}
    OBVIOUS
  <2> QED
    BY <2>1, FS_EmptySet DEF Transitions
<1>3. \A t \in Tasks : Fitting(<<>>, t, 0)
  BY <1>2, ReplayAssumption DEF Fitting
<1>4. Nothing \in [Tasks -> Seq(Rec)]
  BY DEF Nothing
<1>5. Records(Nothing) = {}
  BY <1>1 DEF Records
<1> QED
  BY <1>1, <1>3, <1>4, <1>5 DEF Sound, Turns, Reps

\* append_real_trajectories, seed_from_offline and the writes of env workers.
LEMMA Adds ==
  ASSUME Stored, LatestInv, stamp \in 0 .. MaxSteps, NEW eps \in Seq(Episodes),
         NEW source \in {"online", "coldstart"}, AddEpisodes(eps, source)
  PROVE  /\ Stored' /\ LatestInv' /\ batch' = <<>> /\ windows' = <<>>
         /\ UNCHANGED <<stamp, taskCursor, startCursor, windowQueue, led>>
         /\ StillSome(stored, stored')
<1>1. PICK rep : rep = [stored |-> stored, next |-> nextId, pending |-> pendingLatest]
  OBVIOUS
<1>2. PICK w : w = WithAll(rep, eps, source, stamp)
  OBVIOUS
<1>3. /\ stored' = w.stored /\ nextId' = w.next /\ pendingLatest' = w.pending
      /\ batch' = <<>> /\ windows' = <<>>
      /\ UNCHANGED <<stamp, taskCursor, startCursor, windowQueue, led>>
  BY <1>1, <1>2 DEF AddEpisodes, ContentsBecome
<1>4. rep \in Reps /\ Sound(rep.stored, rep.next, rep.pending) /\ Turns(rep, led)
  BY <1>1, ContentsAre
<1>v. PICK version \in 0 .. MaxSteps : version = stamp
  OBVIOUS
<1>5. /\ w \in Reps /\ Sound(w.stored, w.next, w.pending) /\ Turns(w, led)
      /\ StillSome(rep.stored, w.stored)
  <2>1. w = WithAll(rep, eps, source, version)
    BY <1>2, <1>v
  <2>2. PICK met : met = led
    OBVIOUS
  <2>3. Turns(rep, met) /\ rep \in Reps /\ Sound(rep.stored, rep.next, rep.pending)
        /\ eps \in Seq(Episodes) /\ source \in {"online", "coldstart"}
    BY <1>4, <2>2
  <2>4. w \in Reps /\ Sound(w.stored, w.next, w.pending) /\ Turns(w, met)
    BY ONLY <2>1, <2>3, <1>v, AllAdded
  <2>5. StillSome(rep.stored, w.stored)
    BY ONLY <2>1, <2>3, <1>v, AllAdded
  <2> QED
    BY <2>2, <2>4, <2>5
<1>6. Stored'
  BY <1>3, <1>5 DEF Stored, Reps
<1>7. LatestInv'
  BY <1>3, <1>5 DEF LatestInv, Turns
<1> QED
  BY <1>1, <1>3, <1>5, <1>6, <1>7

\* replace_real_trajectories.
LEMMA Replaces ==
  ASSUME NEW eps \in Seq(Episodes), NEW version \in 0 .. MaxSteps,
         ReplaceEpisodes(eps, version)
  PROVE  /\ Stored' /\ LatestInv' /\ batch' = <<>> /\ windows' = <<>> /\ windowQueue' = <<>>
         /\ stamp' = version /\ taskCursor' = 0 /\ startCursor' = 0
         /\ \A r \in Records(stored') : r.version = version
<1>1. PICK rep : rep = [stored |-> Nothing, next |-> 0, pending |-> {}]
  OBVIOUS
<1>2. PICK w : w = WithAll(rep, eps, "online", version)
  OBVIOUS
<1>3. /\ stored' = w.stored /\ nextId' = w.next /\ pendingLatest' = w.pending
      /\ batch' = <<>> /\ windows' = <<>> /\ windowQueue' = <<>> /\ led' = {}
      /\ stamp' = version /\ taskCursor' = 0 /\ startCursor' = 0
  BY <1>1, <1>2 DEF ReplaceEpisodes, ContentsBecome
<1>4. /\ rep \in Reps /\ Sound(rep.stored, rep.next, rep.pending) /\ Turns(rep, {})
      /\ Records(rep.stored) = {}
  BY <1>1, NothingSound
<1>5. /\ w \in Reps /\ Sound(w.stored, w.next, w.pending) /\ Turns(w, {})
      /\ \A x \in Records(w.stored) : x \in Records(rep.stored) \/ x.version = version
  BY <1>2, <1>4, AllAdded
<1>6. Stored'
  BY <1>3, <1>5 DEF Stored, Reps
<1>7. LatestInv'
  BY <1>3, <1>5 DEF LatestInv, Turns
<1> QED
  BY <1>3, <1>4, <1>5, <1>6, <1>7

-----------------------------------------------------------------------------
(* Sampling training sequences.                                            *)

\* A nonempty set of numbers below a bound has a greatest member.
LEMMA GreatestNumber ==
  ASSUME NEW n \in Nat, NEW T \in SUBSET (0 .. n - 1), T # {}
  PROVE  Max(T) \in T /\ \A m \in T : m <= Max(T)
<1>1. PICK U : U = {n - m : m \in T}
  OBVIOUS
<1>2. \A m \in T : m \in Nat /\ n - m \in Nat
  OBVIOUS
<1>3. U \in SUBSET Nat /\ U # {}
  BY <1>1, <1>2
<1>4. PICK u \in U : \A v \in U : u <= v
  BY <1>3, LeastNumber
<1>5. PICK x \in T : u = n - x
  BY <1>1
<1>6. ASSUME NEW m \in T
      PROVE  x >= m
  <2>1. n - m \in U /\ n - x <= n - m
    BY <1>1, <1>4, <1>5
  <2>2. m \in Nat /\ x \in Nat
    BY <1>2
  <2> QED
    BY <2>1, <2>2
<1>7. PICK z : z = Max(T)
  OBVIOUS
<1>8. z \in T /\ \A m \in T : z >= m
  BY <1>6, <1>7 DEF Max
<1>9. ASSUME NEW m \in T
      PROVE  m <= z
  <2>1. m \in Nat /\ z \in Nat /\ z >= m
    BY <1>2, <1>8
  <2> QED
    BY <2>1
<1> QED
  BY <1>7, <1>8, <1>9

\* A batch is made of stored records; an id that is no longer pending and is
\* stored has been met.
LEMMA Sampled ==
  ASSUME Stored, LatestInv, taskCursor \in Nat, NEW size \in Nat \ {0}, NEW limit,
         NEW mixed, NEW latest, Sample(size, limit, mixed, latest)
  PROVE  /\ Stored' /\ LatestInv'
         /\ batch' \in Seq(Records(stored)) /\ Records(stored) # {}
         /\ taskCursor' \in Nat
         /\ UNCHANGED <<stored, nextId, stamp, startCursor, windowQueue, windows, drawn>>
<1> DEFINE there == {i \in pendingLatest : \E r \in Fresh(limit) : r.id = i}
           leads == latest /\ there # {}
           free == IF leads THEN size - 1 ELSE size
<1>1. PICK valid : valid = Fresh(limit)
  OBVIOUS
<1>2. valid \subseteq Records(stored)
  BY <1>1 DEF Fresh
<1>3. /\ valid # {} /\ taskCursor' = taskCursor + free
      /\ led' = (IF latest THEN led \cup (Seen(there) \cap RecordIds) ELSE led)
      /\ pendingLatest' = (IF latest THEN StillPending(there) ELSE pendingLatest)
      /\ UNCHANGED <<stored, nextId, stamp, startCursor, windowQueue, windows, drawn>>
  BY <1>1 DEF Sample
<1>4. PICK picks \in [1 .. free -> valid] :
        batch' = (IF leads THEN <<CHOOSE r \in valid : r.id = Max(there)>> ELSE <<>>) \o picks
  BY <1>1 DEF Sample
<1>p. nextId \in Nat /\ pendingLatest \subseteq 0 .. nextId - 1
  BY DEF Stored, Sound
<1>k. there \subseteq pendingLatest /\ \A i \in there : \E r \in valid : r.id = i
  BY <1>1
<1>f. free \in Nat
  OBVIOUS
<1>l. leads => there # {}
  OBVIOUS
<1> HIDE DEF there, leads, free
<1>5. picks \in Seq(Records(stored))
  BY <1>2, <1>f
<1>6. ASSUME leads
      PROVE  (CHOOSE r \in valid : r.id = Max(there)) \in valid
  <2>1. there \in SUBSET (0 .. nextId - 1) /\ there # {}
    BY <1>6, <1>k, <1>l, <1>p
  <2>2. Max(there) \in there
    BY <1>p, <2>1, GreatestNumber
  <2> QED
    BY <1>k, <2>2
<1>7. batch' \in Seq(Records(stored))
  <2>0. PICK opener : opener = CHOOSE r \in valid : r.id = Max(there)
    OBVIOUS
  <2>1. PICK lead : lead = IF leads THEN <<opener>> ELSE <<>>
    OBVIOUS
  <2>2. lead \in Seq(Records(stored))
    <3>1. CASE leads
      <4>1. opener \in Records(stored)
        BY <1>2, <1>6, <2>0, <3>1
      <4> QED
        BY <2>1, <3>1, <4>1
    <3>2. CASE ~leads
      BY <2>1, <3>2
    <3> QED
      BY <3>1, <3>2
  <2>3. batch' = lead \o picks
    BY <1>4, <2>0, <2>1
  <2> QED
    BY <1>5, <2>2, <2>3, ConcatProperties
<1>8. Records(stored) # {} /\ taskCursor' \in Nat
  BY <1>2, <1>3, <1>f
<1>9. pendingLatest' \subseteq pendingLatest
  BY <1>3 DEF StillPending
<1>10. Stored'
  BY <1>3, <1>9 DEF Stored, Sound
<1>11. LatestInv'
  <2>1. CASE latest
    <3>1. PICK seen : seen = Seen(there)
      OBVIOUS
    <3>2. seen \subseteq pendingLatest
      BY <3>1 DEF Seen
    <3>3. led' = led \cup (seen \cap RecordIds) /\ pendingLatest' = pendingLatest \ seen
      BY <1>3, <2>1, <3>1 DEF StillPending
    <3>4. led' \subseteq 0 .. nextId - 1 /\ led' \cap pendingLatest' = {}
      BY <1>p, <3>2, <3>3 DEF LatestInv
    <3>5. ASSUME NEW r \in Records(stored), r.source = "online"
          PROVE  r.id \in led' \cup pendingLatest'
      <4>1. r.id \in led \cup pendingLatest /\ r.id \in RecordIds
        BY <3>5 DEF LatestInv, RecordIds
      <4> QED
        BY <3>3, <4>1
    <3> QED
      BY <1>3, <3>4, <3>5 DEF LatestInv
  <2>2. CASE ~latest
    BY <1>3, <2>2 DEF LatestInv
  <2> QED
    BY <2>1, <2>2
<1> QED
  BY <1>3, <1>7, <1>8, <1>10, <1>11

-----------------------------------------------------------------------------
(* The replay part of the invariant.                                       *)

ReplayInv ==
  /\ Stored /\ LatestInv
  /\ stamp \in 0 .. MaxSteps /\ taskCursor \in Nat /\ startCursor \in Nat
  /\ batch \in Seq(Records(stored)) /\ windows \in Seq(Windows) /\ Waiting(windowQueue)

LEMMA ReplayAdds ==
  ASSUME ReplayInv, NEW eps \in Seq(Episodes), NEW source \in {"online", "coldstart"},
         AddEpisodes(eps, source)
  PROVE  ReplayInv' /\ StillSome(stored, stored')
<1>1. /\ Stored' /\ LatestInv' /\ batch' = <<>> /\ windows' = <<>>
      /\ UNCHANGED <<stamp, taskCursor, startCursor, windowQueue, led>>
      /\ StillSome(stored, stored')
  <2>1. Stored /\ LatestInv /\ stamp \in 0 .. MaxSteps
    BY DEF ReplayInv
  <2> QED
    BY <2>1, Adds
<1> QED
  BY <1>1 DEF ReplayInv, Waiting

LEMMA ReplayReplaces ==
  ASSUME ReplayInv, NEW eps \in Seq(Episodes), NEW version \in 0 .. MaxSteps,
         ReplaceEpisodes(eps, version)
  PROVE  /\ ReplayInv' /\ batch' = <<>> /\ windows' = <<>> /\ windowQueue' = <<>>
         /\ \A r \in Records(stored') : r.version = version
<1>1. /\ Stored' /\ LatestInv' /\ batch' = <<>> /\ windows' = <<>> /\ windowQueue' = <<>>
      /\ stamp' = version /\ taskCursor' = 0 /\ startCursor' = 0
      /\ \A r \in Records(stored') : r.version = version
  BY Replaces
<1> QED
  BY <1>1 DEF ReplayInv, Waiting

LEMMA ReplayStamps ==
  ASSUME ReplayInv, NEW version \in 0 .. MaxSteps, SetPolicyVersion(version)
  PROVE  ReplayInv' /\ UNCHANGED stored
<1>1. /\ UNCHANGED <<stored, nextId, pendingLatest, taskCursor, startCursor, windowQueue,
                     batch, windows, led>>
      /\ stamp' = version
  BY DEF SetPolicyVersion, contents
<1>2. Stored' /\ LatestInv'
  BY <1>1 DEF ReplayInv, Stored, LatestInv
<1> QED
  BY <1>1, <1>2 DEF ReplayInv, Waiting

LEMMA ReplaySamples ==
  ASSUME ReplayInv, NEW limit, NEW mixed, NEW latest,
         Sample(BatchSize, limit, mixed, latest)
  PROVE  ReplayInv' /\ Records(stored) # {} /\ UNCHANGED <<stored, windows, windowQueue>>
<1>1. /\ Stored' /\ LatestInv' /\ batch' \in Seq(Records(stored)) /\ Records(stored) # {}
      /\ taskCursor' \in Nat
      /\ UNCHANGED <<stored, nextId, stamp, startCursor, windowQueue, windows, drawn>>
  <2>1. Stored /\ LatestInv /\ taskCursor \in Nat /\ BatchSize \in Nat \ {0}
    BY Sizes DEF ReplayInv
  <2> QED
    BY <2>1, Sampled
<1> QED
  BY <1>1 DEF ReplayInv, Waiting

LEMMA ReplayWindows ==
  ASSUME ReplayInv, SampleWindows(WindowBatch)
  PROVE  /\ ReplayInv' /\ Records(stored) # {} /\ UNCHANGED <<stored, batch>>
         /\ ToSet(windows') \cup ToSet(windowQueue') \subseteq ToSet(windowQueue) \cup Cuts
<1>1. Stored /\ Waiting(windowQueue) /\ WindowBatch \in Nat \ {0}
  BY Sizes DEF ReplayInv
<1>2. /\ windows' \in Seq(Windows) /\ Waiting(windowQueue')
      /\ ToSet(windows') \cup ToSet(windowQueue') \subseteq ToSet(windowQueue) \cup Cuts
  BY <1>1, WindowsSampled
<1>3. /\ UNCHANGED <<stored, nextId, pendingLatest, stamp, taskCursor, startCursor, batch, led>>
      /\ Candidates # {}
  BY DEF SampleWindows, contents
<1>4. Stored' /\ LatestInv'
  BY <1>3 DEF ReplayInv, Stored, LatestInv
<1>5. Records(stored) # {}
  BY <1>3 DEF Candidates
<1> QED
  BY <1>2, <1>3, <1>4, <1>5 DEF ReplayInv

LEMMA ReplayRests ==
  ASSUME ReplayInv, UNCHANGED replayVars
  PROVE  ReplayInv'
BY DEF ReplayInv, replayVars, Stored, LatestInv, Waiting

\* Drawing starts moves the cursor alone.
LEMMA ReplayRefreshed ==
  ASSUME ReplayInv, recipe \in Recipe, NEW w, Refreshed(w)
  PROVE  /\ ReplayInv'
         /\ UNCHANGED <<contents, stamp, taskCursor, windowQueue, batch, windows, led, picked>>
<1>1. CASE UNCHANGED replayVars
  BY <1>1, ReplayRests DEF replayVars, contents
<1>2. CASE DrawStarts(NumSlots \div recipe.group, recipe.failed)
  <2>1. /\ startCursor' = startCursor + (NumSlots \div recipe.group)
        /\ UNCHANGED <<contents, stamp, taskCursor, windowQueue, batch, windows, led, picked>>
    BY <1>2 DEF DrawStarts
  <2>2. recipe.group \in 1 .. NumSlots
    BY DEF Recipe
  <2>3. NumSlots \div recipe.group \in Nat
    BY <2>2, Sizes
  <2>4. startCursor' \in Nat
    BY <2>1, <2>3 DEF ReplayInv
  <2>5. Stored' /\ LatestInv'
    BY <2>1 DEF contents, ReplayInv, Stored, LatestInv
  <2> QED
    BY <2>1, <2>4, <2>5 DEF contents, ReplayInv, Waiting
<1> QED
  BY <1>1, <1>2 DEF Refreshed

-----------------------------------------------------------------------------
(* Blocks of slots.                                                        *)

LEMMA Quotient ==
  ASSUME NEW g \in Nat \ {0}, NEW x \in Nat
  PROVE  /\ x \div g \in Nat /\ x % g \in 0 .. g - 1
         /\ x = (x \div g) * g + (x % g)
OBVIOUS

LEMMA QuotientUnique ==
  ASSUME NEW g \in Nat \ {0}, NEW b \in Nat, NEW d \in 0 .. g - 1
  PROVE  /\ b * g + d \in Nat
         /\ (b * g + d) \div g = b /\ (b * g + d) % g = d
OBVIOUS

\* The block of the k-th slot.
Block(k, g) == (k - 1) \div g

\* A set of slots that has with one slot its whole block.
Whole(S, g, n) ==
  \A p \in 1 .. n : \A q \in S : Block(p, g) = Block(q, g) => p \in S

Divides(g, n) == n % g = 0
BlocksOf(S, g) == {Block(q, g) : q \in S}
Under(S, g, c) == {q \in S : Block(q, g) < c}

\* The blocks of g slots, one after the other.
LEMMA BlockIs ==
  ASSUME NEW g \in Nat \ {0}, NEW b \in Nat, NEW k \in Nat \ {0}
  PROVE  /\ Block(k, g) \in Nat
         /\ Block(k, g) = b => \E d \in 1 .. g : k = b * g + d
         /\ (\E d \in 1 .. g : k = b * g + d) => Block(k, g) = b
         /\ Block(k, g) < b <=> k <= b * g
<1>0. PICK x \in Nat : x = k - 1
  OBVIOUS
<1>1. Block(k, g) = x \div g
  BY <1>0 DEF Block
<1>2. PICK q \in Nat, r \in 0 .. g - 1 : q = x \div g /\ x = q * g + r
  BY Quotient
<1>3. q = b => r + 1 \in 1 .. g /\ k = b * g + (r + 1)
  BY <1>0, <1>2
<1>4. ASSUME NEW d \in 1 .. g, k = b * g + d
      PROVE  q = b
  <2>1. d - 1 \in 0 .. g - 1 /\ x = b * g + (d - 1)
    BY <1>0, <1>4
  <2> QED
    BY <1>2, <2>1, QuotientUnique
<1>5. q < b => k <= b * g
  <2>1. SUFFICES ASSUME q < b
                 PROVE  k <= b * g
    OBVIOUS
  <2>2. PICK c \in Nat : b = q + 1 + c
    <3>1. b - q - 1 \in Nat /\ b = q + 1 + (b - q - 1)
      BY <2>1
    <3> QED
      BY <3>1
  <2>3. b * g = q * g + g + c * g /\ c * g \in Nat /\ q * g \in Nat
    BY <2>2
  <2> QED
    BY <1>0, <1>2, <2>3
<1>6. ~(q < b) => ~(k <= b * g)
  <2>1. SUFFICES ASSUME ~(q < b)
                 PROVE  ~(k <= b * g)
    OBVIOUS
  <2>2. PICK c \in Nat : q = b + c
    <3>1. q - b \in Nat /\ q = b + (q - b)
      BY <2>1
    <3> QED
      BY <3>1
  <2>3. q * g = b * g + c * g /\ c * g \in Nat /\ b * g \in Nat
    BY <2>2
  <2> QED
    BY <1>0, <1>2, <2>3
<1> QED
  BY <1>1, <1>2, <1>3, <1>4, <1>5, <1>6

\* Whole blocks: g members for each block.
LEMMA WholeCount ==
  ASSUME NEW g \in Nat \ {0}, NEW n \in Nat, Divides(g, n), NEW S \in SUBSET (1 .. n),
         Whole(S, g, n), NEW B, B = BlocksOf(S, g), NEW c \in Nat
  PROVE  /\ B \in SUBSET Nat /\ IsFiniteSet(B)
         /\ IsFiniteSet(Under(S, g, c))
         /\ Cardinality(Under(S, g, c)) = Cardinality(Smaller(B, c)) * g
<1>1. IsFiniteSet(S) /\ \A q \in S : q \in Nat \ {0} /\ Block(q, g) \in Nat
  <2>1. IsFiniteSet(1 .. n)
    BY FS_Interval
  <2>2. \A q \in S : q \in Nat \ {0}
    OBVIOUS
  <2> QED
    BY <2>1, <2>2, FS_Subset, BlockIs
<1>2. B \in SUBSET Nat /\ B = {Block(q, g) : q \in S}
  BY <1>1 DEF BlocksOf
<1>3. IsFiniteSet(B)
  <2> DEFINE f == [q \in S |-> Block(q, g)]
  <2>1. f \in Surjection(S, B)
    BY <1>2 DEF Surjection
  <2> QED
    BY <1>1, <2>1, FS_Surjection
<1>4. PICK P : P = Smaller(B, c) \X (1 .. g)
  OBVIOUS
<1>5. IsFiniteSet(P) /\ Cardinality(P) = Cardinality(Smaller(B, c)) * g
  <2>1. IsFiniteSet(Smaller(B, c))
    BY <1>3, FS_Subset DEF Smaller
  <2>2. IsFiniteSet(1 .. g) /\ Cardinality(1 .. g) = g
    BY FS_Interval
  <2> QED
    BY <1>4, <2>1, <2>2, FS_Product
<1>6. PICK T : T = Under(S, g, c) /\ T = {q \in S : Block(q, g) < c}
  BY DEF Under
<1>7. PICK m \in Nat : n = m * g
  <2>1. n = (n \div g) * g + (n % g) /\ n \div g \in Nat
    BY Quotient
  <2> QED
    BY <2>1 DEF Divides
<1>8. ASSUME NEW b \in Smaller(B, c), NEW d \in 1 .. g
      PROVE  b \in Nat /\ b * g + d \in T /\ Block(b * g + d, g) = b
  <2>1. b \in B /\ b < c /\ b \in Nat
    BY <1>2 DEF Smaller
  <2>2. PICK q \in S : b = Block(q, g)
    BY <1>2, <2>1
  <2>3. PICK k \in Nat \ {0} : k = b * g + d
    <3>1. b * g \in Nat
      BY <2>1
    <3> QED
      BY <3>1
  <2>4. Block(k, g) = b
    BY <2>1, <2>3, BlockIs
  <2>5. q <= m * g
    BY <1>7
  <2>6. b < m
    BY <1>1, <2>2, <2>5, BlockIs
  <2>7. k <= m * g
    BY <2>4, <2>6, BlockIs
  <2>8. k \in 1 .. n
    BY <1>7, <2>7
  <2>9. k \in S
    BY <2>2, <2>4, <2>8 DEF Whole
  <2> QED
    BY <1>6, <2>1, <2>3, <2>4, <2>9
<1> DEFINE h == [p \in P |-> p[1] * g + p[2]]
<1>9. \A p \in P : /\ p[1] \in Smaller(B, c) /\ p[2] \in 1 .. g /\ p = <<p[1], p[2]>>
                   /\ p[1] \in Nat /\ h[p] \in T /\ Block(h[p], g) = p[1]
  <2>1. \A p \in P : p[1] \in Smaller(B, c) /\ p[2] \in 1 .. g /\ p = <<p[1], p[2]>>
    BY <1>4
  <2> QED
    BY <1>8, <2>1
<1>10. ASSUME NEW p \in P, NEW q \in P, h[p] = h[q]
       PROVE  p = q
  <2>1. p[1] = q[1]
    BY <1>9, <1>10
  <2>2. PICK x \in Nat, y \in 1 .. g, z \in 1 .. g : x = p[1] * g /\ y = p[2] /\ z = q[2]
    <3>1. PICK b \in Nat : b = p[1]
      BY <1>9
    <3>2. b * g \in Nat
      OBVIOUS
    <3>3. p[1] * g \in Nat
      BY <3>1, <3>2
    <3>4. p[2] \in 1 .. g /\ q[2] \in 1 .. g
      BY <1>9
    <3> QED
      BY <3>3, <3>4
  <2>3. x + y = x + z
    BY <1>10, <2>1, <2>2
  <2>4. p[2] = q[2]
    BY <2>2, <2>3
  <2> QED
    BY <1>9, <2>1, <2>4
<1>11. ASSUME NEW t \in T
       PROVE  \E p \in P : h[p] = t
  <2>1. t \in S /\ Block(t, g) < c /\ t \in Nat \ {0} /\ Block(t, g) \in Nat
    BY <1>1, <1>6
  <2>2. PICK d \in 1 .. g : t = Block(t, g) * g + d
    <3>1. PICK b \in Nat : b = Block(t, g)
      BY <2>1
    <3>2. \E d \in 1 .. g : t = b * g + d
      <4>1. t \in Nat \ {0} /\ Block(t, g) = b
        BY <2>1, <3>1
      <4> QED
        BY <4>1, BlockIs
    <3> QED
      BY <3>1, <3>2
  <2>3. Block(t, g) \in Smaller(B, c)
    BY <1>2, <2>1 DEF Smaller
  <2>4. <<Block(t, g), d>> \in P
    BY <1>4, <2>3
  <2>5. h[<<Block(t, g), d>>] = t
    BY <2>2, <2>4
  <2> QED
    BY <2>4, <2>5
<1>12. h \in Bijection(P, T)
  BY <1>9, <1>10, <1>11 DEF Bijection, Injection, IsInjective, Surjection
<1>13. IsFiniteSet(T) /\ Cardinality(T) = Cardinality(P)
  BY <1>5, <1>12, FS_Bijection DEF ExistsBijection
<1> QED
  BY <1>2, <1>3, <1>5, <1>6, <1>13

\* Such a set in increasing order goes through its blocks one after the other.
LEMMA WholeOrder ==
  ASSUME NEW g \in Nat \ {0}, NEW n \in Nat, Divides(g, n), NEW S \in SUBSET (1 .. n),
         Whole(S, g, n), NEW f, f = InOrder(S), NEW N, N = Cardinality(S)
  PROVE  /\ N \in Nat /\ Divides(g, N)
         /\ \A i, j \in 1 .. N : Block(i, g) = Block(j, g) => Block(f[i], g) = Block(f[j], g)
<1>0. S \in SUBSET Nat /\ IsFiniteSet(S)
  <2>1. IsFiniteSet(1 .. n)
    BY FS_Interval
  <2>2. IsFiniteSet(S)
    BY <2>1, FS_Subset
  <2>3. \A q \in S : q \in Nat
    OBVIOUS
  <2> QED
    BY <2>2, <2>3
<1>1. N \in Nat /\ f \in [1 .. N -> S] /\ \A k \in 1 .. N : Cardinality(Smaller(S, f[k])) = k - 1
  BY <1>0, Ordered
<1>2. PICK B : B = BlocksOf(S, g) /\ B = {Block(q, g) : q \in S}
  BY DEF BlocksOf
<1>q. \A q \in S : q \in Nat \ {0} /\ Block(q, g) \in Nat
  <2>1. \A q \in S : q \in Nat \ {0}
    OBVIOUS
  <2> QED
    BY <2>1, BlockIs
<1>3. /\ B \in SUBSET Nat /\ IsFiniteSet(B)
      /\ \A c \in Nat : /\ IsFiniteSet(Under(S, g, c))
                        /\ Cardinality(Under(S, g, c)) = Cardinality(Smaller(B, c)) * g
  <2>1. SUFFICES ASSUME NEW c \in Nat
                 PROVE  /\ B \in SUBSET Nat /\ IsFiniteSet(B)
                        /\ IsFiniteSet(Under(S, g, c))
                        /\ Cardinality(Under(S, g, c)) = Cardinality(Smaller(B, c)) * g
    OBVIOUS
  <2>2. Divides(g, n) /\ Whole(S, g, n) /\ g \in Nat \ {0} /\ n \in Nat /\ S \in SUBSET (1 .. n)
    OBVIOUS
  <2> QED
    BY ONLY <1>2, <2>1, <2>2, WholeCount
<1>4. \A c \in Nat : Cardinality(Smaller(B, c)) \in Nat
  BY <1>3, FS_Subset, FS_CardinalityType DEF Smaller
<1>5. Divides(g, N)
  <2>1. Under(S, g, n) = S
    <3>1. SUFFICES ASSUME NEW q \in S
                   PROVE  Block(q, g) < n
      BY DEF Under
    <3>2. q \in 1 .. n /\ q <= n * g
      <4>1. n * g = n + n * (g - 1) /\ n * (g - 1) \in Nat
        OBVIOUS
      <4> QED
        BY <4>1
    <3> QED
      BY <1>q, <3>2, BlockIs DEF Under
  <2>2. PICK M \in Nat : M = Cardinality(Smaller(B, n)) /\ N = M * g
    BY <1>3, <1>4, <2>1
  <2>3. (M * g + 0) % g = 0 /\ M * g + 0 = M * g
    BY QuotientUnique
  <2> QED
    BY <2>2, <2>3 DEF Divides
<1>6. ASSUME NEW k \in 1 .. N
      PROVE  Block(k, g) = Cardinality(Smaller(B, Block(f[k], g)))
  <2>1. PICK x \in S : x = f[k]
    BY <1>1
  <2>2. PICK b \in Nat : b = Block(x, g)
    BY <1>q
  <2>3. PICK d \in 1 .. g : x = b * g + d
    <3>1. x \in Nat \ {0} /\ Block(x, g) = b
      BY <1>q, <2>2
    <3> QED
      BY <3>1, BlockIs
  <2>4. PICK T : T = Under(S, g, b) /\ T = {q \in S : Block(q, g) < b}
    BY DEF Under
  <2>5. PICK M \in Nat : M = Cardinality(Smaller(B, b))
    BY <1>4
  <2>6. IsFiniteSet(T) /\ Cardinality(T) = M * g
    BY <1>3, <2>4, <2>5
  <2>7. PICK y \in Nat : y = b * g
    OBVIOUS
  <2>8. IsFiniteSet(y + 1 .. x - 1) /\ Cardinality(y + 1 .. x - 1) = d - 1
    <3>1. x = y + d
      BY <2>3, <2>7
    <3>2. PICK lo \in Int, hi \in Int : lo = y + 1 /\ hi = x - 1
      BY <3>1
    <3>3. IsFiniteSet(lo .. hi) /\ Cardinality(lo .. hi) = IF lo > hi THEN 0 ELSE hi - lo + 1
      BY FS_Interval
    <3>4. d \in Nat /\ d >= 1 /\ hi = lo + d - 2
      BY <3>1, <3>2
    <3>5. (IF lo > hi THEN 0 ELSE hi - lo + 1) = d - 1
      BY ONLY <3>2, <3>4
    <3> QED
      BY <3>2, <3>3, <3>5
  <2>9. \A z \in y + 1 .. x - 1 : z \in S
    <3>1. SUFFICES ASSUME NEW z \in y + 1 .. x - 1
                   PROVE  z \in S
      OBVIOUS
    <3>2. z \in 1 .. n /\ z \in Nat \ {0} /\ z - y \in 1 .. g /\ z = b * g + (z - y)
      BY <2>3, <2>7
    <3>3. Block(z, g) = b
      BY <3>2, BlockIs
    <3> QED
      BY <2>2, <3>2, <3>3 DEF Whole
  <2>10. Smaller(S, x) = T \cup (y + 1 .. x - 1)
    <3>1. ASSUME NEW z \in S, z < x
          PROVE  z \in T \/ z \in y + 1 .. x - 1
      <4>1. Block(z, g) < b <=> z <= y
        BY <1>q, <2>7, BlockIs
      <4>2. z \in Nat /\ x \in Nat
        BY <1>q
      <4>3. ~(z <= y) => z \in y + 1 .. x - 1
        BY <3>1, <4>2
      <4> QED
        BY <2>4, <4>1, <4>3
    <3>2. ASSUME NEW z \in T
          PROVE  z \in S /\ z < x
      <4>1. z \in S /\ z \in Nat \ {0} /\ Block(z, g) < b
        BY <1>q, <2>4
      <4>2. z <= y
        BY <2>7, <4>1, BlockIs
      <4> QED
        BY <2>3, <2>7, <4>1, <4>2
    <3>3. ASSUME NEW z \in y + 1 .. x - 1
          PROVE  z \in S /\ z < x
      BY <2>9
    <3> QED
      BY <3>1, <3>2, <3>3 DEF Smaller
  <2>11. T \cap (y + 1 .. x - 1) = {}
    <3>1. ASSUME NEW z \in T
          PROVE  z \notin y + 1 .. x - 1
      <4>1. z \in S /\ z \in Nat \ {0} /\ Block(z, g) < b
        BY <1>q, <2>4
      <4>2. z <= y
        BY <2>7, <4>1, BlockIs
      <4> QED
        BY <4>2
    <3> QED
      BY <3>1
  <2>12. Cardinality(Smaller(S, x)) = M * g + (d - 1)
    <3>1. Cardinality(T \cup (y + 1 .. x - 1)) = Cardinality(T) + Cardinality(y + 1 .. x - 1)
                                                - Cardinality(T \cap (y + 1 .. x - 1))
      BY <2>6, <2>8, FS_Union
    <3>2. Cardinality(T \cap (y + 1 .. x - 1)) = 0
      BY <2>11, FS_EmptySet
    <3>3. M * g \in Nat /\ d - 1 \in Nat
      OBVIOUS
    <3> QED
      BY <2>6, <2>8, <2>10, <3>1, <3>2, <3>3
  <2>13. k - 1 = M * g + (d - 1)
    BY <1>1, <2>1, <2>12
  <2>14. (M * g + (d - 1)) \div g = M
    BY QuotientUnique
  <2> QED
    BY <2>1, <2>2, <2>5, <2>13, <2>14 DEF Block
<1>7. \A b, c \in B : Cardinality(Smaller(B, b)) = Cardinality(Smaller(B, c)) => b = c
  <2>1. PICK p : p = InOrder(B)
    OBVIOUS
  <2>b. B \in SUBSET Nat /\ IsFiniteSet(B)
    BY <1>3
  <2>n. PICK m \in Nat : m = Cardinality(B)
    BY <2>b, FS_CardinalityType
  <2>2. /\ \A k \in 1 .. m : Cardinality(Smaller(B, p[k])) = k - 1
        /\ \A x \in B : \E k \in 1 .. m : p[k] = x
    BY ONLY <2>b, <2>1, <2>n, Ordered
  <2>3. SUFFICES ASSUME NEW b \in B, NEW c \in B,
                        Cardinality(Smaller(B, b)) = Cardinality(Smaller(B, c))
                 PROVE  b = c
    OBVIOUS
  <2>4. PICK i \in 1 .. m, j \in 1 .. m : p[i] = b /\ p[j] = c
    BY <2>2
  <2>5. i - 1 = j - 1
    BY <2>2, <2>3, <2>4
  <2> QED
    BY <2>2, <2>4, <2>5
<1>8. ASSUME NEW i \in 1 .. N, NEW j \in 1 .. N, Block(i, g) = Block(j, g)
      PROVE  Block(f[i], g) = Block(f[j], g)
  <2>1. Block(f[i], g) \in B /\ Block(f[j], g) \in B
    BY <1>1, <1>2
  <2> QED
    BY <1>6, <1>7, <1>8, <2>1
<1> QED
  BY <1>1, <1>5, <1>8

-----------------------------------------------------------------------------
(* From slots to messages.                                                 *)

Condition == [rec : Rec \cup {NoRecord}, task : Tasks]

\* Whole groups of columns, each imagined from one start.
Grouped(q, g) ==
  /\ Divides(g, Len(q))
  /\ \A i, j \in DOMAIN q : Block(i, g) = Block(j, g) => q[i] = q[j]

\* A worker's slots in groups.
GroupedSlots(c, g) == \A i, j \in Slot : Block(i, g) = Block(j, g) => c[i] = c[j]

SameTask(w, s) == {q \in Slot : starts[w][q].task = starts[w][s].task}

LEMMA ShardsAre ==
  ASSUME NEW w, starts[w] \in [Slot -> Condition], NEW g \in Nat \ {0}, Divides(g, NumSlots),
         NEW q, q = TaskShards(w)
  PROVE  /\ q \in Seq(Seq(Condition))
         /\ GroupedSlots(starts[w], g) => \A m \in ToSet(q) : Grouped(m, g)
<1> DEFINE Alike(s) == InOrder({r \in Slot : starts[w][r].task = starts[w][s].task})
           firsts == {s \in Slot : Head(Alike(s)) = s}
<1>1. PICK heads : heads = InOrder(firsts)
  OBVIOUS
<1>2. q = [i \in DOMAIN heads |->
             [j \in DOMAIN Alike(heads[i]) |-> starts[w][Alike(heads[i])[j]]]]
  BY <1>1 DEF TaskShards
<1>3. firsts \in SUBSET Slot
  OBVIOUS
<1>a. \A s : Alike(s) = InOrder(SameTask(w, s))
  BY DEF SameTask
<1> HIDE DEF firsts, Alike
<1>s. NumSlots \in Nat \ {0} /\ Slot = 1 .. NumSlots /\ Slot \in SUBSET Nat /\ IsFiniteSet(Slot)
  <2>1. NumSlots \in Nat \ {0} /\ Slot = 1 .. NumSlots
    BY Sizes DEF Slot
  <2>2. IsFiniteSet(1 .. NumSlots)
    BY <2>1, FS_Interval
  <2> QED
    BY <2>1, <2>2
<1>4. PICK n \in Nat : heads \in [1 .. n -> Slot]
  <2>1. firsts \in SUBSET Nat /\ IsFiniteSet(firsts)
    BY <1>3, <1>s, FS_Subset
  <2>2. PICK m \in Nat : m = Cardinality(firsts)
    BY <2>1, FS_CardinalityType
  <2>3. heads \in [1 .. m -> firsts]
    BY ONLY <1>1, <2>1, <2>2, Ordered
  <2> QED
    BY <1>3, <2>3
<1>5. ASSUME NEW s \in Slot
      PROVE  \E m \in Nat :
               /\ m = Cardinality(SameTask(w, s)) /\ Alike(s) \in [1 .. m -> Slot]
               /\ GroupedSlots(starts[w], g) =>
                    /\ Divides(g, m)
                    /\ \A i, j \in 1 .. m : Block(i, g) = Block(j, g) =>
                         Block(Alike(s)[i], g) = Block(Alike(s)[j], g)
  <2>1. PICK S : S = SameTask(w, s)
    OBVIOUS
  <2>2. S \in SUBSET Slot /\ S \in SUBSET Nat /\ IsFiniteSet(S)
    <3>1. S \in SUBSET Slot
      BY <2>1 DEF SameTask
    <3> QED
      BY <1>s, <3>1, FS_Subset
  <2>3. PICK f : f = InOrder(S) /\ f = Alike(s)
    BY <1>a, <2>1
  <2>4. PICK m \in Nat : m = Cardinality(S)
    BY <2>2, FS_CardinalityType
  <2>5. f \in [1 .. m -> S]
    BY ONLY <2>2, <2>3, <2>4, Ordered
  <2>6. ASSUME GroupedSlots(starts[w], g)
        PROVE  /\ Divides(g, m)
               /\ \A i, j \in 1 .. m : Block(i, g) = Block(j, g) => Block(f[i], g) = Block(f[j], g)
    <3>1. Whole(S, g, NumSlots)
      <4>1. SUFFICES ASSUME NEW p \in 1 .. NumSlots, NEW r \in S, Block(p, g) = Block(r, g)
                     PROVE  p \in S
        BY DEF Whole
      <4>2. r \in Slot /\ p \in Slot /\ starts[w][r].task = starts[w][s].task
        BY <1>s, <2>1 DEF SameTask
      <4>3. starts[w][p] = starts[w][r]
        BY <2>6, <4>1, <4>2 DEF GroupedSlots
      <4> QED
        BY <2>1, <4>2, <4>3 DEF SameTask
    <3>2. /\ S \in SUBSET (1 .. NumSlots) /\ NumSlots \in Nat
          /\ g \in Nat \ {0} /\ Divides(g, NumSlots) /\ f = InOrder(S) /\ m = Cardinality(S)
      BY <1>s, <2>2, <2>3, <2>4
    <3> QED
      BY ONLY <3>1, <3>2, WholeOrder
  <2> QED
    BY <2>1, <2>2, <2>3, <2>4, <2>5, <2>6
<1>6. ASSUME NEW i \in 1 .. n
      PROVE  q[i] \in Seq(Condition) /\ (GroupedSlots(starts[w], g) => Grouped(q[i], g))
  <2>1. PICK s \in Slot : s = heads[i]
    BY <1>4
  <2>2. PICK m \in Nat :
               /\ m = Cardinality(SameTask(w, s)) /\ Alike(s) \in [1 .. m -> Slot]
               /\ GroupedSlots(starts[w], g) =>
                    /\ Divides(g, m)
                    /\ \A k, j \in 1 .. m : Block(k, g) = Block(j, g) =>
                         Block(Alike(s)[k], g) = Block(Alike(s)[j], g)
    BY <1>5
  <2>3. PICK a \in [1 .. m -> Slot] : a = Alike(s)
    BY <2>2
  <2>4. PICK c : c = [j \in 1 .. m |-> starts[w][a[j]]]
    OBVIOUS
  <2>5. q[i] = c
    BY <1>2, <1>4, <2>1, <2>2, <2>3, <2>4
  <2>6. \A j \in 1 .. m : a[j] \in Slot /\ starts[w][a[j]] \in Condition
    OBVIOUS
  <2>7. c \in [1 .. m -> Condition]
    BY <2>4, <2>6
  <2>8. c \in Seq(Condition) /\ Len(c) = m /\ DOMAIN c = 1 .. m
    BY <2>7
  <2>9. ASSUME GroupedSlots(starts[w], g)
        PROVE  Grouped(c, g)
    <3>1. ASSUME NEW k \in 1 .. m, NEW j \in 1 .. m, Block(k, g) = Block(j, g)
          PROVE  c[k] = c[j]
      <4>1. Block(a[k], g) = Block(a[j], g)
        BY <2>2, <2>3, <2>9, <3>1
      <4>2. starts[w][a[k]] = starts[w][a[j]]
        BY <2>6, <2>9, <4>1 DEF GroupedSlots
      <4> QED
        BY <2>4, <4>2
    <3> QED
      BY <2>2, <2>8, <2>9, <3>1 DEF Grouped
  <2> QED
    BY <2>5, <2>8, <2>9
<1>7. DOMAIN q = 1 .. n
  BY <1>2, <1>4
<1>8. q \in [1 .. n -> Seq(Condition)]
  <2>1. q = [i \in 1 .. n |-> q[i]]
    BY <1>2, <1>4
  <2> QED
    BY <1>6, <2>1
<1>9. q \in Seq(Seq(Condition))
  BY <1>8
<1>10. ASSUME GroupedSlots(starts[w], g), NEW m \in ToSet(q)
       PROVE  Grouped(m, g)
  <2>1. PICK i \in 1 .. n : m = q[i]
    BY <1>7, <1>10 DEF ToSet
  <2> QED
    BY <1>6, <1>10, <2>1
<1> QED
  BY <1>9, <1>10

-----------------------------------------------------------------------------
(* Dealing the messages to the ranks.                                      *)

\* One token for every message a rank still has to get.
Owing(o) == UNION {{r} \X (1 .. o[r]) : r \in Rank}
Owed(o, n) == IsFiniteSet(Owing(o)) /\ Cardinality(Owing(o)) = n

LEMMA OwingAre ==
  ASSUME NEW o \in [Rank -> Nat]
  PROVE  \A p : p \in Owing(o) <=>
           \E r \in Rank : \E k \in Nat : p = <<r, k>> /\ 1 <= k /\ k <= o[r]
<1>1. \A p : p \in Owing(o) <=> \E r \in Rank : \E k \in 1 .. o[r] : p = <<r, k>>
  BY DEF Owing
<1>2. ASSUME NEW r \in Rank
      PROVE  \A k : k \in 1 .. o[r] <=> k \in Nat /\ 1 <= k /\ k <= o[r]
  <2>1. o[r] \in Nat
    OBVIOUS
  <2> QED
    BY <2>1
<1> QED
  BY <1>1, <1>2

\* The shares of the ranks add up to the messages: the i-th goes to rank
\* (i - 1) % ActorRanks.
LEMMA SharesAddUp ==
  ASSUME NEW n \in Nat, NEW o,
         o = [r \in Rank |-> (n \div ActorRanks) + (IF r < n % ActorRanks THEN 1 ELSE 0)]
  PROVE  o \in [Rank -> Nat] /\ Owed(o, n)
<1>a. PICK A \in Nat \ {0} : A = ActorRanks
  BY Sizes
<1>r. Rank = 0 .. A - 1
  BY <1>a DEF Rank
<1>1. PICK D \in Nat, M \in 0 .. A - 1 : D = n \div A /\ M = n % A /\ n = D * A + M
  BY Quotient
<1>2. o \in [Rank -> Nat] /\ \A r \in Rank : o[r] = D + (IF r < M THEN 1 ELSE 0)
  BY <1>1, <1>a, <1>r
<1>3. ASSUME NEW r \in Rank, NEW j \in Nat
      PROVE  j + 1 <= o[r] <=> j * A + r < n
  <2>0. r \in 0 .. A - 1
    BY <1>r
  <2>1. CASE j < D
    <3>1. PICK c \in Nat : D = j + 1 + c
      <4>1. D - j - 1 \in Nat /\ D = j + 1 + (D - j - 1)
        BY <2>1
      <4> QED
        BY <4>1
    <3>2. D * A = j * A + A + c * A /\ c * A \in Nat /\ j * A \in Nat
      BY <3>1
    <3>3. j * A + r < n
      BY <1>1, <2>0, <3>2
    <3> QED
      BY <1>2, <2>1, <3>3
  <2>2. CASE j = D
    BY <1>1, <1>2, <2>0, <2>2
  <2>3. CASE j > D
    <3>1. PICK c \in Nat : j = D + 1 + c
      <4>1. j - D - 1 \in Nat /\ j = D + 1 + (j - D - 1)
        BY <2>3
      <4> QED
        BY <4>1
    <3>2. j * A = D * A + A + c * A /\ c * A \in Nat /\ D * A \in Nat
      BY <3>1
    <3>3. ~(j * A + r < n)
      BY <1>1, <2>0, <3>2
    <3> QED
      BY <1>2, <2>3, <3>3
  <2> QED
    BY <2>1, <2>2, <2>3
<1> DEFINE h == [i \in 1 .. n |-> <<(i - 1) % A, ((i - 1) \div A) + 1>>]
<1>4. ASSUME NEW i \in 1 .. n
      PROVE  \E r \in Rank : \E j \in Nat : /\ r = (i - 1) % A /\ j = (i - 1) \div A
                                           /\ i = j * A + r + 1
  <2>1. PICK x \in Nat : x = i - 1
    OBVIOUS
  <2>2. x % A \in 0 .. A - 1 /\ x \div A \in Nat /\ x = (x \div A) * A + (x % A)
    BY Quotient
  <2>3. i = (x \div A) * A + (x % A) + 1
    <3>1. PICK y \in Nat, z \in 0 .. A - 1 : y = (x \div A) * A /\ z = x % A
      BY <2>2
    <3> QED
      BY <2>1, <2>2, <3>1
  <2> QED
    BY <1>r, <2>1, <2>2, <2>3
<1>5. ASSUME NEW i \in 1 .. n
      PROVE  h[i] \in Owing(o)
  <2>1. PICK r \in Rank, j \in Nat : r = (i - 1) % A /\ j = (i - 1) \div A /\ i = j * A + r + 1
    BY <1>4
  <2>2. h[i] = <<r, j + 1>>
    BY <2>1
  <2>3. j * A + r < n
    <3>1. j * A \in Nat /\ r \in Nat
      BY <1>r
    <3> QED
      BY <2>1, <3>1
  <2>4. j + 1 <= o[r] /\ j + 1 \in Nat /\ 1 <= j + 1
    BY <1>3, <2>3
  <2> HIDE DEF h
  <2> QED
    BY <1>2, <2>2, <2>4, OwingAre
<1>6. ASSUME NEW i \in 1 .. n, NEW k \in 1 .. n, h[i] = h[k]
      PROVE  i = k
  <2>1. PICK r \in Rank, j \in Nat : r = (i - 1) % A /\ j = (i - 1) \div A /\ i = j * A + r + 1
    BY <1>4
  <2>2. PICK s \in Rank, l \in Nat : s = (k - 1) % A /\ l = (k - 1) \div A /\ k = l * A + s + 1
    BY <1>4
  <2>3. <<r, j + 1>> = <<s, l + 1>>
    BY <1>6, <2>1, <2>2
  <2>4. r = s /\ j + 1 = l + 1
    BY <2>3
  <2> QED
    BY <2>1, <2>2, <2>4
<1>7. ASSUME NEW p \in Owing(o)
      PROVE  \E i \in 1 .. n : h[i] = p
  <2>1. PICK r \in Rank, k \in Nat : p = <<r, k>> /\ 1 <= k /\ k <= o[r]
    BY <1>2, OwingAre
  <2>2. PICK j \in Nat : k = j + 1
    <3>1. k - 1 \in Nat /\ k = (k - 1) + 1
      BY <2>1
    <3> QED
      BY <3>1
  <2>3. j * A + r < n
    BY <1>3, <2>1, <2>2
  <2>r. r \in 0 .. A - 1
    BY <1>r
  <2>4. /\ j * A + r \in Nat
        /\ (j * A + r) \div A = j /\ (j * A + r) % A = r
    BY <2>r, QuotientUnique
  <2>5. PICK i \in 1 .. n : i - 1 = j * A + r
    <3>1. (j * A + r) + 1 \in 1 .. n /\ ((j * A + r) + 1) - 1 = j * A + r
      BY <2>3, <2>4
    <3> QED
      BY <3>1
  <2>6. h[i] = <<r, j + 1>>
    BY <2>4, <2>5
  <2> QED
    BY <2>1, <2>2, <2>6
<1>8. h \in Bijection(1 .. n, Owing(o))
  BY <1>5, <1>6, <1>7 DEF Bijection, Injection, IsInjective, Surjection
<1>9. IsFiniteSet(1 .. n) /\ Cardinality(1 .. n) = n
  BY FS_Interval
<1> QED
  BY <1>2, <1>8, <1>9, FS_Bijection DEF ExistsBijection, Owed

\* A rank that gets a message is owed one less.
LEMMA OneGot ==
  ASSUME NEW o \in [Rank -> Nat], NEW n \in Nat, Owed(o, n), NEW r \in Rank, o[r] > 0
  PROVE  n > 0 /\ [o EXCEPT ![r] = @ - 1] \in [Rank -> Nat] /\ Owed([o EXCEPT ![r] = @ - 1], n - 1)
<1>1. PICK u : u = [o EXCEPT ![r] = @ - 1]
  OBVIOUS
<1>2. /\ u \in [Rank -> Nat] /\ u[r] = o[r] - 1 /\ o[r] \in Nat
      /\ \A s \in Rank : s # r => u[s] = o[s]
  <2>1. o[r] - 1 \in Nat
    OBVIOUS
  <2> QED
    BY <1>1, <2>1
<1>3. <<r, o[r]>> \in Owing(o)
  <2>1. o[r] \in Nat /\ 1 <= o[r] /\ o[r] <= o[r]
    BY <1>2
  <2> QED
    BY <2>1, OwingAre
<1>4. ASSUME NEW p
      PROVE  p \in Owing(u) <=> p \in Owing(o) /\ p # <<r, o[r]>>
  <2>1. ASSUME p \in Owing(u)
        PROVE  p \in Owing(o) /\ p # <<r, o[r]>>
    <3>1. PICK s \in Rank, k \in Nat : p = <<s, k>> /\ 1 <= k /\ k <= u[s]
      BY <1>2, <2>1, OwingAre
    <3>2. k <= o[s] /\ (s = r => k # o[r])
      BY <1>2, <3>1
    <3>3. p # <<r, o[r]>>
      BY <3>1, <3>2
    <3> QED
      BY <3>1, <3>2, <3>3, OwingAre
  <2>2. ASSUME p \in Owing(o), p # <<r, o[r]>>
        PROVE  p \in Owing(u)
    <3>1. PICK s \in Rank, k \in Nat : p = <<s, k>> /\ 1 <= k /\ k <= o[s]
      BY <2>2, OwingAre
    <3>2. s = r => k # o[r]
      BY <2>2, <3>1
    <3>3. k <= u[s]
      BY <1>2, <3>1, <3>2
    <3> QED
      BY <1>2, <3>1, <3>3, OwingAre
  <2> QED
    BY <2>1, <2>2
<1>5. Owing(u) = Owing(o) \ {<<r, o[r]>>}
  BY <1>4
<1>6. IsFiniteSet(Owing(u)) /\ Cardinality(Owing(u)) = n - 1
  <2>1. PICK S, x : S = Owing(o) /\ x = <<r, o[r]>>
    OBVIOUS
  <2>2. IsFiniteSet(S) /\ Cardinality(S) = n
    BY <2>1 DEF Owed
  <2>3. IsFiniteSet(S \ {x}) /\ Cardinality(S \ {x}) = n - 1
    BY <1>3, <2>1, <2>2, FS_RemoveElement
  <2> QED
    BY <1>5, <2>1, <2>3
<1>7. n > 0
  BY <1>6, FS_CardinalityType
<1> QED
  BY <1>1, <1>2, <1>6, <1>7 DEF Owed

\* Nothing is owed exactly when every rank has got its share.
LEMMA NoneOwed ==
  ASSUME NEW n \in Nat
  PROVE  Owed(NothingOwed, n) <=> n = 0
<1>1. NothingOwed \in [Rank -> Nat] /\ \A r \in Rank : NothingOwed[r] = 0
  BY DEF NothingOwed
<1>2. Owing(NothingOwed) = {}
  BY <1>1, OwingAre
<1> QED
  BY <1>2, FS_EmptySet DEF Owed

\* Whole groups stay whole when messages are put together.
LEMMA GroupedConcat ==
  ASSUME NEW S, NEW g \in Nat \ {0}, NEW p \in Seq(S), NEW q \in Seq(S),
         Grouped(p, g), Grouped(q, g)
  PROVE  p \o q \in Seq(S) /\ Grouped(p \o q, g)
<1>1. PICK c \in Seq(S) : c = p \o q
  BY ConcatProperties
<1>2. PICK m \in Nat, n \in Nat : m = Len(p) /\ n = Len(q)
  OBVIOUS
<1>3. /\ Len(c) = m + n /\ DOMAIN c = 1 .. m + n
      /\ \A i \in 1 .. m + n : c[i] = IF i <= m THEN p[i] ELSE q[i - m]
  BY <1>1, <1>2, ConcatProperties
<1>4. PICK a \in Nat, b \in Nat : m = a * g /\ n = b * g
  <2>1. /\ m = (m \div g) * g + (m % g) /\ m \div g \in Nat
        /\ n = (n \div g) * g + (n % g) /\ n \div g \in Nat
    BY Quotient
  <2>2. m % g = 0 /\ n % g = 0
    BY <1>2 DEF Grouped, Divides
  <2>3. PICK a \in Nat, b \in Nat : a = m \div g /\ b = n \div g
    BY <2>1
  <2>4. m = a * g + 0 /\ n = b * g + 0 /\ a * g \in Nat /\ b * g \in Nat
    BY <2>1, <2>2, <2>3
  <2> QED
    BY <2>4
<1>5. Divides(g, Len(c))
  <2>1. m + n = (a + b) * g + 0 /\ a + b \in Nat
    BY <1>4
  <2>2. ((a + b) * g + 0) % g = 0
    <3>1. PICK e \in Nat : e = a + b
      OBVIOUS
    <3>2. (e * g + 0) % g = 0
      <4>1. PICK d \in 0 .. g - 1 : d = 0
        OBVIOUS
      <4>2. (e * g + d) % g = d
        BY QuotientUnique
      <4> QED
        BY <4>1, <4>2
    <3> QED
      BY <3>1, <3>2
  <2> QED
    BY <1>3, <2>1, <2>2 DEF Divides
<1>6. ASSUME NEW i \in 1 .. m + n, NEW j \in 1 .. m + n, Block(i, g) = Block(j, g)
      PROVE  c[i] = c[j]
  <2>1. /\ i \in Nat \ {0} /\ j \in Nat \ {0}
        /\ Block(i, g) < a <=> i <= m
        /\ Block(j, g) < a <=> j <= m
    <3>1. i \in Nat \ {0} /\ j \in Nat \ {0}
      OBVIOUS
    <3> QED
      BY <1>4, <3>1, BlockIs
  <2>2. CASE i <= m
    <3>1. j <= m /\ i \in DOMAIN p /\ j \in DOMAIN p
      BY <1>2, <1>6, <2>1, <2>2
    <3> QED
      BY <1>3, <1>6, <2>2, <3>1 DEF Grouped
  <2>3. CASE ~(i <= m)
    <3>1. ~(j <= m) /\ i - m \in DOMAIN q /\ j - m \in DOMAIN q
      BY <1>2, <1>6, <2>1, <2>3
    <3>2. PICK x \in Nat : x = Block(i, g) /\ x = Block(j, g)
      BY <1>6, <2>1, BlockIs
    <3>3. PICK d \in 1 .. g, e \in 1 .. g : i = x * g + d /\ j = x * g + e
      <4>1. \A k \in Nat \ {0} : Block(k, g) = x => \E d \in 1 .. g : k = x * g + d
        BY BlockIs
      <4> QED
        BY <2>1, <3>2, <4>1
    <3>4. PICK y \in Nat : x = a + y
      <4>1. ~(x < a)
        BY <2>1, <2>3, <3>2
      <4>2. x - a \in Nat /\ x = a + (x - a)
        BY <4>1
      <4> QED
        BY <4>2
    <3>5. i - m = y * g + d /\ j - m = y * g + e
      <4>1. x * g = a * g + y * g /\ a * g \in Nat /\ y * g \in Nat
        BY <3>4
      <4> QED
        BY <1>4, <3>3, <4>1
    <3>6. i - m \in Nat \ {0} /\ j - m \in Nat \ {0}
      BY <3>1
    <3>7. Block(i - m, g) = y /\ Block(j - m, g) = y
      BY <3>5, <3>6, BlockIs
    <3> QED
      BY <1>3, <2>3, <3>1, <3>7 DEF Grouped
  <2> QED
    BY <2>2, <2>3
<1> QED
  BY <1>1, <1>3, <1>5, <1>6 DEF Grouped

LEMMA GroupedFlat ==
  ASSUME NEW S, NEW g \in Nat \ {0}, NEW q \in Seq(Seq(S)), \A m \in ToSet(q) : Grouped(m, g)
  PROVE  FlattenSeq(q) \in Seq(S) /\ Grouped(FlattenSeq(q), g)
<1>1. PICK G : G = {p \in Seq(S) : Grouped(p, g)}
  OBVIOUS
<1>2. <<>> \in G
  <2>1. 0 % g = 0
    OBVIOUS
  <2> QED
    BY <1>1, <2>1 DEF Grouped, Divides
<1>3. G \in SUBSET Seq(S)
  BY <1>1
<1>4. ASSUME NEW p \in G, NEW b \in G
      PROVE  p \o b \in G
  <2>1. p \in Seq(S) /\ b \in Seq(S) /\ Grouped(p, g) /\ Grouped(b, g)
    BY <1>1
  <2>2. p \o b \in Seq(S) /\ Grouped(p \o b, g)
    BY ONLY <2>1, GroupedConcat
  <2> QED
    BY <1>1, <2>2
<1>5. q \in Seq(G)
  <2>1. \A i \in DOMAIN q : q[i] \in G
    BY <1>1 DEF ToSet
  <2>2. q \in [1 .. Len(q) -> G] /\ Len(q) \in Nat
    BY <2>1
  <2> QED
    BY <2>2
<1>6. FlattenSeq(q) \in G
  BY <1>2, <1>3, <1>4, <1>5, FlatKeeps
<1> QED
  BY <1>1, <1>6

-----------------------------------------------------------------------------
(* Where a refresh makes the slots of a worker begin.                      *)

StartsTyped == starts \in [Workers -> [Slot -> Condition]]

LEMMA RefreshAligned ==
  ASSUME Stored, startCursor \in Nat, recipe \in Recipe, StartsTyped, NEW w \in Workers,
         ~CannotStart(recipe.failed), Aligned(w)
  PROVE  /\ StartsTyped' /\ \A v \in Workers : v # w => starts'[v] = starts[v]
         /\ GroupedSlots(starts'[w], recipe.group)
         /\ \A s \in Slot : /\ starts'[w][s].rec \in Eligible(recipe.failed)
                            /\ starts'[w][s].rec.task = starts'[w][s].task
<1> DEFINE at(s) == StartAt(startCursor + ((s - 1) \div recipe.group), recipe.failed)
<1>1. PICK c : c = [s \in Slot |-> [rec |-> at(s), task |-> at(s).task]]
  OBVIOUS
<1>2. starts' = [starts EXCEPT ![w] = c]
  BY <1>1 DEF Aligned
<1>3. Eligible(recipe.failed) # {}
  BY DEF CannotStart
<1>4. PICK g \in Nat \ {0} : g = recipe.group
  <2>1. recipe.group \in 1 .. NumSlots
    BY DEF Recipe
  <2> QED
    BY <2>1, Sizes
<1>5. ASSUME NEW s \in Slot
      PROVE  at(s) \in Eligible(recipe.failed) /\ at(s) \in Rec
  <2>1. PICK k \in Nat : k = s - 1
    BY DEF Slot
  <2>2. k \div g \in Nat
    BY Quotient
  <2>d. PICK d \in Nat : d = k \div g
    BY <2>2
  <2>3. PICK i \in Nat : i = startCursor + (k \div g)
    BY <2>d
  <2>4. StartAt(i, recipe.failed) \in Eligible(recipe.failed) /\ StartAt(i, recipe.failed) \in Rec
    BY <1>3, StartEligible
  <2> QED
    BY <1>4, <2>1, <2>3, <2>4
<1>6. \A s, q \in Slot : Block(s, recipe.group) = Block(q, recipe.group) => at(s) = at(q)
  BY DEF Block
<1> HIDE DEF at
<1>7. \A s \in Slot : c[s] = [rec |-> at(s), task |-> at(s).task]
  BY <1>1
<1>8. c \in [Slot -> Condition]
  <2>1. \A s \in Slot : at(s).task \in Tasks
    BY <1>5 DEF Rec
  <2>2. \A s \in Slot : [rec |-> at(s), task |-> at(s).task] \in Condition
    BY <1>5, <2>1 DEF Condition
  <2> QED
    BY <1>1, <2>2
<1>9. StartsTyped' /\ starts'[w] = c /\ \A v \in Workers : v # w => starts'[v] = starts[v]
  BY <1>2, <1>8 DEF StartsTyped
<1>10. GroupedSlots(c, recipe.group)
  BY <1>6, <1>7 DEF GroupedSlots
<1>11. \A s \in Slot : c[s].rec \in Eligible(recipe.failed) /\ c[s].rec.task = c[s].task
  <2>1. SUFFICES ASSUME NEW s \in Slot
                 PROVE  c[s].rec \in Eligible(recipe.failed) /\ c[s].rec.task = c[s].task
    OBVIOUS
  <2>x. PICK x : x = at(s)
    OBVIOUS
  <2>c. c[s] = [rec |-> x, task |-> x.task]
    BY <1>7, <2>x
  <2>2. c[s].rec = at(s) /\ c[s].task = at(s).task
    BY <2>c, <2>x
  <2> QED
    BY <1>5, <2>2
<1> QED
  BY <1>9, <1>10, <1>11

LEMMA RefreshUnaligned ==
  ASSUME Stored, StartsTyped, NEW w \in Workers, Unaligned(w)
  PROVE  /\ StartsTyped' /\ \A v \in Workers : v # w => starts'[v] = starts[v]
         /\ stored[DefaultTask] # <<>> =>
              \A s \in Slot : starts'[w][s].rec \in Records(stored)
<1>1. PICK recs : recs = stored[DefaultTask]
  OBVIOUS
<1>d. DefaultTask \in Tasks
  BY Sizes DEF DefaultTask, Tasks
<1>2. recs \in Seq(Rec)
  BY <1>1, <1>d DEF Stored
<1>3. CASE recs = <<>>
  BY <1>1, <1>3 DEF Unaligned, StartsTyped
<1>4. CASE recs # <<>>
  <2>1. PICK m \in Nat \ {0} : m = Len(recs)
    BY <1>2, <1>4
  <2>2. PICK c : c = [s \in Slot |-> [rec |-> recs[((s - 1) % m) + 1], task |-> starts[w][s].task]]
    OBVIOUS
  <2>3. starts' = [starts EXCEPT ![w] = c]
    BY <1>1, <1>4, <2>1, <2>2 DEF Unaligned
  <2>4. ASSUME NEW s \in Slot
        PROVE  c[s] \in Condition /\ c[s].rec \in Records(stored)
    <3>1. PICK k \in Nat : k = s - 1
      BY DEF Slot
    <3>2. k % m \in 0 .. m - 1
      BY Quotient
    <3>3. PICK i \in 1 .. m : i = (k % m) + 1
      BY <3>2
    <3>4. recs[i] \in Rec
      BY <1>2, <2>1
    <3>5. starts[w][s] \in Condition
      BY DEF StartsTyped
    <3>6. c[s] = [rec |-> recs[i], task |-> starts[w][s].task]
      BY <2>2, <3>1, <3>3
    <3>7. recs[i] \in ToSet(recs)
      BY <1>2, <2>1, LenProperties DEF ToSet
    <3>8. recs[i] \in Records(stored)
      BY <1>1, <1>d, <3>7 DEF Records
    <3> QED
      BY <3>4, <3>5, <3>6, <3>8 DEF Condition
  <2>5. c \in [Slot -> Condition]
    BY <2>2, <2>4
  <2>6. starts'[w] = c /\ \A v \in Workers : v # w => starts'[v] = starts[v]
    BY <2>3 DEF StartsTyped
  <2> QED
    BY <2>3, <2>4, <2>5, <2>6 DEF StartsTyped
<1> QED
  BY <1>3, <1>4

LEMMA RefreshTyped ==
  ASSUME ReplayInv, recipe \in Recipe, StartsTyped, NEW w \in Workers, Refreshed(w)
  PROVE  StartsTyped'
<1>1. CASE UNCHANGED starts
  BY <1>1 DEF StartsTyped
<1>2. CASE ~CannotStart(recipe.failed) /\ Aligned(w)
  <2>1. Stored /\ startCursor \in Nat
    BY DEF ReplayInv
  <2> QED
    BY <1>2, <2>1, RefreshAligned
<1>3. CASE Unaligned(w)
  BY <1>3, RefreshUnaligned DEF ReplayInv
<1> QED
  BY <1>1, <1>2, <1>3 DEF Refreshed

-----------------------------------------------------------------------------
(* The invariant of the runner, the workers and the ranks.                 *)

Stages == {"launch", "enter", "collect", "learn", "refresh", "imagine", "receive",
           "online", "failed"}

RunnerInv ==
  /\ recipe \in Recipes /\ step \in Nat \ {0} /\ stage \in Stages
  /\ stage \in {"collect", "learn", "refresh", "imagine", "receive"} => step <= MaxSteps
  /\ updates \in Nat /\ leases \in Nat
  /\ todo \subseteq Workers /\ busy \subseteq Workers
  /\ StartsTyped

\* Messages are in the channel from the first lease that ends to the last
\* message that is read; each rank is told its share of them.
ChannelInv ==
  /\ shards \in Seq(Seq(Condition)) /\ columns \in [Rank -> Seq(Condition)]
  /\ owed \in [Rank -> Nat]
  /\ stage # "imagine" => busy = {}
  /\ stage = "receive" => Owed(owed, Len(shards))
  /\ stage # "receive" => owed = NothingOwed /\ columns = NoColumns
  /\ stage \notin {"imagine", "receive"} => shards = <<>>

Base == ReplayInv /\ RunnerInv /\ ChannelInv

LEMMA Initially == Init => Base
<1> SUFFICES ASSUME Init
             PROVE  Base
  OBVIOUS
<1> USE DEF Init, InitReplay
<1>1. PICK rep : rep = [stored |-> Nothing, next |-> 0, pending |-> {}]
  OBVIOUS
<1>2. rep \in Reps /\ Sound(rep.stored, rep.next, rep.pending) /\ Turns(rep, {})
  BY <1>1, NothingSound
<1>3. Stored /\ LatestInv
  BY <1>1, <1>2 DEF Stored, LatestInv, Reps, Turns
<1>4. ReplayInv
  BY <1>3, Sizes DEF ReplayInv, Waiting
<1>5. StartsTyped
  <2>1. DefaultTask \in Tasks
    BY Sizes DEF DefaultTask, Tasks
  <2> QED
    BY <2>1 DEF StartsTyped, Condition
<1>6. RunnerInv
  BY <1>5 DEF RunnerInv, Stages
<1>7. ChannelInv
  BY DEF ChannelInv, NothingOwed, NoColumns
<1> QED
  BY <1>4, <1>6, <1>7 DEF Base

LEMMA InBatches ==
  ASSUME NEW eps \in [1 .. PerStep -> Episodes]
  PROVE  eps \in Seq(Episodes)
<1>1. PICK n \in Nat : n = PerStep
  BY Sizes
<1>2. eps \in [1 .. n -> Episodes]
  BY <1>1
<1>3. n \in Nat
  OBVIOUS
<1> QED
  BY ONLY <1>2, <1>3

LEMMA RecipesAre ==
  ASSUME recipe \in Recipes
  PROVE  /\ recipe \in Recipe /\ recipe.group \in Nat \ {0}
         /\ Divides(recipe.group, NumSlots)
<1>1. recipe \in Recipe /\ NumSlots % recipe.group = 0
  BY StartsAssumption
<1>2. recipe.group \in 1 .. NumSlots
  BY <1>1 DEF Recipe
<1>3. recipe.group \in Nat \ {0}
  BY <1>2, Sizes
<1> QED
  BY <1>1, <1>3 DEF Divides

LEMMA ReplayStep ==
  ASSUME ReplayInv, RunnerInv, Next
  PROVE  ReplayInv'
<1>c. /\ recipe \in Recipe /\ stamp \in 0 .. MaxSteps /\ MaxSteps \in Nat /\ step \in Nat \ {0}
      /\ stage \in {"collect", "learn", "refresh", "imagine", "receive"} => step <= MaxSteps
  BY RecipesAre, Sizes DEF RunnerInv, ReplayInv
<1>1. CASE Launch
  <2>1. PICK eps \in {<<>>} \cup {<<e>> : e \in Episodes} : AddEpisodes(eps, "coldstart")
    BY <1>1 DEF Launch
  <2>2. eps \in Seq(Episodes)
    <3>1. ASSUME NEW e \in Episodes
          PROVE  <<e>> \in Seq(Episodes)
      OBVIOUS
    <3>2. CASE eps = <<>>
      BY <3>2
    <3>3. CASE eps # <<>>
      <4>1. PICK e \in Episodes : eps = <<e>>
        BY <3>3
      <4>2. PICK q \in Seq(Episodes) : q = <<e>>
        BY <3>1
      <4> QED
        BY ONLY <4>1, <4>2
    <3> QED
      BY <3>2, <3>3
  <2> QED
    BY <2>1, <2>2, ReplayAdds
<1>2. CASE EnterStep
  <2>1. step \in 0 .. MaxSteps /\ SetPolicyVersion(step)
    BY <1>2, <1>c DEF EnterStep
  <2> QED
    BY <2>1, ReplayStamps
<1>3. CASE CollectFrozen
  <2>1. PICK eps \in [1 .. PerStep -> Episodes] : AddEpisodes(eps, "online")
    BY <1>3 DEF CollectFrozen
  <2> QED
    BY <2>1, InBatches, ReplayAdds
<1>4. CASE CollectFull
  <2>1. PICK eps \in [1 .. PerStep -> Episodes] : ReplaceEpisodes(eps, step)
    BY <1>4 DEF CollectFull
  <2>2. step \in 0 .. MaxSteps
    BY <1>4, <1>c DEF CollectFull
  <2> QED
    BY <2>1, <2>2, InBatches, ReplayReplaces
<1>5. CASE CollectOnline
  <2>1. PICK e \in Episodes : AddEpisodes(<<e>>, "online")
    BY <1>5 DEF CollectOnline
  <2>2. <<e>> \in Seq(Episodes)
    OBVIOUS
  <2> QED
    BY <2>1, <2>2, ReplayAdds
<1>6. CASE PushVersion
  <2>1. PICK v \in 0 .. MaxSteps : SetPolicyVersion(v)
    BY <1>6 DEF PushVersion
  <2> QED
    BY <2>1, ReplayStamps
<1>7. CASE UpdateWorldModel
  BY <1>7, ReplaySamples DEF UpdateWorldModel, UpdateOn
<1>8. CASE UpdatePolicy
  BY <1>8, ReplaySamples DEF UpdatePolicy, UpdateOn
<1>9. CASE UpdateClassifier
  BY <1>9, ReplayWindows DEF UpdateClassifier
<1>10. CASE LearnerRaises \/ Learned \/ RefreshRaises \/ EndStep \/ DealShards
  BY <1>10, ReplayRests DEF LearnerRaises, Learned, RefreshRaises, EndStep, DealShards, Fails
<1>11. ASSUME NEW w \in Workers, Refresh(w) \/ StartLease(w) \/ EndLease(w)
       PROVE  ReplayInv'
  <2>1. CASE Refreshed(w)
    BY <1>c, <2>1, ReplayRefreshed
  <2>2. CASE UNCHANGED replayVars
    BY <2>2, ReplayRests
  <2> QED
    BY <1>11, <2>1, <2>2 DEF Refresh, StartLease, EndLease
<1>12. ASSUME NEW r \in Rank, GetShard(r)
       PROVE  ReplayInv'
  BY <1>12, ReplayRests DEF GetShard
<1> QED
  BY <1>1, <1>2, <1>3, <1>4, <1>5, <1>6, <1>7, <1>8, <1>9, <1>10, <1>11, <1>12 DEF Next

LEMMA RunnerStep ==
  ASSUME ReplayInv, RunnerInv, Next
  PROVE  RunnerInv'
<1> USE DEF RunnerInv, Stages
<1>c. recipe \in Recipe
  BY RecipesAre
<1>s. UNCHANGED starts => StartsTyped'
  BY DEF StartsTyped
<1>1. CASE Launch
  BY <1>1, <1>s DEF Launch
<1>2. CASE EnterStep
  BY <1>2, <1>s DEF EnterStep
<1>3. CASE CollectFrozen
  <2>1. /\ stage' \in Stages /\ step' \in Nat \ {0} /\ todo' \subseteq Workers
        /\ stage' # "enter" => step' <= MaxSteps
    <3>0. stage = "collect" /\ step <= MaxSteps /\ step + 1 \in Nat \ {0}
      BY <1>3 DEF CollectFrozen
    <3>1. CASE recipe.failed /\ Eligible(TRUE)' = {}
      <4>1. step' = step + 1 /\ stage' = "enter" /\ todo' = todo
        BY <1>3, <3>1 DEF CollectFrozen
      <4> QED
        BY <3>0, <4>1
    <3>2. CASE ~(recipe.failed /\ Eligible(TRUE)' = {})
      <4>1. stage' = "refresh" /\ todo' = Workers /\ step' = step
        BY <1>3, <3>2 DEF CollectFrozen, StartRefresh
      <4> QED
        BY <3>0, <4>1
    <3> QED
      BY <3>1, <3>2
  <2>2. UNCHANGED <<recipe, updates, starts, busy, leases>>
    BY <1>3 DEF CollectFrozen
  <2> QED
    BY <1>s, <2>1, <2>2
<1>4. CASE CollectFull
  BY <1>4, <1>s DEF CollectFull
<1>5. CASE CollectOnline \/ PushVersion
  BY <1>5, <1>s DEF CollectOnline, PushVersion, runnerVars
<1>7. CASE UpdateWorldModel \/ UpdatePolicy
  BY <1>7, <1>s DEF UpdateWorldModel, UpdatePolicy, UpdateOn
<1>9. CASE UpdateClassifier
  BY <1>9, <1>s DEF UpdateClassifier
<1>10. CASE LearnerRaises \/ RefreshRaises
  BY <1>10, <1>s DEF LearnerRaises, RefreshRaises, Fails
<1>11. CASE Learned
  BY <1>11, <1>s DEF Learned, StartRefresh
<1>12. CASE EndStep
  BY <1>12, <1>s DEF EndStep, Received
<1>13. CASE DealShards
  BY <1>13, <1>s DEF DealShards
<1>14. ASSUME NEW w \in Workers, Refresh(w)
       PROVE  RunnerInv'
  <2>1. StartsTyped'
    BY <1>14, <1>c, RefreshTyped DEF Refresh
  <2> QED
    BY <1>14, <2>1 DEF Refresh
<1>15. ASSUME NEW w \in Workers, StartLease(w)
       PROVE  RunnerInv'
  <2>1. StartsTyped'
    BY <1>15, <1>c, <1>s, RefreshTyped DEF StartLease
  <2> QED
    BY <1>15, <2>1 DEF StartLease
<1>16. ASSUME NEW w \in Workers, EndLease(w)
       PROVE  RunnerInv'
  BY <1>16, <1>s DEF EndLease
<1>17. ASSUME NEW r \in Rank, GetShard(r)
       PROVE  RunnerInv'
  BY <1>17, <1>s DEF GetShard
<1> QED
  BY <1>1, <1>2, <1>3, <1>4, <1>5, <1>7, <1>9, <1>10, <1>11, <1>12, <1>13, <1>14, <1>15,
     <1>16, <1>17 DEF Next

\* Under require_balanced_initial_conditions whole groups share a start, in the
\* slots, in the messages and in what the ranks have got.
GroupedInv == recipe.strict =>
  /\ \A w \in Workers : GroupedSlots(starts[w], recipe.group)
  /\ \A m \in ToSet(shards) : Grouped(m, recipe.group)
  /\ \A r \in Rank : Grouped(columns[r], recipe.group)

\* Until the first lease ends the channel stays empty.
LEMMA Quiet ==
  ASSUME ChannelInv, stage \notin {"imagine", "receive"}, stage' # "receive",
         UNCHANGED <<busy, actorVars>>
  PROVE  ChannelInv'
BY DEF ChannelInv, actorVars

LEMMA NoColumnsGrouped ==
  ASSUME NEW g \in Nat \ {0}
  PROVE  Grouped(<<>>, g)
<1>1. 0 % g = 0
  OBVIOUS
<1> QED
  BY <1>1 DEF Grouped, Divides

\* The messages of a lease that ends.
LEMMA LeaseEnds ==
  ASSUME Base, NEW w \in Workers, EndLease(w)
  PROVE  ChannelInv' /\ (GroupedInv => GroupedInv')
<1>1. PICK q : q = TaskShards(w)
  OBVIOUS
<1>2. PICK g \in Nat \ {0} : g = recipe.group /\ Divides(g, NumSlots)
  BY RecipesAre DEF Base, RunnerInv
<1>3. /\ q \in Seq(Seq(Condition))
      /\ GroupedSlots(starts[w], g) => \A m \in ToSet(q) : Grouped(m, g)
  <2>1. starts[w] \in [Slot -> Condition]
    BY DEF Base, RunnerInv, StartsTyped
  <2> QED
    BY <1>1, <1>2, <2>1, ShardsAre
<1>4. /\ w \in busy /\ busy' = busy \ {w} /\ shards' = shards \o q
      /\ UNCHANGED <<stage, starts, recipe, owed, columns>>
  BY <1>1 DEF EndLease
<1>5. stage = "imagine" /\ shards \in Seq(Seq(Condition))
  BY <1>4 DEF Base, ChannelInv
<1>6. PICK p \in Seq(Seq(Condition)) : p = shards
  BY <1>5
<1>7. p \o q \in Seq(Seq(Condition)) /\ ToSet(p \o q) = ToSet(p) \cup ToSet(q)
  <2>1. p \o q \in Seq(Seq(Condition))
    BY <1>3, ConcatProperties
  <2>2. ToSet(p \o q) = ToSet(p) \cup ToSet(q)
    BY <1>3, ConcatMembers
  <2> QED
    BY <2>1, <2>2
<1>8. ChannelInv'
  BY <1>4, <1>5, <1>6, <1>7 DEF Base, ChannelInv
<1>9. GroupedInv => GroupedInv'
  BY <1>2, <1>3, <1>4, <1>6, <1>7 DEF GroupedInv
<1> QED
  BY <1>8, <1>9

\* Each rank gets its share, or all of it.
LEMMA ShardsDealt ==
  ASSUME Base, DealShards
  PROVE  ChannelInv' /\ (GroupedInv => GroupedInv')
<1>1. /\ stage = "imagine" /\ busy = {} /\ stage' = "receive"
      /\ UNCHANGED <<starts, recipe, busy>>
  BY DEF DealShards
<1>2. PICK p \in Seq(Seq(Condition)) : p = shards
  BY DEF Base, ChannelInv
<1>3. PICK n \in Nat : n = Len(p)
  OBVIOUS
<1>4. PICK g \in Nat \ {0} : g = recipe.group
  BY RecipesAre DEF Base, RunnerInv
<1>o. owed = NothingOwed /\ columns = NoColumns /\ owed \in [Rank -> Nat]
  BY <1>1 DEF Base, ChannelInv
<1>5. CASE \A r \in Rank : Share(r) > 0
  <2>1. PICK o : o = [r \in Rank |-> (n \div ActorRanks) + (IF r < n % ActorRanks THEN 1 ELSE 0)]
    OBVIOUS
  <2>2. owed' = o /\ UNCHANGED <<shards, columns>>
    BY <1>2, <1>3, <1>5, <2>1 DEF DealShards, Share
  <2>3. o \in [Rank -> Nat] /\ Owed(o, n)
    BY <2>1, SharesAddUp
  <2>4. ChannelInv'
    BY <1>1, <1>2, <1>3, <2>2, <2>3 DEF Base, ChannelInv
  <2> QED
    BY <1>1, <2>2, <2>4 DEF GroupedInv
<1>6. CASE ~(\A r \in Rank : Share(r) > 0)
  <2>1. PICK c : c = FlattenSeq(p)
    OBVIOUS
  <2>2. columns' = [r \in Rank |-> c] /\ shards' = <<>> /\ owed' = NothingOwed
    BY <1>2, <1>6, <1>o, <2>1 DEF DealShards
  <2>3. c \in Seq(Condition)
    <3>1. <<>> \in Seq(Condition) /\ \A a \in Seq(Condition), b \in Seq(Condition) : a \o b \in Seq(Condition)
      BY ConcatProperties, EmptySeq
    <3> QED
      BY <2>1, <3>1, FlatKeeps
  <2>4. Owed(NothingOwed, 0)
    BY NoneOwed
  <2>5. ChannelInv'
    BY <1>1, <1>o, <2>2, <2>3, <2>4 DEF ChannelInv
  <2>6. ASSUME GroupedInv, recipe.strict
        PROVE  Grouped(c, g)
    BY <1>2, <1>4, <2>1, <2>6, GroupedFlat DEF GroupedInv
  <2>7. \A m \in ToSet(<<>>) : Grouped(m, g)
    BY DEF ToSet
  <2> QED
    BY <1>1, <1>4, <2>2, <2>5, <2>6, <2>7 DEF GroupedInv
<1> QED
  BY <1>5, <1>6

\* A rank reads the next message.
LEMMA ShardGot ==
  ASSUME Base, NEW r \in Rank, GetShard(r)
  PROVE  ChannelInv' /\ (GroupedInv => GroupedInv')
<1>1. /\ stage = "receive" /\ owed[r] > 0 /\ shards # <<>>
      /\ columns' = [columns EXCEPT ![r] = @ \o Head(shards)]
      /\ shards' = Tail(shards) /\ owed' = [owed EXCEPT ![r] = @ - 1]
      /\ UNCHANGED <<starts, recipe, busy, stage>>
  BY DEF GetShard
<1>2. PICK p \in Seq(Seq(Condition)) : p = shards /\ p # <<>>
  BY <1>1 DEF Base, ChannelInv
<1>3. PICK n \in Nat : n = Len(p)
  OBVIOUS
<1>4. PICK g \in Nat \ {0} : g = recipe.group
  BY RecipesAre DEF Base, RunnerInv
<1>5. PICK rest \in Seq(Seq(Condition)) : rest = Tail(p) /\ Len(rest) = n - 1
  <2>1. Tail(p) \in Seq(Seq(Condition)) /\ Len(Tail(p)) = Len(p) - 1
    BY <1>2, HeadTailProperties
  <2> QED
    BY <1>3, <2>1
<1>6. PICK m \in Seq(Condition) : m = Head(p) /\ m \in ToSet(p)
  <2>1. Head(p) = p[1] /\ 1 \in DOMAIN p /\ p[1] \in Seq(Condition)
    BY <1>2
  <2> QED
    BY <2>1 DEF ToSet
<1>7. ToSet(rest) \subseteq ToSet(p)
  <2>1. SUFFICES ASSUME NEW i \in DOMAIN rest
                 PROVE  rest[i] \in ToSet(p)
    BY DEF ToSet
  <2>2. rest[i] = p[i + 1] /\ i + 1 \in DOMAIN p
    BY <1>2, <1>3, <1>5
  <2> QED
    BY <2>2 DEF ToSet
<1>8. n > 0 /\ owed' \in [Rank -> Nat] /\ Owed(owed', n - 1)
  <2>1. owed \in [Rank -> Nat] /\ Owed(owed, n)
    BY <1>1, <1>2, <1>3 DEF Base, ChannelInv
  <2> QED
    BY <1>1, <2>1, OneGot
<1>9. columns[r] \in Seq(Condition) /\ columns \in [Rank -> Seq(Condition)]
  BY DEF Base, ChannelInv
<1>10. PICK c \in Seq(Condition) : c = columns[r] \o m
  BY <1>9, ConcatProperties
<1>11. columns' = [columns EXCEPT ![r] = c]
  BY <1>1, <1>2, <1>6, <1>10
<1>12. ChannelInv'
  BY <1>1, <1>2, <1>5, <1>8, <1>9, <1>11 DEF Base, ChannelInv
<1>13. ASSUME GroupedInv
       PROVE  GroupedInv'
  <2>1. SUFFICES ASSUME recipe.strict
                 PROVE  /\ \A x \in ToSet(rest) : Grouped(x, g)
                        /\ \A s \in Rank : Grouped(columns'[s], g)
    BY <1>1, <1>2, <1>4, <1>5, <1>13 DEF GroupedInv
  <2>2. Grouped(m, g) /\ Grouped(columns[r], g)
    BY <1>2, <1>4, <1>6, <1>13, <2>1 DEF GroupedInv
  <2>3. Grouped(c, g)
    BY <1>9, <1>10, <2>2, GroupedConcat
  <2> QED
    BY <1>2, <1>4, <1>7, <1>9, <1>11, <1>13, <2>1, <2>3 DEF GroupedInv
<1> QED
  BY <1>12, <1>13

\* When every rank has got what it was told, nothing is left in the channel.
LEMMA AllRead ==
  ASSUME Base, Received
  PROVE  shards = <<>>
<1>1. stage = "receive" /\ owed = NothingOwed
  BY DEF Received
<1>2. PICK p \in Seq(Seq(Condition)) : p = shards
  BY DEF Base, ChannelInv
<1>3. PICK n \in Nat : n = Len(p)
  OBVIOUS
<1>4. Owed(NothingOwed, n)
  BY <1>1, <1>2, <1>3 DEF Base, ChannelInv
<1>5. n = 0
  BY <1>4, NoneOwed
<1>6. p = <<>>
  <2>1. Len(p) = 0
    BY <1>3, <1>5
  <2> QED
    BY <2>1, EmptySeq
<1> QED
  BY <1>2, <1>6

LEMMA StepEnds ==
  ASSUME Base, EndStep
  PROVE  ChannelInv' /\ (GroupedInv => GroupedInv')
<1>1. /\ stage = "receive" /\ owed = NothingOwed /\ stage' = "enter" /\ columns' = NoColumns
      /\ UNCHANGED <<starts, recipe, busy, shards, owed>>
  BY DEF EndStep, Received
<1>2. shards = <<>>
  BY AllRead DEF EndStep
<1>3. NoColumns \in [Rank -> Seq(Condition)] /\ \A r \in Rank : NoColumns[r] = <<>>
  BY DEF NoColumns
<1>4. ChannelInv'
  BY <1>1, <1>2, <1>3 DEF Base, ChannelInv
<1>5. PICK g \in Nat \ {0} : g = recipe.group
  BY RecipesAre DEF Base, RunnerInv
<1>6. GroupedInv => GroupedInv'
  BY <1>1, <1>3, <1>5, NoColumnsGrouped DEF GroupedInv
<1> QED
  BY <1>4, <1>6

-----------------------------------------------------------------------------
(* Groups and starts through a step.                                       *)

\* What a slot holds is nothing yet, or a record of the replay with its task.
StartGood(c) ==
  /\ recipe.failed => c.rec # NoRecord
  /\ c.rec # NoRecord => /\ c.rec \in Records(stored) /\ c.rec.task = c.task
                         /\ recipe.failed => ~c.rec.success

StartsInv == recipe.strict =>
  /\ stage = "refresh" => \A w \in Workers \ todo : \A s \in Slot : StartGood(starts[w][s])
  /\ stage = "imagine" => \A w \in Workers : \A s \in Slot : StartGood(starts[w][s])
  /\ recipe.failed /\ stage \in {"refresh", "imagine"} => Records(stored) # {}
  /\ stage \notin {"learn", "failed"} /\ Records(stored) = {} =>
       \A w \in Workers : \A s \in Slot : starts[w][s].rec = NoRecord

\* The dataset of the full branch is this step's.
ThisStep ==
  /\ \A r \in Records(stored) : r.version = step
  /\ \A w \in ToSet(windows) \cup ToSet(windowQueue) : w.rec.version = step

StartsStored(w) == \A s \in Slot : starts[w][s].rec \in Records(stored)

\* Only a replay with records is learned from.
LearnInv ==
  /\ stage \in {"launch", "enter", "collect"} => updates = 0
  /\ stage = "learn" /\ updates > 0 => Records(stored) # {}

DatasetInv ==
  /\ stage \in {"launch", "enter", "collect"} => updates = 0
  /\ stage = "learn" => Full
  /\ Full /\ stage \in {"learn", "refresh", "imagine", "receive"} => ThisStep
  /\ stage = "learn" /\ updates > 0 => Records(stored) # {}
  /\ Full /\ stage \in {"refresh", "imagine"} => Records(stored) # {}
  /\ Full /\ RefreshDraws /\ stage = "refresh" => \A w \in Workers \ todo : StartsStored(w)
  /\ Full /\ RefreshDraws /\ stage = "imagine" => \A w \in Workers : StartsStored(w)

LEMMA NoRecordIsNone == NoRecord \notin Rec
<1>1. 0 .. MaxSteps \subseteq Nat
  BY Sizes
<1>2. Rec \subseteq [id: Nat, task: Tasks, success: BOOLEAN, len: Nat,
                     source: {"online", "coldstart"}, version: Nat]
  BY <1>1 DEF Rec
<1> QED
  BY <1>2, StartsAssumption

\* A strict refresh: nothing to start from and nothing changed, or a fresh start
\* in every slot.
LEMMA StrictRefresh ==
  ASSUME Base, recipe.strict, NEW w \in Workers, Refreshed(w)
  PROVE  /\ UNCHANGED <<contents, batch, windows, windowQueue>>
         /\ \/ Records(stored) = {} /\ UNCHANGED starts
            \/ /\ Records(stored) # {} /\ \A v \in Workers : v # w => starts'[v] = starts[v]
               /\ GroupedSlots(starts'[w], recipe.group)
               /\ \A s \in Slot : /\ starts'[w][s].rec \in Eligible(recipe.failed)
                                  /\ starts'[w][s].rec.task = starts'[w][s].task
<1>1. Stored /\ startCursor \in Nat /\ recipe \in Recipe /\ recipe \in Recipes /\ StartsTyped
      /\ ReplayInv
  BY RecipesAre DEF Base, ReplayInv, RunnerInv
<1>2. UNCHANGED <<contents, batch, windows, windowQueue>>
  BY <1>1, ReplayRefreshed
<1>3. CASE Records(stored) = {} /\ UNCHANGED starts
  BY <1>2, <1>3
<1>4. CASE Records(stored) # {} /\ ~CannotStart(recipe.failed) /\ Aligned(w)
  <2>1. /\ \A v \in Workers : v # w => starts'[v] = starts[v]
        /\ GroupedSlots(starts'[w], recipe.group)
        /\ \A s \in Slot : /\ starts'[w][s].rec \in Eligible(recipe.failed)
                           /\ starts'[w][s].rec.task = starts'[w][s].task
    BY <1>1, <1>4, RefreshAligned
  <2> QED
    BY <1>2, <1>4, <2>1
<1> QED
  BY <1>3, <1>4 DEF Refreshed

\* A refresh that finds a record, in the aligned draw or in the one it falls back
\* to, gives every slot of the worker a record of the replay.
LEMMA DrawnRefresh ==
  ASSUME Base, RefreshDraws, Records(stored) # {}, NEW w \in Workers, Refreshed(w)
  PROVE  /\ \A v \in Workers : v # w => starts'[v] = starts[v]
         /\ \A s \in Slot : starts'[w][s].rec \in Records(stored)
<1>1. Stored /\ startCursor \in Nat /\ recipe \in Recipe /\ StartsTyped
  BY RecipesAre DEF Base, ReplayInv, RunnerInv
<1>2. CASE ~CannotStart(recipe.failed) /\ Aligned(w)
  BY <1>1, <1>2, RefreshAligned DEF Eligible
<1>3. CASE stored[DefaultTask] # <<>> /\ Unaligned(w)
  BY <1>1, <1>3, RefreshUnaligned
<1> QED
  BY <1>2, <1>3 DEF Refreshed, RefreshDraws

LEMMA RefreshGrouped ==
  ASSUME Base, GroupedInv, NEW w \in Workers, Refreshed(w), UNCHANGED <<recipe, shards, columns>>
  PROVE  GroupedInv'
<1>1. SUFFICES ASSUME recipe.strict
               PROVE  \A v \in Workers : GroupedSlots(starts'[v], recipe.group)
  BY DEF GroupedInv
<1>2. CASE UNCHANGED starts
  BY <1>1, <1>2 DEF GroupedInv
<1>3. CASE /\ \A v \in Workers : v # w => starts'[v] = starts[v]
           /\ GroupedSlots(starts'[w], recipe.group)
  BY <1>1, <1>3 DEF GroupedInv
<1> QED
  BY <1>1, <1>2, <1>3, StrictRefresh

LEMMA RefreshedGood ==
  ASSUME Base, recipe.strict, NEW w \in Workers, Refreshed(w), UNCHANGED recipe,
         recipe.failed => Records(stored) # {},
         Records(stored) = {} => \A v \in Workers : \A s \in Slot : starts[v][s].rec = NoRecord
  PROVE  /\ \A s \in Slot : StartGood(starts[w][s])'
         /\ \A v \in Workers : v # w => starts'[v] = starts[v]
         /\ Records(stored) = {} => UNCHANGED starts
         /\ Records(stored) # {} => StartsStored(w)'
         /\ stored' = stored
<1>1. stored' = stored
  BY StrictRefresh DEF contents
<1>2. CASE Records(stored) = {} /\ UNCHANGED starts
  BY <1>1, <1>2 DEF StartGood
<1>3. CASE /\ Records(stored) # {} /\ \A v \in Workers : v # w => starts'[v] = starts[v]
           /\ GroupedSlots(starts'[w], recipe.group)
           /\ \A s \in Slot : /\ starts'[w][s].rec \in Eligible(recipe.failed)
                              /\ starts'[w][s].rec.task = starts'[w][s].task
  <2>1. ASSUME NEW s \in Slot
        PROVE  StartGood(starts[w][s])' /\ starts'[w][s].rec \in Records(stored)
    <3>1. /\ starts'[w][s].rec \in Records(stored)
          /\ recipe.failed => ~starts'[w][s].rec.success
      BY <1>3 DEF Eligible
    <3>2. starts'[w][s].rec # NoRecord
      BY <3>1, NoRecordIsNone, StoredRecords DEF Base, ReplayInv
    <3> QED
      BY <1>1, <1>3, <3>1, <3>2 DEF StartGood
  <2> QED
    BY <1>1, <1>3, <2>1 DEF StartsStored
<1> QED
  BY <1>2, <1>3, StrictRefresh

LEMMA ChannelStep ==
  ASSUME Base, Next
  PROVE  ChannelInv' /\ (GroupedInv => GroupedInv')
<1>g. UNCHANGED <<recipe, starts, shards, columns>> => (GroupedInv => GroupedInv')
  BY DEF GroupedInv
<1>1. CASE Launch
  <2>1. /\ stage \notin {"imagine", "receive"} /\ stage' # "receive"
        /\ UNCHANGED <<busy, recipe, starts, actorVars>>
    BY <1>1 DEF Launch
  <2> QED
    BY <1>g, <2>1, Quiet DEF Base, actorVars
<1>2. CASE EnterStep
  <2>1. /\ stage \notin {"imagine", "receive"} /\ stage' # "receive"
        /\ UNCHANGED <<busy, recipe, starts, actorVars>>
    BY <1>2 DEF EnterStep
  <2> QED
    BY <1>g, <2>1, Quiet DEF Base, actorVars
<1>3. CASE CollectFrozen
  <2>1. /\ stage \notin {"imagine", "receive"} /\ stage' # "receive"
        /\ UNCHANGED <<busy, recipe, starts, actorVars>>
    BY <1>3 DEF CollectFrozen, StartRefresh
  <2> QED
    BY <1>g, <2>1, Quiet DEF Base, actorVars
<1>4. CASE CollectFull
  <2>1. /\ stage \notin {"imagine", "receive"} /\ stage' # "receive"
        /\ UNCHANGED <<busy, recipe, starts, actorVars>>
    BY <1>4 DEF CollectFull
  <2> QED
    BY <1>g, <2>1, Quiet DEF Base, actorVars
<1>5. CASE CollectOnline \/ PushVersion
  <2>1. /\ stage \notin {"imagine", "receive"} /\ stage' # "receive"
        /\ UNCHANGED <<busy, recipe, starts, actorVars>>
    BY <1>5 DEF CollectOnline, PushVersion, runnerVars
  <2> QED
    BY <1>g, <2>1, Quiet DEF Base, actorVars
<1>6. CASE UpdateWorldModel \/ UpdatePolicy \/ UpdateClassifier
  <2>1. /\ stage \notin {"imagine", "receive"} /\ stage' # "receive"
        /\ UNCHANGED <<busy, recipe, starts, actorVars>>
    BY <1>6 DEF UpdateWorldModel, UpdatePolicy, UpdateClassifier, UpdateOn, Learning
  <2> QED
    BY <1>g, <2>1, Quiet DEF Base, actorVars
<1>7. CASE LearnerRaises \/ RefreshRaises
  <2>1. /\ stage \notin {"imagine", "receive"} /\ stage' # "receive"
        /\ UNCHANGED <<busy, recipe, starts, actorVars>>
    BY <1>7 DEF LearnerRaises, RefreshRaises, Fails
  <2> QED
    BY <1>g, <2>1, Quiet DEF Base, actorVars
<1>8. CASE Learned
  <2>1. /\ stage \notin {"imagine", "receive"} /\ stage' # "receive"
        /\ UNCHANGED <<busy, recipe, starts, actorVars>>
    BY <1>8 DEF Learned, StartRefresh
  <2> QED
    BY <1>g, <2>1, Quiet DEF Base, actorVars
<1>9. CASE EndStep
  BY <1>9, StepEnds
<1>10. CASE DealShards
  BY <1>10, ShardsDealt
<1>11. ASSUME NEW w \in Workers, Refresh(w)
       PROVE  ChannelInv' /\ (GroupedInv => GroupedInv')
  <2>1. /\ stage = "refresh" /\ stage' # "receive" /\ Refreshed(w)
        /\ UNCHANGED <<busy, recipe, actorVars>>
    BY <1>11 DEF Refresh
  <2>2. ChannelInv'
    BY <2>1, Quiet DEF Base
  <2>3. GroupedInv => GroupedInv'
    BY <2>1, RefreshGrouped DEF actorVars
  <2> QED
    BY <2>2, <2>3
<1>12. ASSUME NEW w \in Workers, StartLease(w)
       PROVE  ChannelInv' /\ (GroupedInv => GroupedInv')
  <2>1. /\ stage = "imagine" /\ stage' = stage /\ (Refreshed(w) \/ UNCHANGED starts)
        /\ UNCHANGED <<recipe, actorVars>>
    BY <1>12 DEF StartLease
  <2>2. ChannelInv'
    BY <2>1 DEF Base, ChannelInv, actorVars
  <2>3. GroupedInv => GroupedInv'
    BY <1>g, <2>1, RefreshGrouped DEF actorVars
  <2> QED
    BY <2>2, <2>3
<1>13. ASSUME NEW w \in Workers, EndLease(w)
       PROVE  ChannelInv' /\ (GroupedInv => GroupedInv')
  BY <1>13, LeaseEnds
<1>14. ASSUME NEW r \in Rank, GetShard(r)
       PROVE  ChannelInv' /\ (GroupedInv => GroupedInv')
  BY <1>14, ShardGot
<1> QED
  BY <1>1, <1>2, <1>3, <1>4, <1>5, <1>6, <1>7, <1>8, <1>9, <1>10, <1>11, <1>12, <1>13, <1>14
  DEF Next

LEMMA DrawnKept ==
  ASSUME UNCHANGED <<recipe, stored>>
  PROVE  RefreshDraws' = RefreshDraws
BY DEF RefreshDraws, CannotStart, Eligible, EligibleOf

\* A step of the specification that changes nothing.
LEMMA Rest ==
  ASSUME UNCHANGED vars
  PROVE  /\ Base => Base'
         /\ GroupedInv => GroupedInv'
         /\ StartsInv => StartsInv'
         /\ DatasetInv => DatasetInv'
<1> USE DEF vars, runnerVars, actorVars, replayVars
<1>1. Base => Base'
  BY ReplayRests DEF Base, RunnerInv, ChannelInv, StartsTyped, Owed, Owing
<1>2. GroupedInv => GroupedInv'
  BY DEF GroupedInv
<1>3. StartsInv => StartsInv'
  BY DEF StartsInv, StartGood
<1>4. DatasetInv => DatasetInv'
  BY DrawnKept DEF DatasetInv, ThisStep, StartsStored, Full
<1> QED
  BY <1>1, <1>2, <1>3, <1>4

LEMMA BaseStep ==
  ASSUME Base, [Next]_vars
  PROVE  Base'
<1>1. CASE Next
  BY <1>1, ReplayStep, RunnerStep, ChannelStep DEF Base
<1> QED
  BY <1>1, Rest

LEMMA BaseHolds == Spec => []Base
<1>1. Base /\ [Next]_vars => Base'
  BY BaseStep
<1> QED
  BY <1>1, Initially, PTL DEF Spec

\* The contents of the replay, what is drawn from it, the refreshes under way
\* and the messages owed stay what the operations take them for
\* (online_replay.py, refresh_wm_initial_conditions).
THEOREM TypeCorrect == Spec => []TypeOK
<1>1. Base => TypeOK
  <2>1. SUFFICES ASSUME Base
                 PROVE  TypeOK
    OBVIOUS
  <2> DEFINE Record == [id: 0 .. nextId, task: Tasks, success: BOOLEAN,
                        len: {e.len : e \in Episodes}, source: {"online", "coldstart"},
                        version: 0 .. MaxSteps]
  <2>s. Stored /\ nextId \in Nat /\ stored \in [Tasks -> Seq(Rec)]
    BY <2>1 DEF Base, ReplayInv, Stored
  <2>2. ASSUME NEW t \in Tasks, NEW r \in ToSet(stored[t])
        PROVE  r \in Record /\ r.task = t
    <3>1. PICK i \in DOMAIN stored[t] : r = stored[t][i]
      BY <2>2 DEF ToSet
    <3>2. r \in Rec /\ r.task = t /\ r.id < nextId /\ r.len \in Lengths
      BY <2>s, <3>1 DEF Stored, Sound, Fitting
    <3>3. r.id \in 0 .. nextId
      BY <2>s, <3>2 DEF Rec
    <3> QED
      BY <3>2, <3>3 DEF Rec, Lengths
  <2>3. ASSUME NEW i \in Records(stored), NEW j \in Records(stored), i.id = j.id
        PROVE  i = j
    <3>1. PICK t \in Tasks, u \in Tasks : i \in ToSet(stored[t]) /\ j \in ToSet(stored[u])
      BY DEF Records
    <3>2. t = u
      BY <2>3, <2>s, <3>1 DEF Stored, Sound
    <3>3. PICK m \in DOMAIN stored[t], n \in DOMAIN stored[t] : i = stored[t][m] /\ j = stored[t][n]
      BY <3>1, <3>2 DEF ToSet
    <3>4. m \in Nat /\ n \in Nat /\ i \in Rec /\ j \in Rec
      BY <2>s, <3>3
    <3>5. i.id \in Nat /\ j.id \in Nat
      BY <3>4 DEF Rec
    <3>6. ~(m < n) /\ ~(n < m)
      BY <2>3, <2>s, <3>3, <3>5 DEF Stored, Sound, Fitting
    <3> QED
      BY <3>3, <3>4, <3>6
  <2>4. \A t \in Tasks : Transitions(stored[t]) <= Capacity
    BY <2>s DEF Stored, Sound, Fitting
  <2>5. pendingLatest \subseteq 0 .. nextId - 1
    BY <2>s DEF Stored, Sound
  <2>6. ToSet(batch) \subseteq Record
    <3>1. ToSet(batch) \subseteq Records(stored)
      BY <2>1, Members DEF Base, ReplayInv
    <3> QED
      BY <2>2, <3>1 DEF Records
  <2>7. \A w \in ToSet(windows \o windowQueue) : WindowEnv <= w.end /\ w.end <= w.rec.len
    <3>1. windows \o windowQueue \in Seq(Windows)
      BY <2>1, ConcatProperties DEF Base, ReplayInv, Waiting
    <3>2. PICK all \in Seq(Windows) : all = windows \o windowQueue
      BY <3>1
    <3>3. ToSet(all) \in SUBSET Windows
      BY Members
    <3>4. \A w \in Windows : WindowEnv <= w.end /\ w.end <= w.rec.len
      BY DEF Windows
    <3> QED
      BY <3>2, <3>3, <3>4
  <2> QED
    BY <2>1, <2>2, <2>3, <2>4, <2>5, <2>6, <2>7
    DEF TypeOK, Base, ReplayInv, RunnerInv, ChannelInv, Stages
<1> QED
  BY <1>1, BaseHolds, PTL

\* An online episode that is in the replay has opened a batch, or its turn was
\* met, or is still to come (_pop_pending_latest_online).
THEOREM LatestLeadsAlways == Spec => []LatestLeads
<1>1. Base => LatestLeads
  BY DEF Base, ReplayInv, LatestInv, LatestLeads
<1> QED
  BY <1>1, BaseHolds, PTL

\* What is left over opens the next batch.
LEMMA PrefixOfConcat ==
  ASSUME NEW S, NEW p \in Seq(S), NEW q \in Seq(S)
  PROVE  IsPrefix(p, p \o q)
<1>1. PICK c \in Seq(S) : c = p \o q /\ Len(c) = Len(p) + Len(q)
  BY ConcatProperties
<1>2. PICK m \in Nat, n \in Nat : m = Len(p) /\ n = Len(q)
  OBVIOUS
<1>3. \A i \in 1 .. m : c[i] = p[i] /\ c[i] \in S /\ p[i] \in S
  BY <1>1, <1>2, ConcatProperties
<1>4. /\ SubSeq(p, 1, m) \in Seq(S) /\ Len(SubSeq(p, 1, m)) = m
      /\ \A i \in 1 .. m : SubSeq(p, 1, m)[i] = p[i]
  <2>1. 1 \in Int /\ m \in Int /\ \A i \in 1 .. m : p[i] \in S
    BY <1>3
  <2>2. /\ SubSeq(p, 1, m) \in Seq(S)
        /\ Len(SubSeq(p, 1, m)) = (IF 1 <= m THEN m - 1 + 1 ELSE 0)
        /\ \A i \in 1 .. m - 1 + 1 : SubSeq(p, 1, m)[i] = p[1 + i - 1]
    BY ONLY <2>1, SubSeqProperties
  <2> QED
    BY <2>2
<1>5. /\ SubSeq(c, 1, m) \in Seq(S) /\ Len(SubSeq(c, 1, m)) = m
      /\ \A i \in 1 .. m : SubSeq(c, 1, m)[i] = c[i]
  <2>1. 1 \in Int /\ m \in Int /\ \A i \in 1 .. m : c[i] \in S
    BY <1>3
  <2>2. /\ SubSeq(c, 1, m) \in Seq(S)
        /\ Len(SubSeq(c, 1, m)) = (IF 1 <= m THEN m - 1 + 1 ELSE 0)
        /\ \A i \in 1 .. m - 1 + 1 : SubSeq(c, 1, m)[i] = c[1 + i - 1]
    BY ONLY <2>1, SubSeqProperties
  <2> QED
    BY <2>2
<1>6. PICK x \in Seq(S), y \in Seq(S) : /\ x = SubSeq(p, 1, m) /\ y = SubSeq(c, 1, m)
                                       /\ Len(x) = m /\ Len(y) = m /\ \A i \in 1 .. m : x[i] = y[i]
  BY <1>3, <1>4, <1>5
<1>7. x = y
  BY <1>6
<1>8. m <= m + n
  OBVIOUS
<1> QED
  BY <1>1, <1>2, <1>6, <1>7, <1>8 DEF IsPrefix

LEMMA NegativesFollow ==
  ASSUME Base, UpdateClassifier
  PROVE  LET all == windows' \o windowQueue'
         IN /\ IsPrefix(windowQueue, all)
            /\ Len(windowQueue') <= 1
            /\ \A i \in 1 .. Len(all) :
                 all[i].last /\ EarlyEnds(all[i].rec) # {} =>
                   /\ i < Len(all)
                   /\ all[i + 1].rec = all[i].rec /\ ~all[i + 1].last
<1>1. PICK flat \in Seq(Cuts) :
        /\ Paired(flat) /\ windows' \o windowQueue' = windowQueue \o flat /\ Waiting(windowQueue')
  <2>1. Stored /\ Waiting(windowQueue) /\ WindowBatch \in Nat \ {0} /\ SampleWindows(WindowBatch)
    BY Sizes DEF Base, ReplayInv, UpdateClassifier
  <2> QED
    BY <2>1, WindowsSampled
<1>2. flat \in Seq(Windows)
  <2>1. Cuts \subseteq Windows
    BY DEF Cuts
  <2> QED
    BY <2>1, SeqMonotonic
<1>3. PICK q \in Seq(Windows) : q = windowQueue /\ \A i \in DOMAIN q : ~q[i].last
  BY DEF Base, ReplayInv, Waiting
<1>4. PICK all \in Seq(Windows) : /\ all = q \o flat /\ Len(all) = Len(q) + Len(flat)
                                  /\ \A i \in 1 .. Len(q) + Len(flat) :
                                       all[i] = IF i <= Len(q) THEN q[i] ELSE flat[i - Len(q)]
  <2>1. /\ q \o flat \in Seq(Windows) /\ Len(q \o flat) = Len(q) + Len(flat)
        /\ \A i \in 1 .. Len(q) + Len(flat) :
             (q \o flat)[i] = IF i <= Len(q) THEN q[i] ELSE flat[i - Len(q)]
    BY <1>2, ConcatProperties
  <2>2. PICK c : c = q \o flat
    OBVIOUS
  <2> QED
    BY <2>1, <2>2
<1>5. PICK m \in Nat, n \in Nat : m = Len(q) /\ n = Len(flat)
  OBVIOUS
<1>6. ASSUME NEW i \in 1 .. m + n, all[i].last, EarlyEnds(all[i].rec) # {}
      PROVE  i < m + n /\ all[i + 1].rec = all[i].rec /\ ~all[i + 1].last
  <2>1. ~(i <= m)
    BY <1>3, <1>4, <1>5, <1>6
  <2>2. PICK k \in 1 .. n : k = i - m
    <3>1. i - m \in 1 .. n
      BY <2>1
    <3> QED
      BY <3>1
  <2>3. all[i] = flat[k] /\ k \in DOMAIN flat
    BY <1>4, <1>5, <2>1, <2>2
  <2>4. k < n /\ flat[k + 1].rec = flat[k].rec /\ ~flat[k + 1].last
    BY <1>1, <1>5, <1>6, <2>3 DEF Paired
  <2>5. i + 1 \in 1 .. m + n /\ ~(i + 1 <= m) /\ (i + 1) - m = k + 1
    BY <2>1, <2>2, <2>4
  <2>6. all[i + 1] = flat[k + 1]
    BY <1>4, <1>5, <2>5
  <2> QED
    BY <2>2, <2>3, <2>4, <2>6
<1>7. IsPrefix(q, all)
  BY <1>2, <1>4, PrefixOfConcat
<1>8. Len(windowQueue') <= 1
  BY <1>1 DEF Waiting
<1>9. windows' \o windowQueue' = all /\ Len(all) = m + n
  BY <1>1, <1>3, <1>4, <1>5
<1> QED
  BY <1>3, <1>6, <1>7, <1>8, <1>9

\* No early negative is lost at the border of two batches, and no end window is
\* without one (sample_classifier_windows).
THEOREM NegativesAlwaysFollow == Spec => EarlyNegativeFollows
<1>1. ASSUME Base, [Next]_vars, updates' = updates + 1, Phase = 1
      PROVE  UpdateClassifier
  <2>0. updates \in Nat
    BY <1>1 DEF Base, RunnerInv
  <2>1. updates' # updates /\ updates' # 0
    BY <1>1, <2>0
  <2>2. ~(UNCHANGED vars)
    BY <2>1 DEF vars, runnerVars
  <2>3. ~Launch /\ ~EnterStep /\ ~CollectFrozen /\ ~CollectFull /\ ~CollectOnline /\ ~PushVersion
    BY <2>1 DEF Launch, EnterStep, CollectFrozen, CollectFull, CollectOnline, PushVersion, runnerVars
  <2>4. ~UpdateWorldModel /\ ~UpdatePolicy
    BY <1>1 DEF UpdateWorldModel, UpdatePolicy
  <2>5. ~LearnerRaises /\ ~Learned /\ ~RefreshRaises /\ ~EndStep /\ ~DealShards
    BY <2>1 DEF LearnerRaises, Learned, RefreshRaises, EndStep, DealShards, Fails
  <2>6. \A w \in Workers : ~Refresh(w) /\ ~StartLease(w) /\ ~EndLease(w)
    BY <2>1 DEF Refresh, StartLease, EndLease
  <2>7. \A r \in Rank : ~GetShard(r)
    BY <2>1 DEF GetShard
  <2> QED
    BY <1>1, <2>2, <2>3, <2>4, <2>5, <2>6, <2>7 DEF Next
<1>2. Base /\ [Next]_vars =>
        [updates' = updates + 1 /\ Phase = 1 =>
           LET all == windows' \o windowQueue'
           IN /\ IsPrefix(windowQueue, all)
              /\ Len(windowQueue') <= 1
              /\ \A i \in 1 .. Len(all) :
                   all[i].last /\ EarlyEnds(all[i].rec) # {} =>
                     /\ i < Len(all)
                     /\ all[i + 1].rec = all[i].rec /\ ~all[i + 1].last]_vars
  BY <1>1, NegativesFollow
<1> QED
  BY <1>2, BaseHolds, PTL DEF Spec, EarlyNegativeFollows

-----------------------------------------------------------------------------
(* Starts and datasets through a step.                                     *)

\* The dataset is this step's as long as the full branch uses it.
LEMMA DatasetStep ==
  ASSUME Base, DatasetInv, Next
  PROVE  DatasetInv'
<1>c. recipe \in Recipes /\ recipe \in Recipe /\ updates \in Nat /\ step \in Nat \ {0}
      /\ ReplayInv /\ (stage \in {"collect", "learn", "refresh", "imagine", "receive"} => step <= MaxSteps)
  BY RecipesAre DEF Base, RunnerInv
<1>r. ASSUME stored' = stored, starts' = starts
      PROVE  \A w : StartsStored(w) => StartsStored(w)'
  BY <1>r DEF StartsStored
<1>1. CASE Launch
  <2>1. recipe' = recipe /\ stage' \in {"online", "enter"} /\ updates' = updates /\ stage = "launch"
    BY <1>1 DEF Launch
  <2> QED
    BY <2>1 DEF DatasetInv
<1>2. CASE EnterStep
  <2>1. recipe' = recipe /\ stage' = "collect" /\ updates' = updates /\ stage = "enter"
    BY <1>2 DEF EnterStep
  <2> QED
    BY <2>1 DEF DatasetInv
<1>3. CASE CollectFrozen
  <2>1. /\ recipe' = recipe /\ stage' \in {"refresh", "enter"} /\ updates' = updates
        /\ stage = "collect" /\ ~Full
    BY <1>3 DEF CollectFrozen, StartRefresh
  <2> QED
    BY <2>1 DEF DatasetInv, Full
<1>4. CASE CollectFull
  <2>1. /\ recipe' = recipe /\ stage' = "learn" /\ updates' = updates /\ step' = step
        /\ stage = "collect" /\ Full
    BY <1>4 DEF CollectFull
  <2>2. PICK eps \in [1 .. PerStep -> Episodes] : ReplaceEpisodes(eps, step)
    BY <1>4 DEF CollectFull
  <2>3. step \in 0 .. MaxSteps
    BY <1>c, <2>1, Sizes
  <2>4. /\ windows' = <<>> /\ windowQueue' = <<>>
        /\ \A r \in Records(stored') : r.version = step
    BY <1>c, <2>2, <2>3, InBatches, ReplayReplaces
  <2>5. ThisStep'
    BY <2>1, <2>4 DEF ThisStep, ToSet
  <2>6. updates' = 0
    BY <2>1 DEF DatasetInv
  <2> QED
    BY <2>1, <2>5, <2>6 DEF DatasetInv, Full
<1>5. CASE CollectOnline \/ PushVersion
  <2>1. stage = "online" /\ stage' = stage
    BY <1>5 DEF CollectOnline, PushVersion, runnerVars
  <2> QED
    BY <2>1 DEF DatasetInv
<1>6. CASE UpdateWorldModel \/ UpdatePolicy
  <2>1. /\ UNCHANGED <<stored, windows, windowQueue, recipe, step, stage>>
        /\ Records(stored) # {} /\ stage \in {"learn", "online"}
    BY <1>6, <1>c, ReplaySamples DEF UpdateWorldModel, UpdatePolicy, UpdateOn, Learning
  <2> QED
    BY <2>1 DEF DatasetInv, ThisStep, Full
<1>7. CASE UpdateClassifier
  <2>1. /\ UNCHANGED <<recipe, step, stage>> /\ stage \in {"learn", "online"}
        /\ SampleWindows(WindowBatch)
    BY <1>7 DEF UpdateClassifier, Learning
  <2>2. /\ Records(stored) # {} /\ stored' = stored
        /\ ToSet(windows') \cup ToSet(windowQueue') \subseteq ToSet(windowQueue) \cup Cuts
    BY <1>c, <2>1, ReplayWindows
  <2>3. Full /\ stage = "learn" => ThisStep'
    <3>1. SUFFICES ASSUME Full, stage = "learn"
                   PROVE  ThisStep'
      OBVIOUS
    <3>2. ThisStep
      BY <3>1 DEF DatasetInv
    <3>3. \A w \in Cuts : w.rec.version = step
      BY <3>2 DEF ThisStep, Cuts
    <3> QED
      BY <2>1, <2>2, <3>2, <3>3 DEF ThisStep
  <2> QED
    BY <2>1, <2>2, <2>3 DEF DatasetInv, Full
<1>8. CASE LearnerRaises \/ RefreshRaises
  <2>1. stage' = "failed"
    BY <1>8 DEF LearnerRaises, RefreshRaises, Fails
  <2> QED
    BY <2>1 DEF DatasetInv
<1>9. CASE Learned
  <2>1. /\ stage = "learn" /\ updates > 0 /\ stage' = "refresh" /\ todo' = Workers
        /\ UNCHANGED <<stored, windows, windowQueue, recipe, step>>
    BY <1>9 DEF Learned, StartRefresh, replayVars
  <2>2. Records(stored) # {} /\ (Full => ThisStep)
    BY <2>1 DEF DatasetInv
  <2> QED
    BY <2>1, <2>2 DEF DatasetInv, ThisStep, Full
<1>10. CASE EndStep
  <2>1. stage' = "enter" /\ updates' = 0
    BY <1>10 DEF EndStep
  <2> QED
    BY <2>1 DEF DatasetInv
<1>11. CASE DealShards
  <2>1. /\ stage = "imagine" /\ stage' = "receive"
        /\ UNCHANGED <<stored, windows, windowQueue, recipe, step>>
    BY <1>11 DEF DealShards, replayVars
  <2> QED
    BY <2>1 DEF DatasetInv, ThisStep, Full
<1>12. ASSUME NEW w \in Workers, Refresh(w)
       PROVE  DatasetInv'
  <2>1. /\ stage = "refresh" /\ w \in todo /\ Refreshed(w) /\ todo' = todo \ {w}
        /\ stage' = (IF todo' = {} THEN "imagine" ELSE stage)
        /\ UNCHANGED <<recipe, step, updates>>
    BY <1>12 DEF Refresh
  <2>2. CASE ~Full
    BY <2>1, <2>2 DEF DatasetInv, Full
  <2>3. CASE Full
    <3>1. /\ Records(stored) # {} /\ ThisStep
          /\ RefreshDraws => \A v \in Workers \ todo : StartsStored(v)
      BY <2>1, <2>3 DEF DatasetInv
    <3>2. UNCHANGED <<stored, windows, windowQueue>>
      BY <1>c, <2>1, ReplayRefreshed DEF contents
    <3>d. RefreshDraws' = RefreshDraws
      BY <2>1, <3>2, DrawnKept
    <3>3. RefreshDraws => /\ \A v \in Workers : v # w => starts'[v] = starts[v]
                         /\ StartsStored(w)'
      BY <2>1, <3>1, <3>2, DrawnRefresh DEF StartsStored
    <3>4. ASSUME RefreshDraws', NEW v \in Workers, v \notin todo'
          PROVE  StartsStored(v)'
      <4>1. CASE v = w
        BY <3>3, <3>d, <3>4, <4>1
      <4>2. CASE v # w
        <5>1. v \notin todo /\ starts'[v] = starts[v] /\ StartsStored(v)
          BY <2>1, <3>1, <3>3, <3>d, <3>4, <4>2
        <5> QED
          BY <3>2, <5>1 DEF StartsStored
      <4> QED
        BY <4>1, <4>2
    <3>5. ThisStep' /\ Records(stored') # {} /\ stage' \in {"refresh", "imagine"}
          /\ (stage' = "imagine" => todo' = {})
      BY <2>1, <3>1, <3>2 DEF ThisStep
    <3> QED
      BY <2>1, <3>4, <3>5 DEF DatasetInv
  <2> QED
    BY <2>2, <2>3
<1>13. ASSUME NEW w \in Workers, StartLease(w)
       PROVE  DatasetInv'
  <2>1. /\ stage = "imagine" /\ UNCHANGED <<recipe, step, stage, updates>>
        /\ Refreshed(w) \/ UNCHANGED <<replayVars, starts>>
    BY <1>13 DEF StartLease
  <2>2. CASE ~Full
    BY <2>1, <2>2 DEF DatasetInv, Full
  <2>3. CASE Full
    <3>1. /\ Records(stored) # {} /\ ThisStep
          /\ RefreshDraws => \A v \in Workers : StartsStored(v)
      BY <2>1, <2>3 DEF DatasetInv
    <3>2. UNCHANGED <<stored, windows, windowQueue>>
      BY <1>c, <2>1, ReplayRefreshed DEF contents, replayVars
    <3>3. RefreshDraws' => \A v \in Workers : StartsStored(v)'
      <4> SUFFICES ASSUME RefreshDraws
                   PROVE  \A v \in Workers : StartsStored(v)'
        BY <2>1, <3>2, DrawnKept
      <4>1. CASE UNCHANGED starts
        BY <1>r, <3>1, <3>2, <4>1
      <4>2. CASE Refreshed(w)
        <5>1. /\ \A v \in Workers : v # w => starts'[v] = starts[v]
              /\ StartsStored(w)'
          BY <3>1, <3>2, <4>2, DrawnRefresh DEF StartsStored
        <5> QED
          BY <3>1, <3>2, <5>1 DEF StartsStored
      <4> QED
        BY <2>1, <4>1, <4>2
    <3>4. ThisStep' /\ Records(stored') # {}
      BY <2>1, <3>1, <3>2 DEF ThisStep
    <3> QED
      BY <2>1, <3>3, <3>4 DEF DatasetInv
  <2> QED
    BY <2>2, <2>3
<1>14. ASSUME NEW w \in Workers, EndLease(w)
       PROVE  DatasetInv'
  BY <1>14, DrawnKept DEF EndLease, replayVars, contents, DatasetInv, ThisStep, StartsStored, Full
<1>15. ASSUME NEW r \in Rank, GetShard(r)
       PROVE  DatasetInv'
  BY <1>15 DEF GetShard, replayVars, DatasetInv, ThisStep, StartsStored, Full
<1> QED
  BY <1>1, <1>2, <1>3, <1>4, <1>5, <1>6, <1>7, <1>8, <1>9, <1>10, <1>11, <1>12, <1>13, <1>14,
     <1>15 DEF Next

\* The starts are records of the replay as long as somebody imagines from them.
LEMMA StartsStep ==
  ASSUME Base, LearnInv, StartsInv, EpisodesFit, Next
  PROVE  StartsInv'
<1>c. recipe \in Recipes /\ ReplayInv
  BY DEF Base, RunnerInv
<1>s. recipe' = recipe
  BY DEF Next, Launch, EnterStep, CollectFrozen, CollectFull, CollectOnline, PushVersion,
     UpdateWorldModel, UpdatePolicy, UpdateOn, UpdateClassifier, LearnerRaises, Learned,
     RefreshRaises, Fails, EndStep, DealShards, Refresh, StartLease, EndLease, GetShard, runnerVars
<1> SUFFICES ASSUME recipe.strict
             PROVE  StartsInv'
  BY <1>s DEF StartsInv
<1>q. ASSUME stage' \notin {"refresh", "imagine"}, starts' = starts,
             stage \notin {"learn", "failed"}, StillSome(stored, stored')
      PROVE  StartsInv'
  BY <1>q DEF StartsInv, StillSome
<1>u. ASSUME stage' \notin {"refresh", "imagine"}, starts' = starts,
             stage \notin {"learn", "failed"}, stored' = stored
      PROVE  StartsInv'
  BY <1>u DEF StartsInv
<1>1. CASE Launch
  <2>1. PICK eps \in {<<>>} \cup {<<e>> : e \in Episodes} : AddEpisodes(eps, "coldstart")
    BY <1>1 DEF Launch
  <2>2. eps \in Seq(Episodes)
    <3>1. ASSUME NEW e \in Episodes
          PROVE  <<e>> \in Seq(Episodes)
      OBVIOUS
    <3>2. CASE eps = <<>>
      BY <3>2
    <3>3. CASE eps # <<>>
      <4>1. PICK e \in Episodes : eps = <<e>>
        BY <3>3
      <4>2. PICK q \in Seq(Episodes) : q = <<e>>
        BY <3>1
      <4> QED
        BY ONLY <4>1, <4>2
    <3> QED
      BY <3>2, <3>3
  <2>3. StillSome(stored, stored')
    BY <1>c, <2>1, <2>2, ReplayAdds
  <2>4. stage = "launch" /\ stage' \in {"online", "enter"} /\ starts' = starts
    BY <1>1 DEF Launch
  <2> QED
    BY <1>q, <2>3, <2>4
<1>2. CASE EnterStep
  <2>1. stage = "enter" /\ stage' = "collect" /\ starts' = starts /\ stored' = stored
    BY <1>2 DEF EnterStep, SetPolicyVersion, contents
  <2> QED
    BY <1>u, <2>1
<1>3. CASE CollectFrozen
  <2>1. PICK eps \in [1 .. PerStep -> Episodes] : AddEpisodes(eps, "online")
    BY <1>3 DEF CollectFrozen
  <2>2. StillSome(stored, stored')
    BY <1>c, <2>1, InBatches, ReplayAdds
  <2>3. stage = "collect" /\ starts' = starts
    BY <1>3 DEF CollectFrozen
  <2>4. CASE stage' = "enter"
    BY <1>q, <2>2, <2>3, <2>4
  <2>5. CASE stage' # "enter"
    <3>1. /\ stage' = "refresh" /\ todo' = Workers
          /\ recipe.failed => Eligible(TRUE)' # {}
      BY <1>3, <2>5 DEF CollectFrozen, StartRefresh
    <3>2. recipe.failed => Records(stored') # {}
      BY <3>1 DEF Eligible
    <3>3. Records(stored') = {} => \A w \in Workers : \A s \in Slot : starts'[w][s].rec = NoRecord
      BY <2>2, <2>3 DEF StillSome, StartsInv
    <3> QED
      BY <1>s, <3>1, <3>2, <3>3 DEF StartsInv
  <2> QED
    BY <2>4, <2>5
<1>4. CASE CollectFull
  BY <1>4 DEF CollectFull, StartsInv
<1>5. CASE CollectOnline
  <2>1. PICK e \in Episodes : AddEpisodes(<<e>>, "online")
    BY <1>5 DEF CollectOnline
  <2>2. <<e>> \in Seq(Episodes)
    OBVIOUS
  <2>3. StillSome(stored, stored')
    BY <1>c, <2>1, <2>2, ReplayAdds
  <2>4. stage = "online" /\ stage' = stage /\ starts' = starts
    BY <1>5 DEF CollectOnline, runnerVars
  <2> QED
    BY <1>q, <2>3, <2>4
<1>6. CASE PushVersion
  <2>1. stage = "online" /\ stage' = stage /\ starts' = starts /\ stored' = stored
    BY <1>6 DEF PushVersion, SetPolicyVersion, contents, runnerVars
  <2> QED
    BY <1>u, <2>1
<1>7. CASE UpdateWorldModel \/ UpdatePolicy
  <2>1. /\ stored' = stored /\ starts' = starts /\ stage' = stage /\ stage \in {"learn", "online"}
        /\ Records(stored) # {}
    BY <1>7, <1>c, ReplaySamples DEF UpdateWorldModel, UpdatePolicy, UpdateOn, Learning
  <2> QED
    BY <2>1 DEF StartsInv
<1>8. CASE UpdateClassifier
  <2>1. /\ stored' = stored /\ starts' = starts /\ stage' = stage /\ stage \in {"learn", "online"}
        /\ Records(stored) # {}
    BY <1>8, <1>c, ReplayWindows DEF UpdateClassifier, Learning
  <2> QED
    BY <2>1 DEF StartsInv
<1>9. CASE LearnerRaises \/ RefreshRaises
  <2>1. stage' = "failed"
    BY <1>9 DEF LearnerRaises, RefreshRaises, Fails
  <2> QED
    BY <2>1 DEF StartsInv
<1>10. CASE Learned
  <2>1. /\ stage = "learn" /\ updates > 0 /\ stage' = "refresh" /\ todo' = Workers
        /\ stored' = stored
    BY <1>10 DEF Learned, StartRefresh, replayVars
  <2>2. Records(stored) # {}
    BY <2>1 DEF LearnInv
  <2> QED
    BY <2>1, <2>2 DEF StartsInv
<1>11. CASE EndStep
  <2>1. stage = "receive" /\ stage' = "enter" /\ starts' = starts /\ stored' = stored
    BY <1>11 DEF EndStep, Received, replayVars
  <2> QED
    BY <1>u, <2>1
<1>12. CASE DealShards
  <2>1. stage = "imagine" /\ stage' = "receive" /\ starts' = starts /\ stored' = stored
    BY <1>12 DEF DealShards, replayVars
  <2> QED
    BY <1>u, <2>1
<1>13. ASSUME NEW w \in Workers, Refresh(w)
       PROVE  StartsInv'
  <2>1. /\ stage = "refresh" /\ w \in todo /\ Refreshed(w) /\ todo' = todo \ {w}
        /\ stage' = (IF todo' = {} THEN "imagine" ELSE stage) /\ recipe' = recipe
    BY <1>13 DEF Refresh
  <2>2. /\ \A v \in Workers \ todo : \A s \in Slot : StartGood(starts[v][s])
        /\ recipe.failed => Records(stored) # {}
        /\ Records(stored) = {} => \A v \in Workers : \A s \in Slot : starts[v][s].rec = NoRecord
    BY <2>1 DEF StartsInv
  <2>3. /\ \A s \in Slot : StartGood(starts[w][s])'
        /\ \A v \in Workers : v # w => starts'[v] = starts[v]
        /\ Records(stored) = {} => UNCHANGED starts
        /\ stored' = stored
    BY <2>1, <2>2, RefreshedGood
  <2>4. ASSUME NEW v \in Workers, v \notin todo', NEW s \in Slot
        PROVE  StartGood(starts[v][s])'
    <3>1. CASE v = w
      BY <2>3, <3>1
    <3>2. CASE v # w
      <4>1. v \notin todo /\ starts'[v] = starts[v] /\ StartGood(starts[v][s])
        BY <2>1, <2>2, <2>3, <2>4, <3>2
      <4> QED
        BY <2>1, <2>3, <4>1 DEF StartGood
    <3> QED
      BY <3>1, <3>2
  <2>5. stage' \in {"refresh", "imagine"} /\ (stage' = "imagine" => todo' = {})
    BY <2>1
  <2>6. Records(stored') = {} => \A v \in Workers : \A s \in Slot : starts'[v][s].rec = NoRecord
    BY <2>2, <2>3
  <2> QED
    BY <2>1, <2>2, <2>3, <2>4, <2>5, <2>6 DEF StartsInv
<1>14. ASSUME NEW w \in Workers, StartLease(w)
       PROVE  StartsInv'
  <2>1. /\ stage = "imagine" /\ stage' = stage /\ recipe' = recipe
        /\ Refreshed(w) \/ UNCHANGED <<replayVars, starts>>
    BY <1>14 DEF StartLease
  <2>2. /\ \A v \in Workers : \A s \in Slot : StartGood(starts[v][s])
        /\ recipe.failed => Records(stored) # {}
        /\ Records(stored) = {} => \A v \in Workers : \A s \in Slot : starts[v][s].rec = NoRecord
    BY <2>1 DEF StartsInv
  <2>3. CASE UNCHANGED <<replayVars, starts>>
    BY <2>1, <2>2, <2>3 DEF replayVars, StartsInv, StartGood
  <2>4. CASE Refreshed(w)
    <3>1. /\ \A s \in Slot : StartGood(starts[w][s])'
          /\ \A v \in Workers : v # w => starts'[v] = starts[v]
          /\ Records(stored) = {} => UNCHANGED starts
          /\ stored' = stored
      BY <2>1, <2>2, <2>4, RefreshedGood
    <3>2. ASSUME NEW v \in Workers, NEW s \in Slot
          PROVE  StartGood(starts[v][s])'
      <4>1. CASE v = w
        BY <3>1, <4>1
      <4>2. CASE v # w
        <5>1. starts'[v] = starts[v] /\ StartGood(starts[v][s])
          BY <2>2, <3>1, <4>2
        <5> QED
          BY <2>1, <3>1, <5>1 DEF StartGood
      <4> QED
        BY <4>1, <4>2
    <3>3. Records(stored') = {} => \A v \in Workers : \A s \in Slot : starts'[v][s].rec = NoRecord
      BY <2>2, <3>1
    <3> QED
      BY <2>1, <2>2, <3>1, <3>2, <3>3 DEF StartsInv
  <2> QED
    BY <2>1, <2>3, <2>4
<1>15. ASSUME NEW w \in Workers, EndLease(w)
       PROVE  StartsInv'
  BY <1>15 DEF EndLease, replayVars, StartsInv, StartGood
<1>16. ASSUME NEW r \in Rank, GetShard(r)
       PROVE  StartsInv'
  BY <1>16 DEF GetShard, replayVars, StartsInv, StartGood
<1> QED
  BY <1>1, <1>2, <1>3, <1>4, <1>5, <1>6, <1>7, <1>8, <1>9, <1>10, <1>11, <1>12, <1>13, <1>14,
     <1>15, <1>16 DEF Next

\* Nothing is learned from an empty replay.
LEMMA LearnStep ==
  ASSUME Base, LearnInv, Next
  PROVE  LearnInv'
<1>c. updates \in Nat /\ ReplayInv
  BY DEF Base, RunnerInv
<1>1. CASE Launch \/ EnterStep \/ CollectFrozen
  <2>1. /\ stage' # "learn" /\ updates' = updates
        /\ stage \in {"launch", "enter", "collect"}
    BY <1>1 DEF Launch, EnterStep, CollectFrozen, StartRefresh
  <2> QED
    BY <2>1 DEF LearnInv
<1>2. CASE CollectFull
  <2>1. stage = "collect" /\ stage' = "learn" /\ updates' = updates
    BY <1>2 DEF CollectFull
  <2> QED
    BY <2>1 DEF LearnInv
<1>3. CASE CollectOnline \/ PushVersion
  BY <1>3 DEF CollectOnline, PushVersion, runnerVars, LearnInv
<1>4. CASE UpdateWorldModel \/ UpdatePolicy
  <2>1. /\ stored' = stored /\ stage' = stage /\ stage \in {"learn", "online"}
        /\ Records(stored) # {}
    BY <1>4, <1>c, ReplaySamples DEF UpdateWorldModel, UpdatePolicy, UpdateOn, Learning
  <2> QED
    BY <2>1 DEF LearnInv
<1>5. CASE UpdateClassifier
  <2>1. /\ stored' = stored /\ stage' = stage /\ stage \in {"learn", "online"}
        /\ Records(stored) # {}
    BY <1>5, <1>c, ReplayWindows DEF UpdateClassifier, Learning
  <2> QED
    BY <2>1 DEF LearnInv
<1>6. CASE LearnerRaises \/ RefreshRaises \/ Learned \/ DealShards
  <2>1. stage' \in {"failed", "refresh", "receive"}
    BY <1>6 DEF LearnerRaises, RefreshRaises, Fails, Learned, StartRefresh, DealShards
  <2> QED
    BY <2>1 DEF LearnInv
<1>7. CASE EndStep
  BY <1>7 DEF EndStep, LearnInv
<1>8. ASSUME NEW w \in Workers, Refresh(w) \/ StartLease(w)
      PROVE  LearnInv'
  <2>1. stage' \in {"refresh", "imagine"}
    BY <1>8 DEF Refresh, StartLease
  <2> QED
    BY <2>1 DEF LearnInv
<1>9. ASSUME NEW w \in Workers, EndLease(w)
      PROVE  LearnInv'
  BY <1>9 DEF EndLease, replayVars, LearnInv
<1>10. ASSUME NEW r \in Rank, GetShard(r)
       PROVE  LearnInv'
  BY <1>10 DEF GetShard, replayVars, LearnInv
<1> QED
  BY <1>1, <1>2, <1>3, <1>4, <1>5, <1>6, <1>7, <1>8, <1>9, <1>10 DEF Next

LEMMA OpeningState == Init => GroupedInv /\ StartsInv /\ LearnInv /\ DatasetInv
<1> SUFFICES ASSUME Init
             PROVE  GroupedInv /\ StartsInv /\ LearnInv /\ DatasetInv
  OBVIOUS
<1>1. recipe \in Recipes /\ stage = "launch" /\ updates = 0 /\ shards = <<>>
      /\ columns = NoColumns
      /\ \A w \in Workers : \A s \in Slot : starts[w][s] = [rec |-> NoRecord, task |-> DefaultTask]
  BY DEF Init
<1>2. StartsInv /\ LearnInv /\ DatasetInv
  BY <1>1 DEF StartsInv, LearnInv, DatasetInv
<1>3. PICK g \in Nat \ {0} : g = recipe.group
  BY <1>1, RecipesAre
<1>4. GroupedInv
  BY <1>1, <1>3, NoColumnsGrouped DEF GroupedInv, GroupedSlots, NoColumns, ToSet
<1> QED
  BY <1>2, <1>4

\* In the full branch, strict or not, the learner uses this step's dataset alone
\* (replace_episodes), and imagination starts in it whenever a refresh finds a
\* record there, in the aligned draw or in manual_cotrain.task_id
\* (_bootstrap_wm_initial_latents_from_replay).
THEOREM DatasetCurrent == Spec => []OnlyThisDataset
<1>1. Base /\ DatasetInv /\ [Next]_vars => DatasetInv'
  BY DatasetStep, Rest
<1>2. Base /\ DatasetInv => OnlyThisDataset
  <2> SUFFICES ASSUME Base, DatasetInv, Full, stage \in {"learn", "refresh", "imagine"}
               PROVE  /\ \A r \in ToSet(batch) \cup Records(stored) : r.version = step
                      /\ \A w \in ToSet(windows \o windowQueue) : w.rec.version = step
                      /\ RefreshDraws => \A w \in busy : \A s \in Slot :
                           starts[w][s].rec # NoRecord /\ starts[w][s].rec.version = step
    BY DEF OnlyThisDataset
  <2>1. ThisStep
    BY DEF DatasetInv
  <2>2. \A r \in ToSet(batch) \cup Records(stored) : r.version = step
    BY <2>1, Members DEF ThisStep, Base, ReplayInv
  <2>3. \A w \in ToSet(windows \o windowQueue) : w.rec.version = step
    <3>1. PICK p \in Seq(Windows), q \in Seq(Windows) : p = windows /\ q = windowQueue
      BY DEF Base, ReplayInv, Waiting
    <3>2. ToSet(p \o q) = ToSet(p) \cup ToSet(q)
      BY ConcatMembers
    <3> QED
      BY <2>1, <3>1, <3>2 DEF ThisStep
  <2>4. ASSUME RefreshDraws, NEW w \in busy, NEW s \in Slot
        PROVE  starts[w][s].rec # NoRecord /\ starts[w][s].rec.version = step
    <3>1. stage = "imagine" /\ w \in Workers
      BY <2>4 DEF Base, ChannelInv, RunnerInv
    <3>2. starts[w][s].rec \in Records(stored)
      BY <2>4, <3>1 DEF DatasetInv, StartsStored
    <3>3. Records(stored) \subseteq Rec
      BY StoredRecords DEF Base, ReplayInv
    <3> QED
      BY <2>1, <3>2, <3>3, NoRecordIsNone DEF ThisStep
  <2> QED
    BY <2>2, <2>3, <2>4
<1> QED
  BY <1>1, <1>2, BaseHolds, OpeningState, PTL DEF Spec

\* Group-relative advantages mean something: what is imagined starts in the
\* replay, and the columns an actor rank compares come from one start
\* (require_balanced_initial_conditions).  An episode longer than the capacity of
\* its task would be evicted as it is added, and leave an emptied replay with the
\* starts of records that are gone.
THEOREM StartsAlignedAlways == EpisodesFit => (Spec => []StartsAligned)
<1> SUFFICES ASSUME EpisodesFit
             PROVE  Spec => []StartsAligned
  OBVIOUS
<1>1. Base /\ LearnInv /\ [Next]_vars => LearnInv'
  BY LearnStep DEF LearnInv, vars, replayVars, runnerVars
<1>2. Base /\ LearnInv /\ StartsInv /\ [Next]_vars => StartsInv'
  BY StartsStep, Rest
<1>3. Base /\ GroupedInv /\ [Next]_vars => GroupedInv'
  BY ChannelStep, Rest DEF Base
<1>4. Base /\ StartsInv /\ GroupedInv => StartsAligned
  <2> SUFFICES ASSUME Base, StartsInv, GroupedInv, recipe.strict
               PROVE  StartsFromReplay /\ GroupsShareStart
    BY DEF StartsAligned
  <2>1. StartsFromReplay
    <3>1. ASSUME NEW w \in busy, NEW s \in Slot
          PROVE  StartGood(starts[w][s])
      BY <3>1 DEF Base, ChannelInv, RunnerInv, StartsInv
    <3> QED
      BY <3>1 DEF StartsFromReplay, StartGood
  <2>2. ASSUME Received
        PROVE  shards = <<>>
    BY <2>2, AllRead DEF Base
  <2>3. PICK g \in Nat \ {0} : g = recipe.group
    BY RecipesAre DEF Base, RunnerInv
  <2>4. \A r \in Rank : Grouped(columns[r], g)
    BY <2>3 DEF GroupedInv
  <2> QED
    BY <2>1, <2>2, <2>3, <2>4 DEF GroupsShareStart, Grouped, Divides, Block
<1> QED
  BY <1>1, <1>2, <1>3, <1>4, BaseHolds, OpeningState, PTL DEF Spec

-----------------------------------------------------------------------------
(* Taking turns: n tasks, or the n records of a task, one after the other. *)

\* The number of i < x with i % n = a.
Before(x, n, a) == (x + (n - 1 - a)) \div n
\* The number of those from lo on.
Gap(lo, hi, n, a) == Before(hi, n, a) - Before(lo, n, a)

LEMMA BeforeIs ==
  ASSUME NEW n \in Nat \ {0}, NEW x \in Nat, NEW a \in 0 .. n - 1
  PROVE  /\ Before(x, n, a) \in Nat
         /\ \A j \in Nat : j * n + a < x <=> j < Before(x, n, a)
<1>1. PICK y \in Nat : y = x + (n - 1 - a)
  OBVIOUS
<1>2. PICK q \in Nat, r \in 0 .. n - 1 : q = y \div n /\ y = q * n + r
  BY Quotient
<1>3. q = Before(x, n, a)
  BY <1>1, <1>2 DEF Before
<1>4. PICK z \in Nat : z = q * n
  OBVIOUS
<1>5. ASSUME NEW j \in Nat
      PROVE  j * n + a < x <=> j < q
  <2>1. CASE j < q
    <3>1. PICK c \in Nat : q = j + 1 + c
      <4>1. q - j - 1 \in Nat /\ q = j + 1 + (q - j - 1)
        BY <2>1
      <4> QED
        BY <4>1
    <3>2. q * n = j * n + n + c * n /\ c * n \in Nat /\ j * n \in Nat
      BY <3>1
    <3> QED
      BY <1>1, <1>2, <2>1, <3>2
  <2>2. CASE q <= j
    <3>1. PICK c \in Nat : j = q + c
      <4>1. j - q \in Nat /\ j = q + (j - q)
        BY <2>2
      <4> QED
        BY <4>1
    <3>2. j * n = q * n + c * n /\ c * n \in Nat /\ q * n \in Nat
      BY <3>1
    <3> QED
      BY <1>1, <1>2, <2>2, <3>2
  <2> QED
    BY <2>1, <2>2
<1> QED
  BY <1>3, <1>5

\* The turns of two differ by one at most, wherever the round begins.
LEMMA GapsClose ==
  ASSUME NEW n \in Nat \ {0}, NEW lo \in Nat, NEW hi \in Nat, lo <= hi,
         NEW a \in 0 .. n - 1, NEW b \in 0 .. n - 1
  PROVE  /\ Gap(lo, hi, n, a) \in Nat
         /\ Before(lo, n, a) <= Before(hi, n, a)
         /\ Gap(lo, hi, n, a) - Gap(lo, hi, n, b) \in {-1, 0, 1}
<1>1. ASSUME NEW x \in Nat, NEW p \in 0 .. n - 1
      PROVE  \E c \in Nat : c = Before(x, n, p) /\ \A j \in Nat : j * n + p < x <=> j < c
  BY BeforeIs
<1>2. PICK la \in Nat : la = Before(lo, n, a) /\ \A j \in Nat : j * n + a < lo <=> j < la
  BY <1>1
<1>3. PICK lb \in Nat : lb = Before(lo, n, b) /\ \A j \in Nat : j * n + b < lo <=> j < lb
  BY <1>1
<1>4. PICK ha \in Nat : ha = Before(hi, n, a) /\ \A j \in Nat : j * n + a < hi <=> j < ha
  BY <1>1
<1>5. PICK hb \in Nat : hb = Before(hi, n, b) /\ \A j \in Nat : j * n + b < hi <=> j < hb
  BY <1>1
<1>6. la <= ha
  <2>1. ha * n + a \in Nat /\ ~(ha * n + a < hi)
    BY <1>4
  <2> QED
    BY <1>2, <2>1
<1>7. ASSUME NEW x \in Nat, NEW p \in 0 .. n - 1, NEW q \in 0 .. n - 1, p <= q,
             NEW xp \in Nat, \A j \in Nat : j * n + p < x <=> j < xp,
             NEW xq \in Nat, \A j \in Nat : j * n + q < x <=> j < xq
      PROVE  xq <= xp /\ xp <= xq + 1
  <2>1. xp * n + q \in Nat /\ ~(xp * n + p < x) /\ xp * n + p <= xp * n + q
    BY <1>7
  <2>2. ~(xp * n + q < x)
    BY <2>1
  <2>3. PICK z \in Nat : z = xq * n
    OBVIOUS
  <2>4. (xq + 1) * n + p = z + n + p /\ xq + 1 \in Nat
    BY <2>3
  <2>5. ~(z + q < x)
    BY <1>7, <2>3
  <2>6. ~((xq + 1) * n + p < x)
    BY <2>4, <2>5
  <2>7. ~(xq + 1 < xp)
    BY <1>7, <2>4, <2>6
  <2> QED
    BY <1>7, <2>2, <2>7
<1>8. CASE a <= b
  <2>1. lb <= la /\ la <= lb + 1
    BY <1>2, <1>3, <1>7, <1>8
  <2>2. hb <= ha /\ ha <= hb + 1
    BY <1>4, <1>5, <1>7, <1>8
  <2> QED
    BY <1>2, <1>3, <1>4, <1>5, <1>6, <2>1, <2>2 DEF Gap
<1>9. CASE b <= a
  <2>1. la <= lb /\ lb <= la + 1
    BY <1>2, <1>3, <1>7, <1>9
  <2>2. ha <= hb /\ hb <= ha + 1
    BY <1>4, <1>5, <1>7, <1>9
  <2> QED
    BY <1>2, <1>3, <1>4, <1>5, <1>6, <2>1, <2>2 DEF Gap
<1> QED
  BY <1>8, <1>9

\* The numbers with one residue and a quotient in Q, and these quotients.
Numbers(lo, hi, n, a, Q) == {k \in lo .. hi - 1 : k % n = a /\ k \div n \in Q}
Quotients(lo, hi, n, a, Q) == {j \in Before(lo, n, a) .. Before(hi, n, a) - 1 : j \in Q}

LEMMA Spread ==
  ASSUME NEW n \in Nat \ {0}, NEW a \in 0 .. n - 1, NEW lo \in Nat, NEW hi \in Nat, lo <= hi,
         NEW Q \in SUBSET Nat
  PROVE  Cardinality(Numbers(lo, hi, n, a, Q)) = Cardinality(Quotients(lo, hi, n, a, Q))
<1>k. PICK K : K = Numbers(lo, hi, n, a, Q) /\ K = {k \in lo .. hi - 1 : k % n = a /\ k \div n \in Q}
  BY DEF Numbers
<1>j. PICK J : /\ J = Quotients(lo, hi, n, a, Q)
               /\ J = {j \in Before(lo, n, a) .. Before(hi, n, a) - 1 : j \in Q}
  BY DEF Quotients
<1>1. PICK l \in Nat : l = Before(lo, n, a) /\ \A j \in Nat : j * n + a < lo <=> j < l
  BY BeforeIs
<1>2. PICK h \in Nat : h = Before(hi, n, a) /\ \A j \in Nat : j * n + a < hi <=> j < h
  BY BeforeIs
<1>3. J = {j \in l .. h - 1 : j \in Q}
  BY <1>1, <1>2, <1>j
<1>4. IsFiniteSet(J)
  <2>1. IsFiniteSet(l .. h - 1) /\ J \in SUBSET (l .. h - 1)
    BY <1>3, FS_Interval
  <2> QED
    BY <2>1, FS_Subset
<1> DEFINE f == [j \in J |-> j * n + a]
<1>5. ASSUME NEW j \in J
      PROVE  /\ j \in Nat /\ j * n + a \in K
             /\ (j * n + a) \div n = j
  <2>1. j \in Nat /\ j \in Q /\ ~(j < l) /\ j < h
    BY <1>3
  <2>2. j * n + a \in Nat /\ (j * n + a) \div n = j /\ (j * n + a) % n = a
    BY <2>1, QuotientUnique
  <2>3. ~(j * n + a < lo) /\ j * n + a < hi
    BY <1>1, <1>2, <2>1
  <2> QED
    BY <1>k, <2>1, <2>2, <2>3
<1>6. ASSUME NEW k \in K
      PROVE  \E j \in J : f[j] = k
  <2>1. k \in Nat /\ k % n = a /\ k \div n \in Q /\ ~(k < lo) /\ k < hi
    BY <1>k
  <2>2. PICK q \in Nat : q = k \div n /\ k = q * n + a
    BY <2>1, Quotient
  <2>3. ~(q < l) /\ q < h
    BY <1>1, <1>2, <2>1, <2>2
  <2>4. q \in J
    BY <1>3, <2>1, <2>2, <2>3
  <2> QED
    BY <2>2, <2>4
<1>7. f \in [J -> K] /\ \A j \in J : f[j] = j * n + a
  BY <1>5
<1>8. ASSUME NEW i \in J, NEW j \in J, f[i] = f[j]
      PROVE  i = j
  <2>1. i * n + a = j * n + a
    BY <1>7, <1>8
  <2> QED
    BY <1>5, <2>1
<1> HIDE DEF f
<1>9. f \in Bijection(J, K)
  BY <1>6, <1>7, <1>8 DEF Bijection, Injection, IsInjective, Surjection
<1> QED
  BY <1>j, <1>k, <1>4, <1>9, FS_Bijection DEF ExistsBijection

\* How often it is the turn of one.
LEMMA TurnsOfOne ==
  ASSUME NEW n \in Nat \ {0}, NEW a \in 0 .. n - 1, NEW lo \in Nat, NEW hi \in Nat, lo <= hi,
         NEW K, K = {k \in lo .. hi - 1 : k % n = a}
  PROVE  Cardinality(K) = Gap(lo, hi, n, a)
<1>1. PICK l \in Nat, h \in Nat : l = Before(lo, n, a) /\ h = Before(hi, n, a) /\ l <= h
  BY BeforeIs, GapsClose
<1>2. K = Numbers(lo, hi, n, a, Nat)
  <2>1. \A k \in lo .. hi - 1 : k \div n \in Nat
    BY Quotient
  <2> QED
    BY <2>1 DEF Numbers
<1>3. PICK J : J = l .. h - 1 /\ J = Quotients(lo, hi, n, a, Nat)
  BY <1>1 DEF Quotients
<1>4. Cardinality(K) = Cardinality(J)
  <2>1. Cardinality(Numbers(lo, hi, n, a, Nat)) = Cardinality(Quotients(lo, hi, n, a, Nat))
    <3>1. Nat \in SUBSET Nat
      OBVIOUS
    <3>2. PICK Q \in SUBSET Nat : Q = Nat
      BY <3>1
    <3>3. Cardinality(Numbers(lo, hi, n, a, Q)) = Cardinality(Quotients(lo, hi, n, a, Q))
      BY Spread
    <3> QED
      BY <3>2, <3>3, Zenon
  <2> QED
    BY <1>2, <1>3, <2>1, Zenon
<1>5. Cardinality(J) = h - l
  <2>1. PICK e \in Int : e = h - 1
    OBVIOUS
  <2>2. Cardinality(l .. e) = IF l > e THEN 0 ELSE e - l + 1
    BY <2>1, FS_Interval
  <2> QED
    BY <1>1, <1>3, <2>1, <2>2
<1> QED
  BY <1>1, <1>4, <1>5 DEF Gap

\* Turns of a task, and within them turns of one of its records.
LEMMA TurnsWithin ==
  ASSUME NEW n \in Nat \ {0}, NEW a \in 0 .. n - 1, NEW lo \in Nat, NEW hi \in Nat, lo <= hi,
         NEW m \in Nat \ {0}, NEW b \in 0 .. m - 1,
         NEW K, K = {k \in lo .. hi - 1 : k % n = a /\ (k \div n) % m = b}
  PROVE  Cardinality(K) = Gap(Before(lo, n, a), Before(hi, n, a), m, b)
<1>1. PICK l \in Nat, h \in Nat : l = Before(lo, n, a) /\ h = Before(hi, n, a) /\ l <= h
  BY BeforeIs, GapsClose
<1>2. PICK Q : Q = {j \in Nat : j % m = b}
  OBVIOUS
<1>3. PICK J : J = {j \in l .. h - 1 : j % m = b}
  OBVIOUS
<1>4. K = Numbers(lo, hi, n, a, Q)
  <2>1. \A k \in lo .. hi - 1 : k \div n \in Nat
    BY Quotient
  <2> QED
    BY <1>2, <2>1 DEF Numbers
<1>5. J = Quotients(lo, hi, n, a, Q)
  BY <1>1, <1>2, <1>3 DEF Quotients
<1>6. Cardinality(K) = Cardinality(J)
  <2>1. PICK R \in SUBSET Nat : R = Q
    BY <1>2
  <2>2. Cardinality(Numbers(lo, hi, n, a, R)) = Cardinality(Quotients(lo, hi, n, a, R))
    BY Spread
  <2> QED
    BY <1>4, <1>5, <2>1, <2>2, Zenon
<1>7. Cardinality(J) = Gap(l, h, m, b)
  BY <1>1, <1>3, TurnsOfOne
<1> QED
  BY <1>1, <1>6, <1>7

\* The same counted from where a call starts.
Ahead(x, c, P)  == {k \in x .. x + c - 1 : k \in P}
From(d, x, c, P) == {k \in d .. c - 1 + d : x + k - d \in P}

LEMMA Shifted ==
  ASSUME NEW x \in Nat, NEW c \in Nat, NEW d \in {0, 1}, NEW P
  PROVE  Cardinality(From(d, x, c, P)) = Cardinality(Ahead(x, c, P))
<1>s. PICK S : S = From(d, x, c, P) /\ S = {k \in d .. c - 1 + d : x + k - d \in P}
  BY DEF From
<1>t. PICK T : T = Ahead(x, c, P) /\ T = {k \in x .. x + c - 1 : k \in P}
  BY DEF Ahead
<1>1. IsFiniteSet(S)
  <2>1. d \in Int /\ c - 1 + d \in Int /\ S \in SUBSET (d .. c - 1 + d)
    BY <1>s
  <2> QED
    BY <2>1, FS_Interval, FS_Subset
<1> DEFINE f == [k \in S |-> x + k - d]
<1>2. \A k \in S : f[k] \in T /\ k \in Int /\ f[k] = x + k - d
  BY <1>s, <1>t
<1>3. ASSUME NEW t \in T
      PROVE  \E k \in S : f[k] = t
  <2>1. t - x + d \in S /\ x + (t - x + d) - d = t
    BY <1>s, <1>t
  <2> QED
    BY <2>1
<1>4. f \in [S -> T] /\ \A i, j \in S : f[i] = f[j] => i = j
  BY <1>2
<1> HIDE DEF f
<1>5. f \in Bijection(S, T)
  BY <1>3, <1>4 DEF Bijection, Injection, IsInjective, Surjection
<1> QED
  BY <1>s, <1>t, <1>1, <1>5, FS_Bijection DEF ExistsBijection

\* One token for each turn of each of some.
TurnTokens(D, R) == UNION {{r} \X (1 .. D[r]) : r \in R}

\* q lists R, each member once.
Lists(q, m, R) ==
  /\ q \in [1 .. m -> R] /\ \A r \in R : \E i \in 1 .. m : q[i] = r
  /\ \A i, j \in 1 .. m : q[i] = q[j] => i = j
TurnsListed(D, q, lo, hi, m) == \A i \in 1 .. m : D[q[i]] = Gap(lo, hi, m, i - 1)

\* All turns of the m of a round together are the turns there were.
LEMMA TurnsAddUp ==
  ASSUME NEW m \in Nat \ {0}, NEW lo \in Nat, NEW hi \in Nat, lo <= hi,
         NEW R, NEW q, Lists(q, m, R), NEW D, TurnsListed(D, q, lo, hi, m)
  PROVE  Cardinality(TurnTokens(D, R)) = hi - lo
<1>0. /\ q \in [1 .. m -> R] /\ \A r \in R : \E i \in 1 .. m : q[i] = r
      /\ \A i, j \in 1 .. m : q[i] = q[j] => i = j
      /\ \A i \in 1 .. m : D[q[i]] = Gap(lo, hi, m, i - 1)
  BY DEF Lists, TurnsListed
<1>1. PICK T : T = TurnTokens(D, R)
  OBVIOUS
<1>t. \A x : x \in T <=> \E r \in R : x \in {r} \X (1 .. D[r])
  BY <1>1 DEF TurnTokens
<1>l. PICK L \in [0 .. m - 1 -> Nat] : \A b \in 0 .. m - 1 :
        /\ L[b] = Before(lo, m, b) /\ \A j \in Nat : j * m + b < lo <=> j < L[b]
  <2>1. [b \in 0 .. m - 1 |-> Before(lo, m, b)] \in [0 .. m - 1 -> Nat]
    BY BeforeIs
  <2>2. PICK L \in [0 .. m - 1 -> Nat] : \A b \in 0 .. m - 1 : L[b] = Before(lo, m, b)
    BY <2>1
  <2>3. ASSUME NEW b \in 0 .. m - 1
        PROVE  \A j \in Nat : j * m + b < lo <=> j < L[b]
    <3>1. \A j \in Nat : j * m + b < lo <=> j < Before(lo, m, b)
      BY BeforeIs
    <3>2. L[b] = Before(lo, m, b)
      BY <2>2
    <3> QED
      BY ONLY <3>1, <3>2
  <2> QED
    BY <2>2, <2>3
<1>h. PICK H \in [0 .. m - 1 -> Nat] : \A b \in 0 .. m - 1 :
        /\ H[b] = Before(hi, m, b) /\ \A j \in Nat : j * m + b < hi <=> j < H[b]
  <2>1. [b \in 0 .. m - 1 |-> Before(hi, m, b)] \in [0 .. m - 1 -> Nat]
    BY BeforeIs
  <2>2. PICK H \in [0 .. m - 1 -> Nat] : \A b \in 0 .. m - 1 : H[b] = Before(hi, m, b)
    BY <2>1
  <2>3. ASSUME NEW b \in 0 .. m - 1
        PROVE  \A j \in Nat : j * m + b < hi <=> j < H[b]
    <3>1. \A j \in Nat : j * m + b < hi <=> j < Before(hi, m, b)
      BY BeforeIs
    <3>2. H[b] = Before(hi, m, b)
      BY <2>2
    <3> QED
      BY ONLY <3>1, <3>2
  <2> QED
    BY <2>2, <2>3
<1>q. ASSUME NEW b \in 0 .. m - 1
      PROVE  b + 1 \in 1 .. m /\ q[b + 1] \in R /\ D[q[b + 1]] = H[b] - L[b]
  <2>1. b + 1 \in 1 .. m /\ (b + 1) - 1 = b
    OBVIOUS
  <2>2. D[q[b + 1]] = Gap(lo, hi, m, b)
    <3>1. D[q[b + 1]] = Gap(lo, hi, m, (b + 1) - 1)
      BY <1>0, <2>1
    <3> QED
      BY <2>1, <3>1
  <2>3. Gap(lo, hi, m, b) = H[b] - L[b]
    BY <1>l, <1>h DEF Gap
  <2> QED
    BY <1>0, <2>1, <2>2, <2>3
<1> DEFINE f == [j \in lo .. hi - 1 |-> <<q[(j % m) + 1], (j \div m) - L[j % m] + 1>>]
<1>3. ASSUME NEW j \in lo .. hi - 1
      PROVE  \E b \in 0 .. m - 1 : \E i \in Nat :
               /\ j = i * m + b
               /\ f[j] = <<q[b + 1], i - L[b] + 1>>
               /\ i - L[b] + 1 \in 1 .. H[b] - L[b]
  <2>0. j \in Nat
    OBVIOUS
  <2>1. PICK b \in 0 .. m - 1 : b = j % m
    BY <2>0, Quotient
  <2>2. PICK i \in Nat : i = j \div m
    BY <2>0, Quotient
  <2>3. j = i * m + b
    BY <2>0, <2>1, <2>2, Quotient
  <2>4. f[j] = <<q[b + 1], i - L[b] + 1>>
    BY <2>1, <2>2
  <2>5. ~(i * m + b < lo) /\ i * m + b < hi
    BY <2>3
  <2> HIDE DEF f
  <2>6. ~(i < L[b]) /\ i < H[b]
    BY <1>l, <1>h, <2>5
  <2>7. PICK l \in Nat, h \in Nat : l = L[b] /\ h = H[b]
    OBVIOUS
  <2>8. i - L[b] + 1 \in 1 .. H[b] - L[b]
    BY <2>6, <2>7
  <2> QED
    BY <2>1, <2>2, <2>3, <2>4, <2>8
<1>4. /\ DOMAIN f = lo .. hi - 1 /\ f = [j \in lo .. hi - 1 |-> f[j]]
      /\ \A j \in lo .. hi - 1 : f[j] = <<q[(j % m) + 1], (j \div m) - L[j % m] + 1>>
  OBVIOUS
<1> HIDE DEF f
<1>5. ASSUME NEW b \in 0 .. m - 1, NEW x \in 1 .. H[b] - L[b]
      PROVE  \E j \in lo .. hi - 1 : f[j] = <<q[b + 1], x>>
  <2>0. PICK l \in Nat, h \in Nat : l = L[b] /\ h = H[b]
    OBVIOUS
  <2>x. x \in 1 .. h - l
    BY <2>0
  <2>1. PICK i \in Nat : i = l + x - 1 /\ i - l + 1 = x /\ ~(i < l) /\ i < h
    <3>1. l + x - 1 \in Nat /\ (l + x - 1) - l + 1 = x /\ ~(l + x - 1 < l) /\ l + x - 1 < h
      BY ONLY <2>x, l \in Nat, h \in Nat
    <3> QED
      BY ONLY <3>1
  <2>2. PICK j \in Nat : j = i * m + b /\ j \div m = i /\ j % m = b
    BY QuotientUnique
  <2>3. ~(i < l) /\ i < h
    BY ONLY <2>1
  <2>4. ~(j < lo) /\ j < hi
    BY <1>l, <1>h, <2>0, <2>2, <2>3
  <2>5. j \in lo .. hi - 1
    BY <2>4
  <2>6. f[j] = <<q[b + 1], i - L[b] + 1>>
    BY <1>4, <2>2, <2>5
  <2> QED
    BY <2>0, <2>1, <2>5, <2>6
<1>6. f \in [lo .. hi - 1 -> T]
  <2>1. ASSUME NEW j \in lo .. hi - 1
        PROVE  f[j] \in T
    <3>1. PICK b \in 0 .. m - 1 : \E i \in Nat :
            f[j] = <<q[b + 1], i - L[b] + 1>> /\ i - L[b] + 1 \in 1 .. H[b] - L[b]
      BY <1>3, Zenon
    <3>2. PICK x : f[j] = <<q[b + 1], x>> /\ x \in 1 .. H[b] - L[b]
      BY <3>1, Zenon
    <3>3. PICK r \in R : r = q[b + 1] /\ D[r] = H[b] - L[b]
      BY <1>q, Zenon
    <3>4. x \in 1 .. D[r] /\ f[j] = <<r, x>>
      BY ONLY <3>2, <3>3, Zenon
    <3>5. f[j] \in {r} \X (1 .. D[r])
      BY ONLY <3>4
    <3> QED
      BY <1>t, <3>5, Zenon
  <2> QED
    BY <1>4, <2>1
<1>7. ASSUME NEW j \in lo .. hi - 1, NEW k \in lo .. hi - 1, f[j] = f[k]
      PROVE  j = k
  <2>1. PICK b \in 0 .. m - 1 : \E i \in Nat :
               /\ j = i * m + b
               /\ f[j] = <<q[b + 1], i - L[b] + 1>>
               /\ i - L[b] + 1 \in 1 .. H[b] - L[b]
    BY <1>3, Zenon
  <2>2. PICK i \in Nat : j = i * m + b /\ f[j] = <<q[b + 1], i - L[b] + 1>>
    BY <2>1
  <2>3. PICK c \in 0 .. m - 1 : \E e \in Nat :
               /\ k = e * m + c
               /\ f[k] = <<q[c + 1], e - L[c] + 1>>
               /\ e - L[c] + 1 \in 1 .. H[c] - L[c]
    BY <1>3, Zenon
  <2>4. PICK e \in Nat : k = e * m + c /\ f[k] = <<q[c + 1], e - L[c] + 1>>
    BY <2>3
  <2>5. q[b + 1] = q[c + 1] /\ i - L[b] + 1 = e - L[c] + 1
    BY <1>7, <2>2, <2>4
  <2>6. b = c
    <3>1. b + 1 = c + 1
      BY <1>0, <1>q, <2>5
    <3> QED
      BY <3>1
  <2>7. PICK l \in Nat : l = L[b]
    OBVIOUS
  <2>8. i = e
    BY <2>5, <2>6, <2>7
  <2> QED
    BY <2>2, <2>4, <2>6, <2>8
<1>8. ASSUME NEW t \in T
      PROVE  \E j \in lo .. hi - 1 : f[j] = t
  <2>1. PICK r \in R : t \in {r} \X (1 .. D[r])
    BY <1>t
  <2>2. PICK i \in 1 .. m : q[i] = r
    BY <1>0
  <2>3. PICK b \in 0 .. m - 1 : i = b + 1
    <3>1. i - 1 \in 0 .. m - 1 /\ i = (i - 1) + 1
      OBVIOUS
    <3> QED
      BY <3>1
  <2>4. PICK x \in 1 .. H[b] - L[b] : t = <<q[b + 1], x>>
    <3>1. r = q[b + 1] /\ D[r] = H[b] - L[b]
      BY <1>q, <2>2, <2>3
    <3>2. t \in {r} \X (1 .. H[b] - L[b])
      BY ONLY <2>1, <3>1, Zenon
    <3>3. \E x \in 1 .. H[b] - L[b] : t = <<r, x>>
      BY ONLY <3>2
    <3> QED
      BY ONLY <3>1, <3>3, Zenon
  <2> QED
    BY <1>5, <2>4
<1>9. f \in Bijection(lo .. hi - 1, T)
  BY <1>6, <1>7, <1>8 DEF Bijection, Injection, IsInjective, Surjection
<1>10. IsFiniteSet(lo .. hi - 1) /\ Cardinality(lo .. hi - 1) = hi - lo
  <2>1. PICK e \in Int : e = hi - 1
    OBVIOUS
  <2>2. lo \in Int /\ e \in Int
    BY <2>1
  <2>3. IsFiniteSet(lo .. e) /\ Cardinality(lo .. e) = IF lo > e THEN 0 ELSE e - lo + 1
    BY ONLY <2>2, FS_Interval
  <2> QED
    BY <2>1, <2>3
<1> QED
  BY <1>1, <1>9, <1>10, FS_Bijection DEF ExistsBijection

\* Number i is a turn of the (b + 1)-st of m, in a turn of the (a + 1)-st of n.
TurnOf(i, n, a, m, b) == i % n = a /\ (i \div n) % m = b

\* q are the m records of the (a + 1)-st of the n tasks.
TaskInTurn(failed, tasks, n, a, q, m) ==
  /\ tasks = EligibleTasks(failed) /\ n = Len(tasks)
  /\ q = EligibleOf(tasks[a + 1], failed) /\ m = Len(q)

\* Which start it is the turn of, by the place of its task among the tasks and of
\* the record among those of its task.
LEMMA StartWhen ==
  ASSUME Stored, NEW failed, Eligible(failed) # {},
         NEW n \in Nat \ {0}, NEW a \in 0 .. n - 1, NEW m \in Nat \ {0}, NEW b \in 0 .. m - 1,
         NEW tasks, NEW q, TaskInTurn(failed, tasks, n, a, q, m), NEW i \in Nat
  PROVE  StartAt(i, failed).id = q[b + 1].id <=> TurnOf(i, n, a, m, b)
<1>h. /\ tasks = EligibleTasks(failed) /\ n = Len(tasks)
      /\ q = EligibleOf(tasks[a + 1], failed) /\ m = Len(q)
  BY DEF TaskInTurn
<1>0. TasksInTurn(tasks, n, failed) /\ StartAt(i, failed) = RecordInTurn(tasks, n, failed, i)
  BY <1>h, StartIs
<1>1. PICK c \in 0 .. n - 1 : c = i % n
  BY Quotient
<1>2. PICK d \in Nat : d = i \div n
  BY Quotient
<1>3. PICK t \in Tasks, u \in Tasks : t = tasks[a + 1] /\ u = tasks[c + 1] /\ (t = u => a = c)
  <2>1. a + 1 \in 1 .. n /\ c + 1 \in 1 .. n /\ (a + 1 = c + 1 => a = c)
    OBVIOUS
  <2> QED
    BY <1>0, <2>1 DEF TasksInTurn
<1>4. PICK p : p = EligibleOf(u, failed)
  OBVIOUS
<1>5. /\ q \in Seq(Rec) /\ \A r : r \in ToSet(q) => r \in ToSet(stored[t])
      /\ \A j, k \in DOMAIN q : j < k => q[j].id < q[k].id
  BY <1>h, <1>3, EligibleAre
<1>6. /\ p \in Seq(Rec) /\ \A r : r \in ToSet(p) => r \in ToSet(stored[u])
  BY <1>4, EligibleAre
<1>7. p # <<>>
  <2>1. c + 1 \in 1 .. n
    OBVIOUS
  <2> QED
    BY <1>0, <1>3, <1>4, <2>1 DEF TasksInTurn
<1>8. PICK l \in Nat \ {0} : l = Len(p)
  BY <1>6, <1>7
<1>9. PICK e \in 0 .. l - 1 : e = d % l
  BY Quotient
<1>10. StartAt(i, failed) = p[e + 1]
  BY <1>0, <1>1, <1>2, <1>3, <1>4, <1>8, <1>9 DEF RecordInTurn
<1>11. b + 1 \in 1 .. m /\ e + 1 \in 1 .. l
  OBVIOUS
<1>12. q[b + 1] \in ToSet(stored[t]) /\ p[e + 1] \in ToSet(stored[u])
  BY <1>h, <1>5, <1>6, <1>8, <1>11, Members
<1>13. ASSUME p[e + 1].id = q[b + 1].id
       PROVE  c = a /\ d % m = b
  <2>1. t = u
    BY <1>12, <1>13 DEF Stored, Sound
  <2>2. p = q /\ l = m /\ a = c
    BY <1>h, <1>3, <1>4, <1>8, <2>1
  <2>3. ~(b + 1 < e + 1) /\ ~(e + 1 < b + 1)
    <3>1. b + 1 \in DOMAIN q /\ e + 1 \in DOMAIN q
      BY <1>h, <1>5, <1>11, <2>2
    <3>2. q[b + 1].id \in Nat /\ q[e + 1].id \in Nat
      <4>1. q[b + 1] \in Rec /\ q[e + 1] \in Rec
        BY <1>5, <3>1
      <4>2. \A r \in Rec : r.id \in Nat
        BY DEF Rec
      <4> QED
        BY <4>1, <4>2
    <3>3. q[b + 1].id = q[e + 1].id
      BY <1>13, <2>2
    <3> QED
      BY <1>5, <3>1, <3>2, <3>3
  <2>4. b = e
    BY <2>3
  <2> QED
    BY <1>9, <2>2, <2>4
<1>14. ASSUME c = a, d % m = b
       PROVE  p[e + 1].id = q[b + 1].id
  <2>1. p = q /\ l = m
    BY <1>h, <1>3, <1>4, <1>8, <1>14
  <2> QED
    BY <1>9, <1>14, <2>1
<1> QED
  BY <1>1, <1>2, <1>10, <1>13, <1>14 DEF TurnOf

\* How often a record started an episode since the records changed.
DrawnOf(r) == IF r.id \in DOMAIN drawn THEN drawn[r.id] ELSE 0

\* The draws since the records changed are the turns since some cursor.
StartsSince(lo) ==
  LET tasks == EligibleTasks(recipe.failed)
      n     == Len(tasks)
  IN \A a \in 0 .. n - 1 :
       LET q == EligibleOf(tasks[a + 1], recipe.failed)
       IN \A b \in 0 .. Len(q) - 1 :
            DrawnOf(q[b + 1]) = Gap(Before(lo, n, a), Before(startCursor, n, a), Len(q), b)

TasksThere == InOrder({r.task : r \in Records(stored)})
PicksSince(lo) ==
  \A a \in 0 .. Len(TasksThere) - 1 :
    picked[TasksThere[a + 1]] = Gap(lo, taskCursor, Len(TasksThere), a)

Balanced == ~recipe.mixed /\ recipe.limit = NoLimit

DrawnInv ==
  /\ Eligible(recipe.failed) # {} => \E lo \in 0 .. startCursor : StartsSince(lo)
  /\ Balanced /\ Records(stored) # {} => \E lo \in 0 .. taskCursor : PicksSince(lo)

\* The tasks that have records.
LEMMA TasksThereAre ==
  ASSUME Stored, Records(stored) # {}, NEW tasks, tasks = TasksThere
  PROVE  /\ Len(tasks) \in Nat \ {0} /\ tasks \in [1 .. Len(tasks) -> Tasks]
         /\ \A r \in Records(stored) : \E k \in 1 .. Len(tasks) : tasks[k] = r.task
         /\ \A j, k \in 1 .. Len(tasks) : tasks[j] = tasks[k] => j = k
<1>1. PICK S : S = {r.task : r \in Records(stored)}
  OBVIOUS
<1>2. \A r \in Records(stored) : r.task \in Tasks
  BY StoredRecords DEF Rec
<1>3. S \in SUBSET Tasks /\ Tasks = 1 .. NumTasks /\ NumTasks \in Nat /\ S # {}
  BY <1>1, <1>2, Sizes DEF Tasks
<1>4. S \in SUBSET Nat /\ IsFiniteSet(S)
  <2>1. IsFiniteSet(1 .. NumTasks)
    BY <1>3, FS_Interval
  <2>2. S \in SUBSET (1 .. NumTasks) /\ S \in SUBSET Nat
    BY ONLY <1>3
  <2> QED
    BY ONLY <2>1, <2>2, FS_Subset
<1>5. tasks = InOrder(S)
  BY <1>1 DEF TasksThere
<1>6. PICK n \in Nat : n = Cardinality(S)
  BY <1>4, FS_CardinalityType
<1>7. n # 0
  BY <1>3, <1>4, <1>6, FS_EmptySet
<1>8. /\ tasks \in [1 .. n -> S] /\ Len(tasks) = n
      /\ \A i, j \in 1 .. n : i < j => tasks[i] < tasks[j]
      /\ \A x \in S : \E k \in 1 .. n : tasks[k] = x
  BY <1>4, <1>5, <1>6, Ordered
<1>9. ASSUME NEW j \in 1 .. n, NEW k \in 1 .. n, tasks[j] = tasks[k]
      PROVE  j = k
  <2>0. tasks[j] \in Nat
    BY <1>4, <1>8
  <2>1. ~(tasks[j] < tasks[k]) /\ ~(tasks[k] < tasks[j])
    BY <1>9, <2>0
  <2> QED
    BY <1>8, <2>1
<1>10. tasks \in [1 .. n -> Tasks] /\ \A r \in Records(stored) : r.task \in S
  BY <1>1, <1>3, <1>8
<1> QED
  BY <1>7, <1>8, <1>9, <1>10

\* The turns among the next c.
TurnsAhead(x, c, n, a, m, b) == {k \in 0 .. c - 1 : TurnOf(x + k, n, a, m, b)}

LEMMA NextTurns ==
  ASSUME NEW n \in Nat \ {0}, NEW a \in 0 .. n - 1, NEW x \in Nat, NEW c \in Nat,
         NEW m \in Nat \ {0}, NEW b \in 0 .. m - 1
  PROVE  Cardinality(TurnsAhead(x, c, n, a, m, b))
           = Gap(Before(x, n, a), Before(x + c, n, a), m, b)
<1>s. PICK S : /\ S = TurnsAhead(x, c, n, a, m, b)
               /\ S = {k \in 0 .. c - 1 : (x + k) % n = a /\ ((x + k) \div n) % m = b}
  BY DEF TurnsAhead, TurnOf
<1>1. PICK P : P = {i \in Nat : i % n = a /\ (i \div n) % m = b}
  OBVIOUS
<1>2. PICK T : T = {k \in x .. x + c - 1 : k \in P}
  OBVIOUS
<1>3. PICK d \in {0, 1} : d = 0
  OBVIOUS
<1>4. S = From(d, x, c, P)
  <2>1. 0 .. c - 1 = d .. c - 1 + d
    BY <1>3
  <2>2. ASSUME NEW k \in 0 .. c - 1
        PROVE  x + k - d \in P <=> (x + k) % n = a /\ ((x + k) \div n) % m = b
    <3>1. PICK y \in Nat : y = x + k /\ y = x + k - d
      BY <1>3
    <3>2. y \in P <=> y % n = a /\ (y \div n) % m = b
      BY <1>1
    <3> QED
      BY ONLY <3>1, <3>2
  <2> QED
    BY ONLY <1>s, <2>1, <2>2 DEF From
<1>5. Cardinality(S) = Cardinality(T)
  <2>1. Cardinality(From(d, x, c, P)) = Cardinality(Ahead(x, c, P))
    BY Shifted
  <2>2. T = Ahead(x, c, P)
    BY <1>2 DEF Ahead
  <2> QED
    BY ONLY <1>4, <2>1, <2>2
<1>6. PICK y \in Nat : y = x + c /\ x <= y
  OBVIOUS
<1>7. T = {k \in x .. y - 1 : k % n = a /\ (k \div n) % m = b}
  BY <1>1, <1>2, <1>6
<1>8. Cardinality(T) = Gap(Before(x, n, a), Before(y, n, a), m, b)
  BY <1>6, <1>7, TurnsWithin
<1> QED
  BY <1>s, <1>5, <1>6, <1>8

LEMMA NextPicks ==
  ASSUME NEW n \in Nat \ {0}, NEW a \in 0 .. n - 1, NEW x \in Nat, NEW c \in Nat,
         NEW S, S = {k \in 1 .. c : (x + k - 1) % n = a}
  PROVE  Cardinality(S) = Gap(x, x + c, n, a)
<1>1. PICK P : P = {i \in Nat : i % n = a}
  OBVIOUS
<1>2. PICK T : T = {k \in x .. x + c - 1 : k \in P}
  OBVIOUS
<1>3. PICK d \in {0, 1} : d = 1
  OBVIOUS
<1>4. S = From(d, x, c, P)
  <2>1. 1 .. c = d .. c - 1 + d
    BY <1>3
  <2>2. ASSUME NEW k \in 1 .. c
        PROVE  x + k - d \in P <=> (x + k - 1) % n = a
    <3>1. PICK y \in Nat : y = x + k - 1 /\ y = x + k - d
      BY <1>3
    <3>2. y \in P <=> y % n = a
      BY <1>1
    <3> QED
      BY ONLY <3>1, <3>2
  <2> QED
    BY ONLY <2>1, <2>2, S = {k \in 1 .. c : (x + k - 1) % n = a} DEF From
<1>5. Cardinality(S) = Cardinality(T)
  <2>1. Cardinality(From(d, x, c, P)) = Cardinality(Ahead(x, c, P))
    BY Shifted
  <2>2. T = Ahead(x, c, P)
    BY <1>2 DEF Ahead
  <2> QED
    BY ONLY <1>4, <2>1, <2>2
<1>6. PICK y \in Nat : y = x + c /\ x <= y
  OBVIOUS
<1>7. T = {k \in x .. y - 1 : k % n = a}
  BY <1>1, <1>2, <1>6
<1>8. Cardinality(T) = Gap(x, y, n, a)
  BY <1>6, <1>7, TurnsOfOne
<1> QED
  BY <1>5, <1>6, <1>8

LEMMA GapsAdd ==
  ASSUME NEW n \in Nat \ {0}, NEW a \in 0 .. n - 1, NEW x \in Nat, NEW y \in Nat, NEW z \in Nat
  PROVE  /\ Gap(x, y, n, a) + Gap(y, z, n, a) = Gap(x, z, n, a)
         /\ Gap(x, x, n, a) = 0
BY BeforeIs DEF Gap

\* Drawing starts goes on with the turns.
LEMMA StartsDrawn ==
  ASSUME Stored, startCursor \in Nat, Eligible(recipe.failed) # {},
         NEW lo \in 0 .. startCursor, StartsSince(lo), NEW count \in Nat,
         DrawStarts(count, recipe.failed), UNCHANGED recipe
  PROVE  StartsSince(lo)' /\ lo \in 0 .. startCursor'
<1>0. PICK failed : failed = recipe.failed
  OBVIOUS
<1>1. PICK x \in Nat, y \in Nat : x = startCursor /\ y = startCursor' /\ y = x + count /\ x <= y
                                  /\ lo \in Nat /\ lo <= x
  BY DEF DrawStarts
<1>2. stored' = stored /\ recipe' = recipe
  BY DEF DrawStarts, contents
<1>3. /\ \A t, f : EligibleOf(t, f)' = EligibleOf(t, f)
      /\ \A f : EligibleTasks(f)' = EligibleTasks(f)
  BY <1>2 DEF EligibleTasks, EligibleOf
<1>4. PICK tasks : \E n \in Nat \ {0} : /\ tasks = EligibleTasks(failed) /\ Len(tasks) = n
                                        /\ TasksInTurn(tasks, n, failed)
  BY <1>0, StartIs
<1>n. PICK n \in Nat \ {0} : /\ tasks = EligibleTasks(failed) /\ Len(tasks) = n
                             /\ TasksInTurn(tasks, n, failed)
  BY <1>4
<1>5. ASSUME NEW a \in 0 .. n - 1, NEW q, q = EligibleOf(tasks[a + 1], failed),
             NEW b \in 0 .. Len(q) - 1
      PROVE  DrawnOf(q[b + 1])' = Gap(Before(lo, n, a), Before(y, n, a), Len(q), b)
  <2>1. PICK t \in Tasks : t = tasks[a + 1] /\ q # <<>>
    <3>1. a + 1 \in 1 .. n
      OBVIOUS
    <3> QED
      BY <1>n, <1>5, <3>1 DEF TasksInTurn
  <2>2. q \in Seq(Rec) /\ \A r \in ToSet(q) : r \in ToSet(stored[t])
    BY <1>5, <2>1, EligibleAre
  <2>3. PICK m \in Nat \ {0} : m = Len(q)
    BY <2>1, <2>2
  <2>4. PICK r : r = q[b + 1]
    OBVIOUS
  <2>5. r \in Records(stored)
    <3>1. b + 1 \in DOMAIN q
      BY <2>2, <2>3
    <3>2. r \in ToSet(q)
      BY <2>2, <2>4, <3>1, Members
    <3> QED
      BY <2>2, <3>2 DEF Records
  <2>6. r.id \in RecordIds
    BY <2>5 DEF RecordIds
  <2>7. PICK S : S = {k \in 0 .. count - 1 : StartAt(x + k, failed).id = r.id}
    OBVIOUS
  <2>8. DrawnOf(r)' = DrawnOf(r) + Cardinality(S)
    BY <1>0, <1>1, <2>6, <2>7 DEF DrawStarts, DrawnOf
  <2>9. S = TurnsAhead(x, count, n, a, m, b)
    <3>1. ASSUME NEW k \in 0 .. count - 1
          PROVE  StartAt(x + k, failed).id = r.id <=> TurnOf(x + k, n, a, m, b)
      <4>1. PICK i \in Nat : i = x + k
        OBVIOUS
      <4>2. b \in 0 .. m - 1
        BY <2>3
      <4>3. StartAt(i, failed).id = q[b + 1].id <=> TurnOf(i, n, a, m, b)
        <5>1. TaskInTurn(failed, tasks, n, a, q, m)
          BY <1>n, <1>5, <2>3 DEF TaskInTurn
        <5> QED
          BY <1>0, <4>2, <5>1, StartWhen
      <4> QED
        BY <2>4, <4>1, <4>3
    <3> QED
      BY <2>7, <3>1 DEF TurnsAhead
  <2>10. b \in 0 .. m - 1
    BY <2>3
  <2>11. Cardinality(S) = Gap(Before(x, n, a), Before(x + count, n, a), m, b)
    BY ONLY <2>9, <2>10, n \in Nat \ {0}, a \in 0 .. n - 1, x \in Nat, count \in Nat,
       m \in Nat \ {0}, NextTurns
  <2>12. DrawnOf(r) = Gap(Before(lo, n, a), Before(x, n, a), m, b)
    BY <1>0, <1>1, <1>n, <1>5, <2>3, <2>4 DEF StartsSince
  <2>13. PICK u \in Nat, v \in Nat, w \in Nat :
           u = Before(lo, n, a) /\ v = Before(x, n, a) /\ w = Before(y, n, a)
    BY <1>1, BeforeIs
  <2>14. Gap(u, v, m, b) + Gap(v, w, m, b) = Gap(u, w, m, b)
    BY <2>10, GapsAdd
  <2> QED
    BY <1>1, <2>3, <2>4, <2>8, <2>11, <2>12, <2>13, <2>14
<1>6. StartsSince(lo)'
  BY <1>0, <1>1, <1>2, <1>3, <1>n, <1>5 DEF StartsSince
<1> QED
  BY <1>1, <1>6

\* Picking goes on with the turns of the tasks.
LEMMA PicksGoOn ==
  ASSUME Stored, taskCursor \in Nat, Records(stored) # {}, Balanced,
         NEW lo \in 0 .. taskCursor, PicksSince(lo), NEW latest,
         Sample(BatchSize, NoLimit, recipe.mixed, latest)
  PROVE  PicksSince(lo)' /\ lo \in 0 .. taskCursor'
<1>1. Fresh(NoLimit) = Records(stored)
  BY DEF Fresh, IsStale, NoLimit
<1>2. PICK valid : valid = Records(stored)
  OBVIOUS
<1>3. Pools(valid, recipe.mixed) = {valid}
  BY DEF Pools, Balanced
<1>4. PICK tasks : tasks = TasksThere
  OBVIOUS
<1>5. PICK n \in Nat \ {0} : n = Len(tasks)
  BY <1>4, TasksThereAre
<1>6. /\ tasks \in [1 .. n -> Tasks] /\ \A r \in valid : \E k \in 1 .. n : tasks[k] = r.task
      /\ \A j, k \in 1 .. n : tasks[j] = tasks[k] => j = k
  BY <1>2, <1>4, <1>5, TasksThereAre
<1>f. PICK free \in Nat : \E picks \in [1 .. free -> valid] :
        /\ \A k \in 1 .. free : picks[k] \in Turn(valid, taskCursor + k - 1)
        /\ picked' = [t \in Tasks |->
             picked[t] + Cardinality({k \in 1 .. free : picks[k].task = t})]
        /\ taskCursor' = taskCursor + free
  <2> DEFINE V == Fresh(NoLimit)
             there == {i \in pendingLatest : \E r \in V : r.id = i}
             leads == latest /\ there # {}
             rest  == IF leads THEN BatchSize - 1 ELSE BatchSize
  <2>1. /\ \E picks \in [1 .. rest -> V] :
             /\ \A k \in 1 .. rest :
                  \E pool \in Pools(V, recipe.mixed) : picks[k] \in Turn(pool, taskCursor + k - 1)
             /\ picked' = [t \in Tasks |->
                  picked[t] + Cardinality({k \in 1 .. rest : picks[k].task = t})]
        /\ taskCursor' = taskCursor + rest
    BY DEF Sample
  <2>2. rest \in Nat
    BY Sizes
  <2>3. V = valid
    BY <1>1, <1>2
  <2> HIDE DEF rest, V
  <2>4. Pools(V, recipe.mixed) = {valid}
    BY <1>3, <2>3
  <2>5. PICK free \in Nat : free = rest
    BY <2>2
  <2>6. PICK picks \in [1 .. free -> V] :
             /\ \A k \in 1 .. free :
                  \E pool \in Pools(V, recipe.mixed) : picks[k] \in Turn(pool, taskCursor + k - 1)
             /\ picked' = [t \in Tasks |->
                  picked[t] + Cardinality({k \in 1 .. free : picks[k].task = t})]
    BY <2>1, <2>5
  <2>7. \A k \in 1 .. free : picks[k] \in Turn(valid, taskCursor + k - 1)
    BY <2>4, <2>6
  <2>8. picks \in [1 .. free -> valid] /\ taskCursor' = taskCursor + free
    BY <2>1, <2>3, <2>5, <2>6
  <2> QED
    BY <2>6, <2>7, <2>8
<1>7. PICK picks \in [1 .. free -> valid] :
        /\ \A k \in 1 .. free : picks[k] \in Turn(valid, taskCursor + k - 1)
        /\ picked' = [t \in Tasks |->
             picked[t] + Cardinality({k \in 1 .. free : picks[k].task = t})]
        /\ taskCursor' = taskCursor + free
  BY <1>f
<1>8. PICK x \in Nat : x = taskCursor
  OBVIOUS
<1>9. UNCHANGED stored /\ TasksThere' = tasks
  BY <1>4 DEF Sample, TasksThere
<1>10. ASSUME NEW a \in 0 .. n - 1
       PROVE  picked'[tasks[a + 1]] = Gap(lo, x + free, n, a)
  <2>1. a + 1 \in 1 .. n
    OBVIOUS
  <2>2. PICK t \in Tasks : t = tasks[a + 1]
    BY <1>6, <2>1
  <2>3. PICK S : S = {k \in 1 .. free : picks[k].task = t}
    OBVIOUS
  <2>4. S = {k \in 1 .. free : (x + k - 1) % n = a}
    <3>1. ASSUME NEW k \in 1 .. free
          PROVE  picks[k].task = t <=> (x + k - 1) % n = a
      <4>1. PICK i \in Nat : i = x + k - 1
        BY <1>8
      <4>2. PICK c \in 0 .. n - 1 : c = i % n
        BY Quotient
      <4>3. picks[k].task = tasks[c + 1]
        BY <1>2, <1>4, <1>5, <1>7, <1>8, <4>1, <4>2 DEF Turn, TasksThere
      <4>4. c + 1 \in 1 .. n /\ (c + 1 = a + 1 <=> c = a)
        OBVIOUS
      <4>5. tasks[c + 1] = tasks[a + 1] <=> c = a
        BY <1>6, <2>1, <4>4
      <4> QED
        BY <2>2, <4>1, <4>2, <4>3, <4>5
    <3> QED
      BY <2>3, <3>1
  <2>5. Cardinality(S) = Gap(x, x + free, n, a)
    BY <2>4, NextPicks
  <2>6. picked[t] = Gap(lo, x, n, a)
    BY <1>4, <1>5, <1>8, <2>2 DEF PicksSince
  <2>7. picked'[t] = picked[t] + Cardinality(S)
    BY <1>7, <2>3
  <2>8. PICK y \in Nat : y = x + free
    OBVIOUS
  <2>9. Gap(lo, x, n, a) + Gap(x, y, n, a) = Gap(lo, y, n, a)
    BY GapsAdd
  <2> QED
    BY <2>2, <2>5, <2>6, <2>7, <2>8, <2>9
<1>11. PicksSince(lo)'
  BY <1>5, <1>7, <1>8, <1>9, <1>10 DEF PicksSince
<1> QED
  BY <1>7, <1>8, <1>11

\* New records start the count again, wherever the cursors are.
LEMMA Recounted ==
  Stored /\ startCursor \in Nat /\ taskCursor \in Nat
    /\ drawn = <<>> /\ picked = [t \in Tasks |-> 0] => DrawnInv
<1> SUFFICES ASSUME Stored, startCursor \in Nat, taskCursor \in Nat,
                    drawn = <<>>, picked = [t \in Tasks |-> 0]
             PROVE  DrawnInv
  OBVIOUS
<1>1. ASSUME Eligible(recipe.failed) # {}
      PROVE  StartsSince(startCursor)
  <2>0. PICK failed : failed = recipe.failed
    OBVIOUS
  <2>1. PICK x \in Nat : x = startCursor
    OBVIOUS
  <2>t. PICK tasks : \E n \in Nat \ {0} : /\ tasks = EligibleTasks(failed) /\ Len(tasks) = n
                                          /\ TasksInTurn(tasks, n, failed)
    BY <1>1, <2>0, StartIs
  <2>2. PICK n \in Nat \ {0} : /\ tasks = EligibleTasks(failed) /\ Len(tasks) = n
                               /\ TasksInTurn(tasks, n, failed)
    BY <2>t
  <2>3. ASSUME NEW a \in 0 .. n - 1, NEW q, q = EligibleOf(tasks[a + 1], failed),
               NEW b \in 0 .. Len(q) - 1
        PROVE  DrawnOf(q[b + 1]) = Gap(Before(x, n, a), Before(x, n, a), Len(q), b)
    <3>1. PICK t \in Tasks : t = tasks[a + 1] /\ q # <<>>
      <4>1. a + 1 \in 1 .. n
        OBVIOUS
      <4> QED
        BY <2>2, <2>3, <4>1 DEF TasksInTurn
    <3>2. q \in Seq(Rec)
      BY <2>3, <3>1, EligibleAre
    <3>3. PICK m \in Nat \ {0} : m = Len(q)
      BY <3>1, <3>2
    <3>4. PICK u \in Nat : u = Before(x, n, a)
      BY BeforeIs
    <3>5. b \in 0 .. m - 1
      BY <3>3
    <3>6. Gap(u, u, m, b) = 0
      BY <3>5, GapsAdd
    <3>7. DrawnOf(q[b + 1]) = 0
      BY DEF DrawnOf
    <3> QED
      BY <3>3, <3>4, <3>6, <3>7
  <2> QED
    BY <2>0, <2>1, <2>2, <2>3 DEF StartsSince
<1>2. ASSUME Records(stored) # {}
      PROVE  PicksSince(taskCursor)
  <2>1. PICK tasks : tasks = TasksThere
    OBVIOUS
  <2>2. PICK n \in Nat \ {0} : n = Len(tasks)
    BY <1>2, <2>1, TasksThereAre
  <2>3. tasks \in [1 .. n -> Tasks]
    BY <1>2, <2>1, <2>2, TasksThereAre
  <2>4. ASSUME NEW a \in 0 .. n - 1
        PROVE  picked[tasks[a + 1]] = Gap(taskCursor, taskCursor, n, a)
    <3>1. a + 1 \in 1 .. n
      OBVIOUS
    <3>2. picked[tasks[a + 1]] = 0
      BY <2>3, <3>1
    <3> QED
      BY <3>2, GapsAdd
  <2> QED
    BY <2>1, <2>2, <2>4 DEF PicksSince
<1>3. startCursor \in 0 .. startCursor /\ taskCursor \in 0 .. taskCursor
  OBVIOUS
<1> QED
  BY <1>1, <1>2, <1>3 DEF DrawnInv

\* The starts drawn and the turns picked stay those of the cursors.
LEMMA DrawnStep ==
  ASSUME Base, DrawnInv, [Next]_vars
  PROVE  DrawnInv'
<1>b. Base'
  BY BaseStep
<1>n. Stored' /\ startCursor' \in Nat /\ taskCursor' \in Nat
  BY <1>b DEF Base, ReplayInv
<1>c. Stored /\ startCursor \in Nat /\ taskCursor \in Nat /\ recipe \in Recipe
  BY RecipesAre DEF Base, ReplayInv, RunnerInv
<1>s. recipe' = recipe
  BY DEF Next, Launch, EnterStep, CollectFrozen, CollectFull, CollectOnline, PushVersion,
     UpdateWorldModel, UpdatePolicy, UpdateOn, UpdateClassifier, LearnerRaises, Learned,
     RefreshRaises, Fails, EndStep, DealShards, Refresh, StartLease, EndLease, GetShard,
     runnerVars, vars
<1>r. ASSUME drawn' = <<>>, picked' = [t \in Tasks |-> 0]
      PROVE  DrawnInv'
  <2>1. (Stored /\ startCursor \in Nat /\ taskCursor \in Nat
           /\ drawn = <<>> /\ picked = [t \in Tasks |-> 0] => DrawnInv)'
    BY Recounted, PTL
  <2> QED
    BY <1>n, <1>r, <2>1
<1>t. ASSUME UNCHANGED <<stored, startCursor, drawn>>
      PROVE  Eligible(recipe.failed)' # {} => \E lo \in 0 .. startCursor' : StartsSince(lo)'
  <2>1. Eligible(recipe.failed)' = Eligible(recipe.failed)
    BY <1>t, <1>s DEF Eligible
  <2>2. \A lo : StartsSince(lo)' = StartsSince(lo)
    BY <1>t, <1>s DEF StartsSince, EligibleTasks, EligibleOf, DrawnOf
  <2> QED
    BY <1>t, <2>1, <2>2 DEF DrawnInv
<1>p. ASSUME UNCHANGED <<stored, taskCursor, picked>>
      PROVE  (Balanced /\ Records(stored) # {})' => \E lo \in 0 .. taskCursor' : PicksSince(lo)'
  BY <1>p, <1>s DEF DrawnInv, Balanced, PicksSince, TasksThere
<1>u. ASSUME UNCHANGED <<stored, startCursor, drawn, taskCursor, picked>>
      PROVE  DrawnInv'
  BY <1>u, <1>t, <1>p DEF DrawnInv
<1>1. CASE Launch \/ CollectFrozen \/ CollectOnline \/ CollectFull
  BY <1>1, <1>r DEF Launch, CollectFrozen, CollectOnline, CollectFull, AddEpisodes,
     ReplaceEpisodes, ContentsBecome
<1>2. CASE EnterStep \/ PushVersion
  BY <1>2, <1>u DEF EnterStep, PushVersion, SetPolicyVersion, contents
<1>3. CASE UpdateWorldModel \/ UpdatePolicy
  <2>1. PICK limit : /\ Sample(BatchSize, limit, recipe.mixed, recipe.latest)
                     /\ Balanced => limit = NoLimit
    BY <1>3 DEF UpdateWorldModel, UpdatePolicy, UpdateOn, Balanced
  <2>2. UNCHANGED <<stored, startCursor, drawn>>
    BY <2>1 DEF Sample
  <2>3. ASSUME Balanced', (Records(stored) # {})'
        PROVE  \E lo \in 0 .. taskCursor' : PicksSince(lo)'
    <3>1. Balanced /\ Records(stored) # {}
      BY <1>s, <2>2, <2>3 DEF Balanced
    <3>2. PICK lo \in 0 .. taskCursor : PicksSince(lo)
      BY <3>1 DEF DrawnInv
    <3>3. PicksSince(lo)' /\ lo \in 0 .. taskCursor'
      BY <1>c, <2>1, <3>1, <3>2, PicksGoOn
    <3> QED
      BY <3>3
  <2> QED
    BY <1>t, <2>2, <2>3 DEF DrawnInv
<1>4. CASE UpdateClassifier
  BY <1>4, <1>u DEF UpdateClassifier, SampleWindows, contents
<1>5. CASE LearnerRaises \/ Learned \/ RefreshRaises \/ EndStep \/ DealShards \/ UNCHANGED vars
  BY <1>5, <1>u DEF LearnerRaises, Learned, RefreshRaises, Fails, EndStep, DealShards,
     replayVars, vars
<1>6. ASSUME NEW w \in Workers, Refreshed(w)
      PROVE  DrawnInv'
  <2>1. CASE UNCHANGED replayVars
    BY <1>u, <2>1 DEF replayVars
  <2>2. CASE Records(stored) # {} /\ ~CannotStart(recipe.failed)
             /\ DrawStarts(NumSlots \div recipe.group, recipe.failed)
    <3>1. UNCHANGED <<stored, taskCursor, picked>>
      BY <2>2 DEF DrawStarts, contents
    <3>2. Eligible(recipe.failed) # {}
      BY <2>2 DEF CannotStart
    <3>3. PICK lo \in 0 .. startCursor : StartsSince(lo)
      BY <3>2 DEF DrawnInv
    <3>4. NumSlots \div recipe.group \in Nat
      <4>1. PICK g \in Nat \ {0} : g = recipe.group
        BY RecipesAre DEF Base, RunnerInv
      <4>2. NumSlots \div g \in Nat
        BY Sizes, Quotient
      <4> QED
        BY <4>1, <4>2
    <3>5. StartsSince(lo)' /\ lo \in 0 .. startCursor'
      BY <1>c, <1>s, <2>2, <3>2, <3>3, <3>4, StartsDrawn
    <3> QED
      BY <1>p, <3>1, <3>5 DEF DrawnInv
  <2> QED
    BY <1>6, <2>1, <2>2 DEF Refreshed
<1>7. ASSUME NEW w \in Workers, Refresh(w) \/ StartLease(w)
      PROVE  DrawnInv'
  <2>1. Refreshed(w) \/ UNCHANGED replayVars
    BY <1>7 DEF Refresh, StartLease
  <2>2. CASE UNCHANGED replayVars
    BY <1>u, <2>2 DEF replayVars
  <2> QED
    BY <1>6, <2>1, <2>2
<1>8. ASSUME NEW w \in Workers, EndLease(w)
      PROVE  DrawnInv'
  BY <1>8, <1>u DEF EndLease, replayVars
<1>9. ASSUME NEW r \in Rank, GetShard(r)
      PROVE  DrawnInv'
  BY <1>9, <1>u DEF GetShard, replayVars
<1> QED
  BY <1>1, <1>2, <1>3, <1>4, <1>5, <1>7, <1>8, <1>9 DEF Next

OfTask(t) == {r \in Eligible(recipe.failed) : r.task = t}
DrawnTokens(t) == UNION {{r} \X (1 .. DrawnOf(r)) : r \in OfTask(t)}
OneRound(t) == \E m \in Nat \ {0} : \E l, h \in Nat :
                 l <= h /\ \A r \in OfTask(t) : \E b \in 0 .. m - 1 : DrawnOf(r) = Gap(l, h, m, b)

\* The turns of a task, and those of its records.
LEMMA TaskTurns ==
  ASSUME Stored, startCursor \in Nat, NEW lo \in 0 .. startCursor, StartsSince(lo),
         NEW n \in Nat \ {0}, n = Len(EligibleTasks(recipe.failed)),
         NEW t \in Tasks, OfTask(t) # {}
  PROVE  /\ \E a \in 0 .. n - 1 : Cardinality(DrawnTokens(t)) = Gap(lo, startCursor, n, a)
         /\ OneRound(t)
<1>0. PICK failed : failed = recipe.failed
  OBVIOUS
<1>1. Eligible(failed) # {}
  BY <1>0 DEF OfTask
<1>2. PICK tasks : tasks = EligibleTasks(failed) /\ Len(tasks) = n /\ TasksInTurn(tasks, n, failed)
  BY <1>0, <1>1, StartIs
<1>3. PICK q : q = EligibleOf(t, failed)
  OBVIOUS
<1>4. /\ q \in Seq(Rec)
      /\ \A r : r \in ToSet(q) <=> r \in ToSet(stored[t]) /\ (failed => ~r.success)
      /\ \A i, j \in DOMAIN q : i < j => q[i].id < q[j].id
  BY <1>3, EligibleAre
<1>5. PICK R : R = OfTask(t)
  OBVIOUS
<1>6. R = ToSet(q)
  <2>1. ASSUME NEW r \in Records(stored)
        PROVE  r.task = t <=> r \in ToSet(stored[t])
    <3>1. PICK u \in Tasks : r \in ToSet(stored[u])
      BY DEF Records
    <3>2. \A v \in Tasks : r \in ToSet(stored[v]) => r.task = v
      BY DEF Stored, Sound, Fitting, ToSet
    <3> QED
      BY <3>1, <3>2
  <2>2. ToSet(stored[t]) \subseteq Records(stored)
    BY DEF Records
  <2>3. R = {r \in Records(stored) : (failed => ~r.success) /\ r.task = t}
    BY <1>0, <1>5 DEF OfTask, Eligible
  <2>4. ASSUME NEW r
        PROVE  r \in R <=> r \in ToSet(q)
    BY <1>4, <2>1, <2>2, <2>3
  <2> QED
    BY <2>4
<1>7. q # <<>>
  BY <1>4, <1>5, <1>6, Members
<1>8. PICK m \in Nat \ {0} : m = Len(q)
  BY <1>4, <1>7
<1>9. PICK a \in 0 .. n - 1 : tasks[a + 1] = t
  <2>1. PICK k \in 1 .. n : tasks[k] = t
    BY <1>2, <1>3, <1>7 DEF TasksInTurn
  <2>2. k - 1 \in 0 .. n - 1 /\ (k - 1) + 1 = k
    OBVIOUS
  <2> QED
    BY <2>1, <2>2
<1>10. PICK x \in Nat : x = startCursor /\ lo \in Nat /\ lo <= x
  OBVIOUS
<1>11. PICK l \in Nat, h \in Nat : l = Before(lo, n, a) /\ h = Before(x, n, a) /\ l <= h
  <2>1. Before(lo, n, a) \in Nat /\ Before(x, n, a) \in Nat
    BY <1>10, BeforeIs
  <2>2. Before(lo, n, a) <= Before(x, n, a)
    BY <1>10, GapsClose
  <2> QED
    BY <2>1, <2>2
<1>12. ASSUME NEW b \in 0 .. m - 1
       PROVE  DrawnOf(q[b + 1]) = Gap(l, h, m, b)
  BY <1>0, <1>2, <1>3, <1>8, <1>9, <1>10, <1>11 DEF StartsSince
<1>13. ASSUME NEW i \in 1 .. m
       PROVE  DrawnOf(q[i]) = Gap(l, h, m, i - 1)
  <2>1. PICK b \in 0 .. m - 1 : b = i - 1 /\ b + 1 = i
    <3>1. i - 1 \in 0 .. m - 1 /\ (i - 1) + 1 = i
      OBVIOUS
    <3> QED
      BY <3>1
  <2> QED
    BY <1>12, <2>1
<1>14. q \in [1 .. m -> R] /\ \A r \in R : \E i \in 1 .. m : q[i] = r
  BY <1>4, <1>6, <1>8 DEF ToSet
<1>15. ASSUME NEW i \in 1 .. m, NEW j \in 1 .. m, q[i] = q[j]
       PROVE  i = j
  <2>1. q[i].id \in Nat
    <3>1. q[i] \in Rec
      BY <1>4, <1>8
    <3> QED
      BY <3>1 DEF Rec
  <2>2. ~(q[i].id < q[j].id) /\ ~(q[j].id < q[i].id)
    BY <1>15, <2>1
  <2> QED
    BY <1>4, <1>8, <2>2
<1>16. PICK D : D = [r \in R |-> DrawnOf(r)]
  OBVIOUS
<1>17. \A i \in 1 .. m : D[q[i]] = Gap(l, h, m, i - 1)
  BY <1>13, <1>14, <1>16
<1>18. Cardinality(TurnTokens(D, R)) = h - l
  <2>1. Lists(q, m, R)
    BY <1>14, <1>15 DEF Lists
  <2>2. TurnsListed(D, q, l, h, m)
    BY <1>17 DEF TurnsListed
  <2> QED
    BY <1>11, <2>1, <2>2, TurnsAddUp
<1>19. TurnTokens(D, R) = DrawnTokens(t)
  BY <1>5, <1>16 DEF TurnTokens, DrawnTokens
<1>20. Cardinality(DrawnTokens(t)) = Gap(lo, startCursor, n, a)
  BY <1>10, <1>11, <1>18, <1>19 DEF Gap
<1>21. ASSUME NEW r \in OfTask(t)
       PROVE  \E b \in 0 .. m - 1 : DrawnOf(r) = Gap(l, h, m, b)
  <2>1. PICK i \in 1 .. m : q[i] = r
    BY <1>5, <1>14
  <2>2. i - 1 \in 0 .. m - 1
    OBVIOUS
  <2> QED
    BY <1>13, <2>1, <2>2
<1> QED
  BY <1>11, <1>20, <1>21 DEF OneRound

\* Starts and picks favour no task and no record: the cursors survive from one
\* call to the next, whichever worker or update makes it
\* (_initial_condition_cursor, _task_sample_cursor).
THEOREM DrawnEvenlyAlways == Spec => []DrawnEvenly
<1>1. Base /\ DrawnInv => DrawnEvenly
  <2> SUFFICES ASSUME Base, DrawnInv
               PROVE  DrawnEvenly
    OBVIOUS
  <2>0. Stored /\ startCursor \in Nat /\ taskCursor \in Nat
    BY DEF Base, ReplayInv
  <2>1. ASSUME NEW t \in Tasks, NEW r \in OfTask(t), NEW q \in OfTask(t)
        PROVE  DrawnOf(r) - DrawnOf(q) \in {-1, 0, 1}
    <3>1. PICK lo \in 0 .. startCursor : StartsSince(lo)
      BY <2>1 DEF OfTask, DrawnInv
    <3>2. PICK n \in Nat \ {0} : n = Len(EligibleTasks(recipe.failed))
      BY <2>0, <2>1, StartIs DEF OfTask
    <3>r. OneRound(t)
      BY <2>0, <2>1, <3>1, <3>2, TaskTurns
    <3>m. PICK m \in Nat \ {0} : \E l, h \in Nat :
            l <= h /\ \A p \in OfTask(t) : \E b \in 0 .. m - 1 : DrawnOf(p) = Gap(l, h, m, b)
      BY <3>r DEF OneRound
    <3>3. PICK l \in Nat, h \in Nat :
            l <= h /\ \A p \in OfTask(t) : \E b \in 0 .. m - 1 : DrawnOf(p) = Gap(l, h, m, b)
      BY <3>m
    <3>4. PICK b \in 0 .. m - 1 : DrawnOf(r) = Gap(l, h, m, b)
      BY <3>3
    <3>5. PICK c \in 0 .. m - 1 : DrawnOf(q) = Gap(l, h, m, c)
      BY <3>3
    <3> QED
      BY <3>3, <3>4, <3>5, GapsClose
  <2>2. ASSUME NEW t \in Tasks, NEW u \in Tasks, OfTask(t) # {}, OfTask(u) # {}
        PROVE  Cardinality(DrawnTokens(t)) - Cardinality(DrawnTokens(u)) \in {-1, 0, 1}
    <3>1. PICK lo \in 0 .. startCursor : StartsSince(lo)
      BY <2>2 DEF OfTask, DrawnInv
    <3>2. PICK n \in Nat \ {0} : n = Len(EligibleTasks(recipe.failed))
      BY <2>0, <2>2, StartIs DEF OfTask
    <3>3. PICK a \in 0 .. n - 1 : Cardinality(DrawnTokens(t)) = Gap(lo, startCursor, n, a)
      BY <2>0, <2>2, <3>1, <3>2, TaskTurns
    <3>4. PICK b \in 0 .. n - 1 : Cardinality(DrawnTokens(u)) = Gap(lo, startCursor, n, b)
      BY <2>0, <2>2, <3>1, <3>2, TaskTurns
    <3>5. lo \in Nat /\ lo <= startCursor
      BY <2>0
    <3> QED
      BY <2>0, <3>3, <3>4, <3>5, GapsClose
  <2>3. ASSUME NEW t \in Tasks, NEW u \in Tasks, OfTask(t) # {}, OfTask(u) # {}, Balanced
        PROVE  picked[t] - picked[u] \in {-1, 0, 1}
    <3>1. PICK r \in Records(stored), q \in Records(stored) : r.task = t /\ q.task = u
      BY <2>3 DEF OfTask, Eligible
    <3>2. PICK lo \in 0 .. taskCursor : PicksSince(lo)
      BY <2>3, <3>1 DEF DrawnInv
    <3>3. PICK tasks : tasks = TasksThere
      OBVIOUS
    <3>4. PICK n \in Nat \ {0} : n = Len(tasks)
      BY <2>0, <3>1, <3>3, TasksThereAre
    <3>5. ASSUME NEW p \in Records(stored)
          PROVE  \E a \in 0 .. n - 1 : picked[p.task] = Gap(lo, taskCursor, n, a)
      <4>1. PICK k \in 1 .. n : tasks[k] = p.task
        BY <2>0, <3>3, <3>4, TasksThereAre
      <4>2. PICK a \in 0 .. n - 1 : a = k - 1 /\ a + 1 = k
        <5>1. k - 1 \in 0 .. n - 1 /\ (k - 1) + 1 = k
          OBVIOUS
        <5> QED
          BY <5>1
      <4> QED
        BY <3>2, <3>3, <3>4, <4>1, <4>2 DEF PicksSince
    <3>6. PICK a \in 0 .. n - 1 : picked[t] = Gap(lo, taskCursor, n, a)
      BY <3>1, <3>5
    <3>7. PICK b \in 0 .. n - 1 : picked[u] = Gap(lo, taskCursor, n, b)
      BY <3>1, <3>5
    <3>8. lo \in Nat /\ lo <= taskCursor
      BY <2>0
    <3> QED
      BY <2>0, <3>6, <3>7, <3>8, GapsClose
  <2> QED
    BY <2>1, <2>2, <2>3 DEF DrawnEvenly, OfTask, DrawnTokens, DrawnOf, Balanced
<1>2. Base /\ DrawnInv /\ [Next]_vars => DrawnInv'
  BY DrawnStep
<1>3. Init => DrawnInv
  <2>1. Init => Base
    BY Initially
  <2>2. Init => drawn = <<>> /\ picked = [t \in Tasks |-> 0]
    BY DEF Init, InitReplay
  <2> QED
    BY <2>1, <2>2, Recounted DEF Base, ReplayInv
<1> QED
  BY <1>1, <1>2, <1>3, BaseHolds, PTL DEF Spec
=============================================================================
