------------------------ MODULE InferenceQueueProofs ------------------------
(***************************************************************************)
(* Proofs about InferenceQueue and ChatRequests, for every number of       *)
(* calls, of permits and of runtime threads, every set of limits and every *)
(* size of the models.                                                     *)
(*                                                                         *)
(* The argument counts calls by place.  Every step moves one call from one *)
(* place to another, so each count changes by at most one (CountMoved),    *)
(* and the steps change permits and waiting along with the counts.         *)
(***************************************************************************)
EXTENDS ChatRequests, TLAPS, FiniteSetTheorems, SequenceTheorems

\* The number of calls that f puts at one of the places P.
Count(f, P) == Cardinality({ q \in Requests : f[q] \in P })

In(x, P) == IF x \in P THEN 1 ELSE 0

\* Moving one call changes a count by what the call is worth at its new and at
\* its old place; a count is zero only if no call is there.
LEMMA CountMoved ==
    ASSUME NEW f \in [Requests -> Places], NEW r \in Requests,
           NEW p \in Places, NEW P
    PROVE  /\ Count(f, P) \in Nat
           /\ f[r] \in P => Count(f, P) > 0
           /\ Count([f EXCEPT ![r] = p], P) =
                Count(f, P) + In(p, P) - In(f[r], P)
<1> DEFINE S == { q \in Requests : f[q] \in P }
           T == { q \in Requests : [f EXCEPT ![r] = p][q] \in P }
<1>1. IsFiniteSet(S) /\ IsFiniteSet(T)
  BY FS_Subset, InferenceQueueConstants
<1>2. Cardinality(S) \in Nat /\ (r \in S => Cardinality(S) > 0)
  BY <1>1, FS_CardinalityType, FS_EmptySet
<1>3. Cardinality(T) = Cardinality(S) + In(p, P) - In(f[r], P)
  <2>1. CASE p \in P /\ f[r] \in P
    <3>1. Cardinality(T) = Cardinality(S)
      <4>1. T = S
        BY <2>1
      <4> HIDE DEF S, T
      <4> QED
        BY <4>1
    <3>2. In(p, P) = 1 /\ In(f[r], P) = 1
      BY <2>1 DEF In
    <3> HIDE DEF S, T
    <3> QED
      BY <3>1, <3>2, <1>2
  <2>2. CASE p \notin P /\ f[r] \notin P
    <3>1. Cardinality(T) = Cardinality(S)
      <4>1. T = S
        BY <2>2
      <4> HIDE DEF S, T
      <4> QED
        BY <4>1
    <3>2. In(p, P) = 0 /\ In(f[r], P) = 0
      BY <2>2 DEF In
    <3> HIDE DEF S, T
    <3> QED
      BY <3>1, <3>2, <1>2
  <2>3. CASE p \in P /\ f[r] \notin P
    <3>1. T = S \cup {r} /\ r \notin S
      BY <2>3
    <3>2. Cardinality(T) = Cardinality(S) + 1
      BY <3>1, <1>1, FS_AddElement
    <3>3. In(p, P) = 1 /\ In(f[r], P) = 0
      BY <2>3 DEF In
    <3> HIDE DEF S, T
    <3> QED
      BY <3>2, <3>3, <1>2
  <2>4. CASE p \notin P /\ f[r] \in P
    <3>1. T = S \ {r} /\ r \in S
      BY <2>4
    <3>2. Cardinality(T) = Cardinality(S) - 1
      BY <3>1, <1>1, FS_RemoveElement
    <3>3. In(p, P) = 0 /\ In(f[r], P) = 1
      BY <2>4 DEF In
    <3> HIDE DEF S, T
    <3> QED
      BY <3>2, <3>3, <1>2
  <2> QED
    BY <2>1, <2>2, <2>3, <2>4
<1> QED
  BY <1>2, <1>3 DEF Count

\* The calls at the places that matter.
NChecked(f) == Count(f, {"checked"})
NQueued(f)  == Count(f, {"queued"})
NHolders(f) == Count(f, {"engine", "thread"})

\* What a call at place x is worth in each of these counts.
IsChecked(x) == In(x, {"checked"})
IsQueued(x)  == In(x, {"queued"})
IsHolder(x)  == In(x, {"engine", "thread"})

\* CountMoved for them.
LEMMA PlacesMoved ==
    ASSUME NEW f \in [Requests -> Places], NEW r \in Requests, NEW p \in Places
    PROVE  LET g == [f EXCEPT ![r] = p] IN
           /\ NChecked(f) \in Nat /\ NQueued(f) \in Nat /\ NHolders(f) \in Nat
           /\ f[r] = "queued" => NQueued(f) > 0
           /\ f[r] \in {"engine", "thread"} => NHolders(f) > 0
           /\ NChecked(g) = NChecked(f) + IsChecked(p) - IsChecked(f[r])
           /\ NQueued(g) = NQueued(f) + IsQueued(p) - IsQueued(f[r])
           /\ NHolders(g) = NHolders(f) + IsHolder(p)
                              - IsHolder(f[r])
<1>3. /\ NChecked(f) \in Nat
      /\ NChecked([f EXCEPT ![r] = p]) =
           NChecked(f) + IsChecked(p) - IsChecked(f[r])
  BY CountMoved DEF NChecked, IsChecked
<1>4. /\ NQueued(f) \in Nat
      /\ f[r] \in {"queued"} => NQueued(f) > 0
      /\ NQueued([f EXCEPT ![r] = p]) =
           NQueued(f) + IsQueued(p) - IsQueued(f[r])
  BY CountMoved DEF NQueued, IsQueued
<1>5. /\ NHolders(f) \in Nat
      /\ f[r] \in {"engine", "thread"} => NHolders(f) > 0
      /\ NHolders([f EXCEPT ![r] = p]) =
           NHolders(f) + IsHolder(p)
             - IsHolder(f[r])
  BY CountMoved DEF NHolders, IsHolder
<1> QED
  BY <1>3, <1>4, <1>5

\* The sets of the model, counted.
LEMMA Counts ==
    /\ Cardinality(Checked) = NChecked(at)
    /\ Cardinality(Queued)  = NQueued(at)
    /\ Cardinality(Holders) = NHolders(at)
<1>1. /\ Checked = { q \in Requests : at[q] \in {"checked"} }
      /\ Queued = { q \in Requests : at[q] \in {"queued"} }
  BY DEF Checked, Queued
<1> QED
  BY <1>1 DEF Count, Holders, NChecked, NQueued, NHolders

\* The counts in the next state are functions of the places calls are at then.
LEMMA CountsNext ==
    /\ Cardinality(Checked)' = NChecked(at')
    /\ Cardinality(Queued)'  = NQueued(at')
    /\ Cardinality(Holders)' = NHolders(at')
<1>1. /\ Checked' = { q \in Requests : at'[q] \in {"checked"} }
      /\ Queued' = { q \in Requests : at'[q] \in {"queued"} }
  BY DEF Checked, Queued
<1> QED
  BY <1>1 DEF Count, Holders, NChecked, NQueued, NHolders

\* max_parallel 0 counts as 1, so there is a permit.
LEMMA ParallelType == Parallel \in Nat \ {0}
  BY InferenceQueueConstants DEF Parallel

\* A waiter that leaves the line leaves a line.
LEMMA RemoveType ==
    ASSUME NEW s \in Seq(Requests), NEW i \in DOMAIN s
    PROVE  SubSeq(s, 1, i - 1) \o SubSeq(s, i + 1, Len(s)) \in Seq(Requests)
<1>1. i \in 1..Len(s) /\ Len(s) \in Nat
  OBVIOUS
<1>2. SubSeq(s, 1, i - 1) \in Seq(Requests)
  BY <1>1
<1>3. SubSeq(s, i + 1, Len(s)) \in Seq(Requests)
  BY <1>1
<1> QED
  BY <1>2, <1>3, ConcatProperties

-----------------------------------------------------------------------------
\* The inductive invariant: the type invariant needs GuardsConserved to know
\* that the counter is not decremented at zero.
QueueInv == QueueTypeOK /\ GuardsConserved /\ OvershootBounded

\* A step that moves call r to place p keeps QueueInv if it keeps the types and
\* changes permits and waiting as the move says; sum is the effect on the calls
\* that have passed the check.
LEMMA MoveInv ==
    ASSUME QueueInv, QueueTypeOK', NEW r \in Requests, NEW p \in Places,
           at' = [at EXCEPT ![r] = p],
           permits' = permits + IsHolder(at[r])
                              - IsHolder(p),
           waiting' = waiting + IsQueued(p) + IsHolder(p)
                       - IsQueued(at[r]) - IsHolder(at[r]),
           p # "checked", waiting' <= waiting + IsChecked(at[r])
    PROVE  QueueInv'
<1>1. /\ at \in [Requests -> Places] /\ permits \in Nat /\ waiting \in Nat
      /\ permits' \in Nat /\ waiting' \in Nat
  BY DEF QueueInv, QueueTypeOK
<1>2. /\ NChecked(at) \in Nat /\ NQueued(at) \in Nat /\ NHolders(at) \in Nat
      /\ NChecked(at') = NChecked(at) + IsChecked(p) - IsChecked(at[r])
      /\ NQueued(at') = NQueued(at) + IsQueued(p) - IsQueued(at[r])
      /\ NHolders(at') = NHolders(at) + IsHolder(p)
                           - IsHolder(at[r])
  BY <1>1, PlacesMoved
<1>3. /\ IsChecked(p) = 0 /\ IsChecked(at[r]) \in Int
      /\ IsQueued(p) \in Int /\ IsQueued(at[r]) \in Int
      /\ IsHolder(p) \in Int
      /\ IsHolder(at[r]) \in Int
  BY DEF In, IsChecked, IsQueued, IsHolder
<1>4. GuardsConserved'
  <2>1. /\ permits + NHolders(at) = Parallel
        /\ waiting = NQueued(at) + NHolders(at)
    BY Counts DEF QueueInv, GuardsConserved
  <2>2. /\ permits' + NHolders(at') = Parallel
        /\ waiting' = NQueued(at') + NHolders(at')
    BY <1>1, <1>2, <1>3, <2>1
  <2>3. Parallel' = Parallel
    BY DEF Parallel
  <2> QED
    BY <2>2, <2>3, CountsNext DEF GuardsConserved
<1>5. OvershootBounded'
  <2> SUFFICES ASSUME NEW b \in Limits, \A n \in Limits : 0 < n /\ n <= b
               PROVE  waiting' + NChecked(at') <= b + Workers - 1
    BY CountsNext DEF OvershootBounded
  <2>1. waiting + NChecked(at) <= b + Workers - 1
    BY Counts DEF QueueInv, OvershootBounded
  <2>2. b \in Nat /\ Workers \in Nat
    BY InferenceQueueConstants
  <2> QED
    BY <1>1, <1>2, <1>3, <2>1, <2>2
<1> QED
  BY <1>4, <1>5 DEF QueueInv

\* Nobody is in the queue at the start.
LEMMA QueueInitInv == QueueInit => QueueInv
<1> SUFFICES ASSUME QueueInit PROVE QueueInv
  OBVIOUS
<1>1. QueueTypeOK
  BY ParallelType, InferenceQueueConstants DEF QueueInit, QueueTypeOK, Places
<1>2. Checked = {} /\ Queued = {} /\ Holders = {}
  BY DEF QueueInit, Checked, Queued, Holders
<1>3. Cardinality(Checked) = 0 /\ Cardinality(Queued) = 0 /\ Cardinality(Holders) = 0
  BY <1>2, FS_EmptySet
<1>4. GuardsConserved
  BY <1>3, ParallelType DEF QueueInit, GuardsConserved
<1>5. OvershootBounded
  BY <1>3, InferenceQueueConstants DEF QueueInit, OvershootBounded
<1> QED
  BY <1>1, <1>4, <1>5 DEF QueueInv

\* What a call is worth at each place.
LEMMA WorthAt ==
    /\ \A x : x = "checked" => IsChecked(x) = 1 /\ IsQueued(x) = 0
                               /\ IsHolder(x) = 0
    /\ \A x : x = "queued" => IsChecked(x) = 0 /\ IsQueued(x) = 1
                              /\ IsHolder(x) = 0
    /\ \A x \in {"engine", "thread"} :
         /\ IsChecked(x) = 0 /\ IsQueued(x) = 0
         /\ IsHolder(x) = 1
    /\ \A x \in Over : /\ IsChecked(x) = 0 /\ IsQueued(x) = 0
                       /\ IsHolder(x) = 0
  BY DEF In, IsChecked, IsQueued, IsHolder, Over

\* Call passes check_capacity only below the limit, and at most Workers calls
\* are between the check and the count.
LEMMA CallInv ==
    ASSUME QueueInv, NEW r \in Requests, NEW s \in BOOLEAN, Call(r, s)
    PROVE  QueueInv'
<1>1. /\ at \in [Requests -> Places] /\ at[r] \in Over
      /\ permits' = permits /\ waiting' = waiting /\ max_waiting' = max_waiting
      /\ waiting \in Nat /\ permits \in Nat /\ max_waiting \in Limits
  BY DEF QueueInv, QueueTypeOK, Call
<1>2. QueueTypeOK'
  <2>1. at' \in [Requests -> Places]
    BY <1>1 DEF Call, Places
  <2>2. stream' \in [Requests -> BOOLEAN] /\ thread' \in [Requests -> BOOLEAN]
    BY DEF QueueInv, QueueTypeOK, Call
  <2>3. line' \in Seq(Requests)
    BY DEF QueueInv, QueueTypeOK, Call
  <2> QED
    BY <1>1, <2>1, <2>2, <2>3 DEF QueueTypeOK
<1>3. CASE Busy
  <2>1. at' = [at EXCEPT ![r] = "busy"] /\ "busy" \in Places /\ "busy" \in Over
    BY <1>3 DEF Call, Places, Over
  <2>2. /\ IsChecked(at[r]) = 0 /\ IsQueued(at[r]) = 0 /\ IsHolder(at[r]) = 0
        /\ IsQueued("busy") = 0 /\ IsHolder("busy") = 0
    BY <1>1, <2>1, WorthAt
  <2>3. /\ permits' = permits + IsHolder(at[r]) - IsHolder("busy")
        /\ waiting' = waiting + IsQueued("busy") + IsHolder("busy")
                      - IsQueued(at[r]) - IsHolder(at[r])
        /\ waiting' <= waiting + IsChecked(at[r])
    BY <1>1, <2>2
  <2> QED
    BY <1>2, <2>1, <2>3, MoveInv
<1>4. CASE ~Busy
  <2>1. at' = [at EXCEPT ![r] = "checked"] /\ "checked" \in Places
    BY <1>4 DEF Call, Places
  <2>2. /\ NChecked(at) \in Nat /\ NQueued(at) \in Nat /\ NHolders(at) \in Nat
        /\ NChecked(at') = NChecked(at) + 1
        /\ NQueued(at') = NQueued(at) /\ NHolders(at') = NHolders(at)
    <3>1. /\ IsChecked(at[r]) = 0 /\ IsQueued(at[r]) = 0 /\ IsHolder(at[r]) = 0
          /\ IsChecked("checked") = 1 /\ IsQueued("checked") = 0
          /\ IsHolder("checked") = 0
      BY <1>1, WorthAt
    <3>2. /\ NChecked(at) \in Nat /\ NQueued(at) \in Nat /\ NHolders(at) \in Nat
          /\ NChecked(at') = NChecked(at) + IsChecked("checked") - IsChecked(at[r])
          /\ NQueued(at') = NQueued(at) + IsQueued("checked") - IsQueued(at[r])
          /\ NHolders(at') = NHolders(at) + IsHolder("checked") - IsHolder(at[r])
      BY <1>1, <2>1, PlacesMoved
    <3> QED
      BY <3>1, <3>2
  <2>3. GuardsConserved'
    <3>1. Parallel' = Parallel
      BY DEF Parallel
    <3> QED
      BY <1>1, <2>2, <3>1, Counts, CountsNext DEF QueueInv, GuardsConserved
  <2>4. NChecked(at) < Workers
    BY Counts DEF Call
  <2>5. max_waiting # 0 => waiting < max_waiting
    BY <1>1, <1>4, InferenceQueueConstants DEF Busy
  <2>6. OvershootBounded'
    <3> SUFFICES ASSUME NEW b \in Limits, \A n \in Limits : 0 < n /\ n <= b
                 PROVE  waiting' + NChecked(at') <= b + Workers - 1
      BY CountsNext DEF OvershootBounded
    <3>1. 0 < max_waiting /\ max_waiting <= b
      BY <1>1
    <3>2. b \in Nat /\ Workers \in Nat /\ max_waiting \in Nat
      BY <1>1, InferenceQueueConstants
    <3> QED
      BY <1>1, <2>2, <2>4, <2>5, <3>1, <3>2
  <2> QED
    BY <1>2, <2>3, <2>6 DEF QueueInv
<1> QED
  BY <1>3, <1>4

\* fetch_add moves a call from the checked to the counted ones.
LEMMA EnqueueInv ==
    ASSUME QueueInv, NEW r \in Requests, Enqueue(r)
    PROVE  QueueInv'
<1>1. /\ at \in [Requests -> Places] /\ at[r] = "checked"
      /\ at' = [at EXCEPT ![r] = "queued"] /\ "queued" \in Places
      /\ permits' = permits /\ waiting' = waiting + 1
      /\ waiting \in Nat /\ permits \in Nat
  BY DEF QueueInv, QueueTypeOK, Enqueue, Places
<1>2. QueueTypeOK'
  BY <1>1, AppendProperties DEF QueueInv, QueueTypeOK, Enqueue
<1>3. /\ IsChecked(at[r]) = 1 /\ IsQueued(at[r]) = 0 /\ IsHolder(at[r]) = 0
      /\ IsQueued("queued") = 1 /\ IsHolder("queued") = 0
  BY <1>1, WorthAt
<1>4. /\ permits' = permits + IsHolder(at[r]) - IsHolder("queued")
      /\ waiting' = waiting + IsQueued("queued") + IsHolder("queued")
                    - IsQueued(at[r]) - IsHolder(at[r])
      /\ waiting' <= waiting + IsChecked(at[r])
  BY <1>1, <1>3
<1> QED
  BY <1>1, <1>2, <1>4, MoveInv

\* A permit is taken by a call that becomes a holder.
LEMMA AcquireInv ==
    ASSUME QueueInv, NEW r \in Requests, Acquire(r)
    PROVE  QueueInv'
<1>1. /\ at \in [Requests -> Places] /\ at[r] = "queued"
      /\ at' = [at EXCEPT ![r] = "engine"] /\ "engine" \in Places
      /\ permits' = permits - 1 /\ waiting' = waiting
      /\ waiting \in Nat /\ permits \in Nat /\ permits > 0
  BY DEF QueueInv, QueueTypeOK, Acquire, Places
<1>2. QueueTypeOK'
  <2>1. Tail(line) \in Seq(Requests)
    BY HeadTailProperties DEF QueueInv, QueueTypeOK, Acquire
  <2> QED
    BY <1>1, <2>1 DEF QueueInv, QueueTypeOK, Acquire
<1>3. /\ IsChecked(at[r]) = 0 /\ IsQueued(at[r]) = 1 /\ IsHolder(at[r]) = 0
      /\ IsQueued("engine") = 0 /\ IsHolder("engine") = 1
  BY <1>1, WorthAt
<1>4. /\ permits' = permits + IsHolder(at[r]) - IsHolder("engine")
      /\ waiting' = waiting + IsQueued("engine") + IsHolder("engine")
                    - IsQueued(at[r]) - IsHolder(at[r])
      /\ waiting' <= waiting + IsChecked(at[r])
  BY <1>1, <1>3
<1> QED
  BY <1>1, <1>2, <1>4, MoveInv

\* A call that holds a permit ends and gives it back.
LEMMA ReturnInv ==
    ASSUME QueueInv, NEW r \in Requests, NEW p \in Over,
           at[r] \in {"engine", "thread"}, ReturnWithPermit(r, p),
           stream' \in [Requests -> BOOLEAN], thread' \in [Requests -> BOOLEAN],
           max_waiting' \in Limits, line' \in Seq(Requests)
    PROVE  QueueInv'
<1>1. /\ at \in [Requests -> Places] /\ p \in Places /\ p # "checked"
      /\ at' = [at EXCEPT ![r] = p]
      /\ permits' = permits + 1 /\ waiting' = waiting - 1
      /\ waiting \in Nat /\ permits \in Nat
  BY DEF QueueInv, QueueTypeOK, ReturnWithPermit, Places, Over
<1>2. QueueTypeOK'
  <2>1. NHolders(at) > 0 /\ NHolders(at) \in Nat /\ NQueued(at) \in Nat
    BY <1>1, PlacesMoved
  <2>2. waiting' \in Nat
    BY <1>1, <2>1, Counts DEF QueueInv, GuardsConserved
  <2>3. at' \in [Requests -> Places] /\ permits' \in Nat
    BY <1>1
  <2> QED
    BY <2>2, <2>3 DEF QueueTypeOK
<1>3. /\ IsChecked(at[r]) = 0 /\ IsQueued(at[r]) = 0 /\ IsHolder(at[r]) = 1
      /\ IsQueued(p) = 0 /\ IsHolder(p) = 0
  BY WorthAt
<1>4. /\ permits' = permits + IsHolder(at[r]) - IsHolder(p)
      /\ waiting' = waiting + IsQueued(p) + IsHolder(p)
                    - IsQueued(at[r]) - IsHolder(at[r])
      /\ waiting' <= waiting + IsChecked(at[r])
  BY <1>1, <1>3
<1> QED
  BY <1>1, <1>2, <1>4, MoveInv

\* A call of generate goes on to await its thread and keeps what it holds; the
\* call of generate_stream returns.
LEMMA StartThreadInv ==
    ASSUME QueueInv, NEW r \in Requests, StartThread(r)
    PROVE  QueueInv'
<1>1. /\ at \in [Requests -> Places] /\ at[r] = "engine"
      /\ stream' \in [Requests -> BOOLEAN] /\ thread' \in [Requests -> BOOLEAN]
      /\ max_waiting' \in Limits /\ line' \in Seq(Requests)
      /\ waiting \in Nat /\ permits \in Nat
      /\ "served" \in Over /\ "thread" \in Places
  BY DEF QueueInv, QueueTypeOK, StartThread, Over, Places
<1>2. CASE stream[r]
  BY <1>1, <1>2, ReturnInv DEF StartThread
<1>3. CASE ~stream[r]
  <2>1. /\ at' = [at EXCEPT ![r] = "thread"]
        /\ permits' = permits /\ waiting' = waiting
    BY <1>3 DEF StartThread
  <2>2. QueueTypeOK'
    BY <1>1, <2>1 DEF QueueTypeOK
  <2>3. /\ IsChecked(at[r]) = 0 /\ IsQueued(at[r]) = 0 /\ IsHolder(at[r]) = 1
        /\ IsQueued("thread") = 0 /\ IsHolder("thread") = 1
    BY <1>1, WorthAt
  <2>4. /\ permits' = permits + IsHolder(at[r]) - IsHolder("thread")
        /\ waiting' = waiting + IsQueued("thread") + IsHolder("thread")
                      - IsQueued(at[r]) - IsHolder(at[r])
        /\ waiting' <= waiting + IsChecked(at[r])
    BY <1>1, <2>1, <2>3
  <2> QED
    BY <1>1, <2>1, <2>2, <2>4, MoveInv
<1> QED
  BY <1>2, <1>3

\* A dropped call gives back exactly what it holds.
LEMMA CancelInv ==
    ASSUME QueueInv, NEW r \in Requests, Cancel(r)
    PROVE  QueueInv'
<1>1. /\ at \in [Requests -> Places] /\ line \in Seq(Requests)
      /\ stream' \in [Requests -> BOOLEAN] /\ thread' \in [Requests -> BOOLEAN]
      /\ max_waiting' \in Limits /\ waiting \in Nat /\ permits \in Nat
      /\ "dropped" \in Over /\ "dropped" \in Places
  BY DEF QueueInv, QueueTypeOK, Cancel, Over, Places
<1>2. CASE at[r] = "queued"
  <2>1. /\ at' = [at EXCEPT ![r] = "dropped"]
        /\ permits' = permits /\ waiting' = waiting - 1
    BY <1>2 DEF Cancel
  <2>2. QueueTypeOK'
    <3>1. NQueued(at) > 0 /\ NQueued(at) \in Nat /\ NHolders(at) \in Nat
      BY <1>1, <1>2, PlacesMoved
    <3>2. waiting' \in Nat
      <4>1. waiting = NQueued(at) + NHolders(at)
        BY <1>1, Counts DEF QueueInv, GuardsConserved
      <4> QED
        BY <2>1, <3>1, <4>1
    <3>3. line' \in Seq(Requests)
      <4>1. PICK i \in DOMAIN line :
              line' = SubSeq(line, 1, i - 1) \o SubSeq(line, i + 1, Len(line))
        BY <1>2 DEF Cancel
      <4> QED
        BY <1>1, <4>1, RemoveType
    <3> QED
      BY <1>1, <2>1, <3>2, <3>3 DEF QueueTypeOK
  <2>3. /\ IsChecked(at[r]) = 0 /\ IsQueued(at[r]) = 1 /\ IsHolder(at[r]) = 0
        /\ IsQueued("dropped") = 0 /\ IsHolder("dropped") = 0
    BY <1>1, <1>2, WorthAt
  <2>4. /\ permits' = permits + IsHolder(at[r]) - IsHolder("dropped")
        /\ waiting' = waiting + IsQueued("dropped") + IsHolder("dropped")
                      - IsQueued(at[r]) - IsHolder(at[r])
        /\ waiting' <= waiting + IsChecked(at[r])
    BY <1>1, <2>1, <2>3
  <2> QED
    BY <1>1, <2>1, <2>2, <2>4, MoveInv
<1>3. CASE at[r] \in {"engine", "thread"}
  BY <1>1, <1>3, ReturnInv DEF Cancel
<1> QED
  BY <1>2, <1>3 DEF Cancel

\* Every step keeps QueueInv, action by action.
LEMMA QueueNextInv == QueueInv /\ [QueueNext]_qvars => QueueInv'
<1> SUFFICES ASSUME QueueInv, [QueueNext]_qvars PROVE QueueInv'
  OBVIOUS
<1>1. ASSUME NEW r \in Requests, NEW s \in BOOLEAN, Call(r, s) PROVE QueueInv'
  BY <1>1, CallInv
<1>2. ASSUME NEW r \in Requests, Enqueue(r) PROVE QueueInv'
  BY <1>2, EnqueueInv
<1>3. ASSUME NEW r \in Requests, Acquire(r) PROVE QueueInv'
  BY <1>3, AcquireInv
<1>4. ASSUME NEW r \in Requests, StartThread(r) PROVE QueueInv'
  BY <1>4, StartThreadInv
<1>5. ASSUME NEW r \in Requests, LoadFails(r) PROVE QueueInv'
  <2>1. "failed" \in Over
    BY DEF Over
  <2> QED
    BY <1>5, <2>1, ReturnInv DEF LoadFails, QueueInv, QueueTypeOK
<1>6. ASSUME NEW r \in Requests, Return(r) PROVE QueueInv'
  <2>1. PICK p \in {"served", "failed"} : ReturnWithPermit(r, p)
    BY <1>6 DEF Return
  <2>2. p \in Over
    BY DEF Over
  <2> QED
    BY <1>6, <2>1, <2>2, ReturnInv DEF Return, QueueInv, QueueTypeOK
<1>7. ASSUME NEW r \in Requests, ThreadEnds(r) PROVE QueueInv'
  <2>1. QueueTypeOK'
    BY <1>7 DEF QueueInv, QueueTypeOK, ThreadEnds
  <2> QED
    BY <1>7, <2>1 DEF QueueInv, ThreadEnds, GuardsConserved, OvershootBounded,
       Checked, Queued, Holders, Parallel
<1>8. ASSUME NEW r \in Requests, Cancel(r) PROVE QueueInv'
  BY <1>8, CancelInv
<1>9. ASSUME NEW n \in Limits, set_max_waiting(n) PROVE QueueInv'
  BY <1>9 DEF set_max_waiting, QueueInv, QueueTypeOK, GuardsConserved,
     OvershootBounded, Checked, Queued, Holders, Parallel
<1>10. CASE UNCHANGED qvars
  BY <1>10 DEF qvars, QueueInv, QueueTypeOK, GuardsConserved, OvershootBounded,
     Checked, Queued, Holders, Parallel
<1> QED
  BY <1>1, <1>2, <1>3, <1>4, <1>5, <1>6, <1>7, <1>8, <1>9, <1>10
  DEF QueueNext, QueueStep

\* However calls end, the free and the held permits are max_parallel (1 at
\* least), the waiting counter counts exactly the calls in the queue, and it
\* never passes the greatest limit configured by more than Workers - 1.
THEOREM GuardsAreConserved ==
    QueueSpec => [](QueueTypeOK /\ GuardsConserved /\ OvershootBounded)
<1>1. QueueInit => QueueInv
  BY QueueInitInv
<1>2. QueueInv /\ [QueueNext]_qvars => QueueInv'
  BY QueueNextInv
<1> QED
  BY <1>1, <1>2, PTL DEF QueueSpec, QueueInv

-----------------------------------------------------------------------------
\* A thread runs for a call that awaits it, which holds a permit, unless the call is a
\* stream or was dropped.
Awaited ==
    \A r \in Requests : thread[r] => stream[r] \/ at[r] \in {"thread", "dropped"}

\* That stays so: generate returns only when its thread is over.
LEMMA AwaitedNext ==
    ASSUME QueueTypeOK, Awaited, [QueueNext]_qvars
    PROVE  Awaited'
<1>1. ASSUME NEW r \in Requests, NEW s \in BOOLEAN, Call(r, s) PROVE Awaited'
  BY <1>1 DEF Call, Awaited, QueueTypeOK
<1>2. ASSUME NEW r \in Requests, QueueStep(r) PROVE Awaited'
  BY <1>2 DEF QueueStep, Enqueue, Acquire, StartThread, LoadFails, Return,
     ReturnWithPermit, Awaited, QueueTypeOK
<1>3. ASSUME NEW r \in Requests, ThreadEnds(r) PROVE Awaited'
  BY <1>3 DEF ThreadEnds, Awaited, QueueTypeOK
<1>4. ASSUME NEW n \in Limits, set_max_waiting(n) PROVE Awaited'
  BY <1>4 DEF set_max_waiting, Awaited
<1>5. CASE UNCHANGED qvars
  BY <1>5 DEF qvars, Awaited
<1>6. ASSUME NEW r \in Requests, Cancel(r) PROVE Awaited'
  BY <1>6 DEF Cancel, ReturnWithPermit, Awaited, QueueTypeOK
<1> QED
  BY <1>1, <1>2, <1>3, <1>4, <1>5, <1>6 DEF QueueNext

\* With any mix of calls, streams and disconnecting clients, the generations whose
\* callers wait for the whole answer are covered by the queue's permits: no more than
\* max_parallel of them run.
THEOREM ParallelBounded == QueueSpec => []ParallelBound
<1>1. QueueInit => Awaited
  BY DEF QueueInit, Awaited
<1>2. QueueTypeOK /\ Awaited /\ [QueueNext]_qvars => Awaited'
  BY AwaitedNext
<1>3. QueueTypeOK /\ GuardsConserved /\ Awaited => ParallelBound
  <2> SUFFICES ASSUME QueueTypeOK, GuardsConserved, Awaited PROVE ParallelBound
    OBVIOUS
  <2> DEFINE W == { r \in Threads : ~stream[r] /\ at[r] # "dropped" }
  <2>1. W \subseteq Holders /\ Holders \subseteq Requests
    BY DEF Awaited, Threads, Holders
  <2>2. /\ IsFiniteSet(Holders) /\ Cardinality(W) <= Cardinality(Holders)
        /\ IsFiniteSet(W)
    BY <2>1, FS_Subset, InferenceQueueConstants
  <2>3. Cardinality(W) \in Nat /\ Cardinality(Holders) \in Nat
    BY <2>2, FS_CardinalityType
  <2>4. permits \in Nat /\ permits + Cardinality(Holders) = Parallel
    BY DEF QueueTypeOK, GuardsConserved
  <2> QED
    BY <2>2, <2>3, <2>4, ParallelType DEF ParallelBound
<1> QED
  BY <1>1, <1>2, <1>3, GuardsAreConserved, PTL DEF QueueSpec

\* The same, as the property that TLC checks: the counters of the queue are
\* well-formed, and the waiting counter passes the greatest limit configured by
\* no more than the calls between check_capacity and fetch_add; max_parallel holds for
\* the callers that wait.
THEOREM AdmissionStaysBounded == QueueSpec => []AdmissionBounded
BY GuardsAreConserved, ParallelBounded, PTL DEF AdmissionBounded

-----------------------------------------------------------------------------
(* The chat handler's quotas. *)

\* A finite set and the image of a function of it.
LEMMA ImageOf ==
    ASSUME NEW S, IsFiniteSet(S), NEW T, NEW f \in [S -> T],
           \A t \in T : \E s \in S : f[s] = t
    PROVE  IsFiniteSet(T) /\ Cardinality(T) <= Cardinality(S) /\ Cardinality(T) \in Nat
<1>1. f \in Surjection(S, T)
  BY DEF Surjection
<1> QED
  BY <1>1, FS_Surjection, FS_CardinalityType

Bytes(S) == UNION { {m} \X (1 .. Size[m]) : m \in S }

\* A model has as many bytes as its size says.
LEMMA BytesOfOne ==
    ASSUME NEW m \in Models
    PROVE  /\ IsFiniteSet({m} \X (1 .. Size[m]))
           /\ Cardinality({m} \X (1 .. Size[m])) = Size[m] /\ Size[m] \in Nat
<1>1. Size[m] \in Nat
  BY ChatConstants
<1>2. IsFiniteSet(1 .. Size[m]) /\ Cardinality(1 .. Size[m]) = Size[m]
  <2> DEFINE n == Size[m]
  <2>1. n \in Nat /\ 1 \in Int /\ n \in Int
    BY <1>1
  <2> HIDE DEF n
  <2>2. IsFiniteSet(1 .. n) /\ Cardinality(1 .. n) = IF 1 > n THEN 0 ELSE n - 1 + 1
    BY <2>1, FS_Interval, ZenonT(30)
  <2>3. Cardinality(1 .. n) = n
    BY <2>1, <2>2
  <2> QED
    BY <2>2, <2>3 DEF n
<1>3. IsFiniteSet({m}) /\ Cardinality({m}) = 1
  BY FS_Singleton
<1>4. /\ IsFiniteSet({m} \X (1 .. Size[m]))
      /\ Cardinality({m} \X (1 .. Size[m])) = 1 * Size[m]
  <2> DEFINE A == {m}
             B == 1 .. Size[m]
  <2>1. IsFiniteSet(A) /\ IsFiniteSet(B) /\ Cardinality(A) = 1 /\ Cardinality(B) = Size[m]
    BY <1>2, <1>3
  <2> HIDE DEF A, B
  <2>2. IsFiniteSet(A \X B) /\ Cardinality(A \X B) = Cardinality(A) * Cardinality(B)
    BY <2>1, FS_Product, Zenon
  <2> QED
    BY <2>1, <2>2, Zenon DEF A, B
<1> QED
  BY <1>1, <1>4

\* A set of models has finitely many bytes.
LEMMA BytesFinite ==
    ASSUME NEW S \in SUBSET Models
    PROVE  IsFiniteSet(Bytes(S)) /\ memory_bytes(S) \in Nat
<1>1. IsFiniteSet(S)
  BY ChatConstants, FS_Subset
<1> DEFINE f == [m \in S |-> {m} \X (1 .. Size[m])]
           T == { {m} \X (1 .. Size[m]) : m \in S }
<1>2. f \in [S -> T] /\ \A t \in T : \E m \in S : f[m] = t
  OBVIOUS
<1>3. \A t \in T : IsFiniteSet(t)
  BY BytesOfOne
<1> HIDE DEF f, T
<1>4. IsFiniteSet(T)
  BY <1>1, <1>2, ImageOf
<1>5. IsFiniteSet(UNION T)
  BY <1>3, <1>4, FS_UNION
<1> QED
  BY <1>5, FS_CardinalityType DEF T, Bytes, memory_bytes

\* Fewer models need no more memory, and one more needs its size.
LEMMA MemoryMonotone ==
    ASSUME NEW S \in SUBSET Models, NEW T \in SUBSET S
    PROVE  memory_bytes(T) <= memory_bytes(S)
<1>1. Bytes(T) \subseteq Bytes(S)
  BY DEF Bytes
<1>2. IsFiniteSet(Bytes(S))
  BY BytesFinite
<1> QED
  BY <1>1, <1>2, FS_Subset DEF Bytes, memory_bytes

\* A model that was not active adds its size.
LEMMA MemoryAdds ==
    ASSUME NEW S \in SUBSET Models, NEW m \in Models, m \notin S
    PROVE  memory_bytes(S \cup {m}) = memory_bytes(S) + Size[m]
<1> DEFINE One == {m} \X (1 .. Size[m])
<1>1. IsFiniteSet(One) /\ Cardinality(One) = Size[m] /\ Size[m] \in Nat
  BY BytesOfOne
<1>2. IsFiniteSet(Bytes(S)) /\ memory_bytes(S) \in Nat
  BY BytesFinite
<1>3. Bytes(S \cup {m}) = Bytes(S) \cup One
  BY DEF Bytes
<1>4. Bytes(S) \cap One = {}
  <2>1. \A b \in One : b[1] = m
    OBVIOUS
  <2>2. \A b \in Bytes(S) : b[1] \in S
    BY DEF Bytes
  <2> QED
    BY <2>1, <2>2
<1> HIDE DEF One
<1>5. Cardinality(Bytes(S) \cup One) =
        Cardinality(Bytes(S)) + Cardinality(One) - Cardinality(Bytes(S) \cap One)
  BY <1>1, <1>2, FS_Union
<1>6. Cardinality(Bytes(S) \cap One) = 0
  BY <1>4, FS_EmptySet
<1>7. memory_bytes(S) = Cardinality(Bytes(S))
  BY DEF Bytes, memory_bytes
<1>8. memory_bytes(S \cup {m}) = Cardinality(Bytes(S) \cup One)
  <2>1. memory_bytes(S \cup {m}) = Cardinality(Bytes(S \cup {m}))
    BY DEF Bytes, memory_bytes
  <2> QED
    BY <1>3, <2>1, Zenon
<1>9. Cardinality(Bytes(S) \cup One) = memory_bytes(S) + Size[m]
  BY <1>1, <1>2, <1>5, <1>6, <1>7
<1> QED
  BY <1>8, <1>9, Zenon

\* What acquire does to the counts of a workspace.
LEMMA AcquireUsage ==
    ASSUME NEW u \in Usage, NEW m \in Models
    PROVE  /\ acquire(u, m) \in Usage
           /\ acquire(u, m).concurrent = u.concurrent + 1
           /\ \A k \in Models : acquire(u, m).active[k] = IF k = m THEN u.active[k] + 1
                                                          ELSE u.active[k]
           /\ u.concurrent \in Nat /\ u.active \in [Models -> Nat]
<1> DEFINE a == [u.active EXCEPT ![m] = @ + 1]
<1>1. u.concurrent \in Nat /\ u.active \in [Models -> Nat]
  BY DEF Usage
<1>2. /\ a \in [Models -> Nat]
      /\ \A k \in Models : a[k] = IF k = m THEN u.active[k] + 1 ELSE u.active[k]
  BY <1>1
<1>3. acquire(u, m) = [u EXCEPT !.concurrent = @ + 1, !.active = a]
  BY DEF acquire, Usage
<1> HIDE DEF a
<1> DEFINE x == [concurrent |-> u.concurrent + 1, active |-> a]
<1>4. x \in Usage /\ x.active = a /\ x.concurrent = u.concurrent + 1
  BY <1>1, <1>2 DEF Usage
<1>5. acquire(u, m) = x
  BY <1>3 DEF Usage
<1> HIDE DEF x
<1> QED
  BY <1>1, <1>2, <1>4, <1>5

\* What release does to the counts of a workspace.
LEMMA ReleaseUsage ==
    ASSUME NEW u \in Usage, NEW m \in Models
    PROVE  /\ release(u, m) \in Usage
           /\ release(u, m).concurrent = SaturatingDec(u.concurrent)
           /\ \A k \in Models : release(u, m).active[k] = IF k = m THEN SaturatingDec(u.active[k])
                                                          ELSE u.active[k]
           /\ u.concurrent \in Nat /\ u.active \in [Models -> Nat]
<1>1. \A n \in Nat : SaturatingDec(n) \in Nat
  BY DEF SaturatingDec
<1> QED
  BY <1>1 DEF Usage, release

\* A request that has a share of its workspace's quota: its handler runs, or
\* the task that gives the share back has not run yet.
Holds(r)    == chat[r] \in Running \/ r \in releasing
Held(w)     == { r \in Requests : ws[r] = w /\ Holds(r) }
HeldOf(w, m) == { r \in Requests : ws[r] = w /\ model[r] = m /\ Holds(r) }

WithinLimits(w) ==
    /\ usage[w].concurrent <= Quota[w].concurrent
    /\ Cardinality(ActiveModels(usage[w])) <= Quota[w].models
    /\ memory_bytes(ActiveModels(usage[w])) <= Quota[w].memory

\* The books: a share is given back once, after the handler has ended, and the
\* counts of a workspace are those of its shares.
Accounts ==
    /\ \A r \in releasing : chat[r] \in Ended
    /\ \A w \in Workspaces :
         /\ usage[w].concurrent = Cardinality(Held(w))
         /\ \A m \in Models : usage[w].active[m] = Cardinality(HeldOf(w, m))
         /\ WithinLimits(w)

ChatInv == QueueInv /\ ChatTypeOK /\ Accounts

\* A handler is at one kind of place at a time.
LEMMA Disjoint == Ended \cap Running = {} /\ "admitted" \notin Ended \cup Running
BY DEF Ended, Running

\* The requests with a share can be counted.
LEMMA HeldFinite ==
    ASSUME NEW w, NEW m
    PROVE  /\ IsFiniteSet(Held(w)) /\ Cardinality(Held(w)) \in Nat
           /\ IsFiniteSet(HeldOf(w, m)) /\ Cardinality(HeldOf(w, m)) \in Nat
<1>1. Held(w) \subseteq Requests /\ HeldOf(w, m) \subseteq Requests
  BY DEF Held, HeldOf
<1> QED
  BY <1>1, InferenceQueueConstants, FS_Subset, FS_CardinalityType

\* A step that gives and takes no share.
LEMMA SameShares ==
    ASSUME Accounts, usage' = usage, \A r \in releasing' : chat'[r] \in Ended,
           \A r \in Requests : /\ Holds(r)' <=> Holds(r)
                               /\ Holds(r) => ws'[r] = ws[r] /\ model'[r] = model[r]
    PROVE  Accounts'
<1>1. ASSUME NEW w PROVE Held(w)' = Held(w)
  BY DEF Held
<1>2. ASSUME NEW w, NEW m PROVE HeldOf(w, m)' = HeldOf(w, m)
  BY DEF HeldOf
<1>3. \A w \in Workspaces : WithinLimits(w)'
  BY DEF Accounts, WithinLimits, ActiveModels
<1> QED
  BY <1>1, <1>2, <1>3 DEF Accounts

\* A share is taken where the three limits leave room for it.
LEMMA TakeQuotaAccounts ==
    ASSUME ChatInv, NEW r \in Requests, TakeQuota(r)
    PROVE  Accounts' /\ usage' \in [Workspaces -> Usage]
<1>1. /\ ws[r] \in Workspaces /\ model[r] \in Models /\ usage \in [Workspaces -> Usage]
      /\ chat \in [Requests -> Ended \cup Running \cup {"admitted"}]
  BY DEF ChatInv, ChatTypeOK
<1>7. PICK v \in Workspaces, k \in Models : v = ws[r] /\ k = model[r]
  BY <1>1
<1>2. chat[r] = "admitted" /\ ~Holds(r)
  BY Disjoint DEF TakeQuota, Holds, ChatInv, Accounts
<1>3. UNCHANGED << ws, model, releasing >>
  BY DEF TakeQuota
<1>4. \A q \in releasing' : q # r /\ q \in releasing
  BY <1>2, <1>3 DEF Holds
<1>5. CASE ~WithinQuota(usage[v], Quota[v], k)
  <2>1. usage' = usage /\ chat' = [chat EXCEPT ![r] = "refused"]
    BY <1>5, <1>7 DEF TakeQuota
  <2>2. "refused" \in Ended
    BY DEF Ended
  <2>3. \A q \in Requests : Holds(q)' <=> Holds(q)
    BY <1>1, <1>2, <1>3, <2>1, <2>2, Disjoint DEF Holds
  <2>4. \A q \in releasing' : chat'[q] \in Ended
    BY <1>1, <1>4, <2>1 DEF ChatInv, Accounts, ChatTypeOK
  <2> QED
    BY <1>1, <1>3, <2>1, <2>3, <2>4, SameShares DEF ChatInv
<1>6. CASE WithinQuota(usage[v], Quota[v], k)
  <2> DEFINE u == acquire(usage[v], k)
  <2>1. usage' = [usage EXCEPT ![v] = u] /\ chat' = [chat EXCEPT ![r] = "holding"]
    BY <1>6, <1>7 DEF TakeQuota
  <2>2. /\ u \in Usage /\ u.concurrent = usage[v].concurrent + 1
        /\ \A m \in Models : u.active[m] = IF m = k THEN usage[v].active[m] + 1
                                           ELSE usage[v].active[m]
        /\ usage[v].concurrent \in Nat /\ usage[v].active \in [Models -> Nat]
    BY <1>1, AcquireUsage
  <2> HIDE DEF u
  <2>3. /\ usage' \in [Workspaces -> Usage] /\ usage'[v] = u
        /\ \A w \in Workspaces : w # v => usage'[w] = usage[w]
    BY <1>1, <2>1, <2>2
  <2>4. Holds(r)' /\ \A q \in Requests : q # r => (Holds(q)' <=> Holds(q))
    BY <1>1, <1>3, <2>1 DEF Holds, Running
  <2>5. \A q \in releasing' : chat'[q] \in Ended
    BY <1>1, <1>4, <2>1 DEF ChatInv, Accounts, ChatTypeOK
  <2>6. Held(v)' = Held(v) \cup {r} /\ r \notin Held(v)
    BY <1>2, <1>3, <1>7, <2>4 DEF Held
  <2>7. Cardinality(Held(v)') = Cardinality(Held(v)) + 1
    BY <2>6, HeldFinite, FS_AddElement
  <2>8. \A w \in Workspaces : w # v => Held(w)' = Held(w)
    BY <1>2, <1>3, <1>7, <2>4 DEF Held
  <2>9. HeldOf(v, k)' = HeldOf(v, k) \cup {r} /\ r \notin HeldOf(v, k)
    BY <1>2, <1>3, <1>7, <2>4 DEF HeldOf
  <2>10. Cardinality(HeldOf(v, k)') = Cardinality(HeldOf(v, k)) + 1
    BY <2>9, HeldFinite, FS_AddElement
  <2>11. \A w \in Workspaces, m \in Models : w # v \/ m # k => HeldOf(w, m)' = HeldOf(w, m)
    BY <1>2, <1>3, <1>7, <2>4 DEF HeldOf
  <2>12. ASSUME NEW w \in Workspaces
         PROVE  /\ usage'[w].concurrent = Cardinality(Held(w)')
                /\ \A m \in Models : usage'[w].active[m] = Cardinality(HeldOf(w, m)')
    <3>1. CASE w # v
      BY <2>3, <2>8, <2>11, <3>1 DEF ChatInv, Accounts
    <3>2. CASE w = v
      <4>1. usage'[v].concurrent = Cardinality(Held(v)')
        BY <1>1, <2>2, <2>3, <2>7 DEF ChatInv, Accounts
      <4>2. ASSUME NEW m \in Models PROVE usage'[v].active[m] = Cardinality(HeldOf(v, m)')
        <5>1. CASE m = k
          BY <1>1, <2>2, <2>3, <2>10, <5>1 DEF ChatInv, Accounts
        <5>2. CASE m # k
          BY <1>1, <2>2, <2>3, <2>11, <5>2 DEF ChatInv, Accounts
        <5> QED
          BY <5>1, <5>2
      <4> QED
        BY <3>2, <4>1, <4>2
    <3> QED
      BY <3>1, <3>2
  <2>13. ASSUME NEW w \in Workspaces PROVE WithinLimits(w)'
    <3>1. CASE w # v
      BY <2>3, <3>1 DEF ChatInv, Accounts, WithinLimits, ActiveModels
    <3>2. CASE w = v
      <4> DEFINE A == ActiveModels(usage[v])
      <4>1. ActiveModels(u) = A \cup {k} /\ A \subseteq Models
        BY <1>1, <2>2 DEF ActiveModels
      <4>2. /\ usage[v].concurrent < Quota[v].concurrent
            /\ k \notin A => /\ Cardinality(A) < Quota[v].models
                             /\ memory_bytes(A) + Size[k] <= Quota[v].memory
        BY <1>6 DEF WithinQuota
      <4>3. /\ Quota[v].concurrent \in Nat /\ Quota[v].models \in Nat
            /\ Quota[v].memory \in Nat
        BY <1>1, ChatConstants DEF QuotaKind
      <4>4. Cardinality(A) <= Quota[v].models /\ memory_bytes(A) <= Quota[v].memory
        BY <1>1 DEF ChatInv, Accounts, WithinLimits
      <4> HIDE DEF A
      <4>5. CASE k \in A
        <5>1. ActiveModels(u) = A
          BY <4>1, <4>5
        <5> QED
          BY <2>2, <2>3, <3>2, <4>2, <4>3, <4>4, <5>1 DEF WithinLimits
      <4>6. CASE k \notin A
        <5>1. IsFiniteSet(A) /\ Cardinality(A) \in Nat
          BY <4>1, ChatConstants, FS_Subset, FS_CardinalityType
        <5>2. Cardinality(A \cup {k}) = Cardinality(A) + 1
          BY <4>6, <5>1, FS_AddElement
        <5>3. memory_bytes(A \cup {k}) = memory_bytes(A) + Size[k]
          BY <1>1, <4>1, <4>6, MemoryAdds
        <5>4. Cardinality(ActiveModels(u)) <= Quota[v].models
          BY <4>1, <4>2, <4>3, <4>6, <5>1, <5>2
        <5>5. memory_bytes(ActiveModels(u)) <= Quota[v].memory
          <6>1. memory_bytes(ActiveModels(u)) = memory_bytes(A \cup {k})
            BY <4>1, Zenon
          <6> QED
            BY <4>2, <4>6, <5>3, <6>1
        <5> QED
          BY <2>2, <2>3, <3>2, <4>2, <4>3, <5>4, <5>5 DEF WithinLimits
      <4> QED
        BY <4>5, <4>6
    <3> QED
      BY <3>1, <3>2
  <2> QED
    BY <2>3, <2>5, <2>12, <2>13 DEF Accounts
<1> QED
  BY <1>5, <1>6

\* A share is given back once, so no count meets zero.
LEMMA ReleaseAccounts ==
    ASSUME ChatInv, NEW r \in Requests, Release(r)
    PROVE  Accounts' /\ usage' \in [Workspaces -> Usage]
<1>1. /\ ws[r] \in Workspaces /\ model[r] \in Models /\ usage \in [Workspaces -> Usage]
  BY DEF ChatInv, ChatTypeOK
<1>2. PICK v \in Workspaces, k \in Models : v = ws[r] /\ k = model[r]
  BY <1>1
<1>3. r \in releasing /\ chat[r] \in Ended
  BY DEF Release, ChatInv, Accounts
<1> DEFINE u == release(usage[v], k)
<1>4. /\ usage' = [usage EXCEPT ![v] = u] /\ releasing' = releasing \ {r}
      /\ UNCHANGED << chat, ws, model >>
  BY <1>2 DEF Release
<1>5. /\ u \in Usage /\ u.concurrent = SaturatingDec(usage[v].concurrent)
      /\ \A m \in Models : u.active[m] = IF m = k THEN SaturatingDec(usage[v].active[m])
                                         ELSE usage[v].active[m]
      /\ usage[v].concurrent \in Nat /\ usage[v].active \in [Models -> Nat]
  BY <1>1, ReleaseUsage
<1> HIDE DEF u
<1>6. /\ usage' \in [Workspaces -> Usage] /\ usage'[v] = u
      /\ \A w \in Workspaces : w # v => usage'[w] = usage[w]
  BY <1>1, <1>4, <1>5
<1>7. /\ Holds(r) /\ ~Holds(r)' /\ \A q \in Requests : q # r => (Holds(q)' <=> Holds(q))
  BY <1>3, <1>4, Disjoint DEF Holds
<1>8. \A q \in releasing' : chat'[q] \in Ended
  BY <1>4 DEF ChatInv, Accounts
<1>9. Held(v)' = Held(v) \ {r} /\ r \in Held(v)
  BY <1>2, <1>4, <1>7 DEF Held
<1>10. Cardinality(Held(v)') = Cardinality(Held(v)) - 1
  BY <1>9, HeldFinite, FS_RemoveElement
<1>11. \A w \in Workspaces : w # v => Held(w)' = Held(w)
  BY <1>2, <1>4, <1>7 DEF Held
<1>12. HeldOf(v, k)' = HeldOf(v, k) \ {r} /\ r \in HeldOf(v, k)
  BY <1>2, <1>4, <1>7 DEF HeldOf
<1>13. Cardinality(HeldOf(v, k)') = Cardinality(HeldOf(v, k)) - 1
  BY <1>12, HeldFinite, FS_RemoveElement
<1>14. \A w \in Workspaces, m \in Models : w # v \/ m # k => HeldOf(w, m)' = HeldOf(w, m)
  BY <1>2, <1>4, <1>7 DEF HeldOf
<1>15. Cardinality(Held(v)) # 0 /\ Cardinality(HeldOf(v, k)) # 0
  BY <1>9, <1>12, HeldFinite, FS_EmptySet
<1>16. ASSUME NEW w \in Workspaces
       PROVE  /\ usage'[w].concurrent = Cardinality(Held(w)')
              /\ \A m \in Models : usage'[w].active[m] = Cardinality(HeldOf(w, m)')
  <2>1. CASE w # v
    BY <1>6, <1>11, <1>14, <2>1 DEF ChatInv, Accounts
  <2>2. CASE w = v
    <3>1. usage'[v].concurrent = Cardinality(Held(v)')
      BY <1>5, <1>6, <1>10, <1>15 DEF ChatInv, Accounts, SaturatingDec
    <3>2. ASSUME NEW m \in Models PROVE usage'[v].active[m] = Cardinality(HeldOf(v, m)')
      <4>1. CASE m = k
        BY <1>5, <1>6, <1>13, <1>15, <4>1 DEF ChatInv, Accounts, SaturatingDec
      <4>2. CASE m # k
        BY <1>5, <1>6, <1>14, <4>2 DEF ChatInv, Accounts
      <4> QED
        BY <4>1, <4>2
    <3> QED
      BY <2>2, <3>1, <3>2
  <2> QED
    BY <2>1, <2>2
<1>17. ASSUME NEW w \in Workspaces PROVE WithinLimits(w)'
  <2>1. CASE w # v
    BY <1>6, <2>1 DEF ChatInv, Accounts, WithinLimits, ActiveModels
  <2>2. CASE w = v
    <3> DEFINE A == ActiveModels(usage[v])
               B == ActiveModels(u)
    <3>1. B \subseteq A /\ A \subseteq Models
      BY <1>5 DEF ActiveModels, SaturatingDec
    <3>2. /\ usage[v].concurrent <= Quota[v].concurrent
          /\ Cardinality(A) <= Quota[v].models /\ memory_bytes(A) <= Quota[v].memory
      BY DEF ChatInv, Accounts, WithinLimits
    <3>3. /\ Quota[v].concurrent \in Nat /\ Quota[v].models \in Nat
          /\ Quota[v].memory \in Nat
      BY ChatConstants DEF QuotaKind
    <3> HIDE DEF A, B
    <3>4. /\ IsFiniteSet(A) /\ Cardinality(A) \in Nat
          /\ Cardinality(B) \in Nat /\ Cardinality(B) <= Cardinality(A)
      BY <3>1, ChatConstants, FS_Subset, FS_CardinalityType
    <3>5. /\ memory_bytes(A) \in Nat /\ memory_bytes(B) \in Nat
          /\ memory_bytes(B) <= memory_bytes(A)
      BY <3>1, BytesFinite, MemoryMonotone
    <3>6. /\ u.concurrent <= Quota[v].concurrent /\ Cardinality(B) <= Quota[v].models
          /\ memory_bytes(B) <= Quota[v].memory
      BY <1>5, <3>2, <3>3, <3>4, <3>5 DEF SaturatingDec
    <3> QED
      BY <1>6, <2>2, <3>6 DEF WithinLimits, B
  <2> QED
    BY <2>1, <2>2
<1> QED
  BY <1>6, <1>8, <1>16, <1>17 DEF Accounts

\* The steps of a handler that keeps its share or has none, and its end.
LEMMA MovesAccounts ==
    ASSUME ChatInv, NEW r \in Requests, NEW p, chat' = [chat EXCEPT ![r] = p],
           UNCHANGED << ws, model, usage >>,
           \/ chat[r] \in Running /\ p \in Running /\ releasing' = releasing
           \/ chat[r] \in Running /\ p \in Ended /\ releasing' = releasing \cup {r}
           \/ chat[r] = "admitted" /\ p \in Ended /\ releasing' = releasing
    PROVE  Accounts' /\ chat' \in [Requests -> Ended \cup Running \cup {"admitted"}]
                     /\ releasing' \subseteq Requests
<1>1. /\ chat \in [Requests -> Ended \cup Running \cup {"admitted"}]
      /\ releasing \subseteq Requests
  BY DEF ChatInv, ChatTypeOK
<1>2. /\ chat'[r] = p /\ \A q \in Requests : q # r => chat'[q] = chat[q]
      /\ p \in Ended \cup Running
  BY <1>1
<1>3. r \notin releasing /\ \A q \in releasing : chat[q] \in Ended
  BY Disjoint DEF ChatInv, Accounts
<1>4. \A q \in releasing' : chat'[q] \in Ended
  BY <1>1, <1>2, <1>3, Disjoint
<1>5. \A q \in Requests : Holds(q)' <=> Holds(q)
  BY <1>2, <1>3, Disjoint DEF Holds
<1> QED
  BY <1>1, <1>2, <1>4, <1>5, SameShares DEF ChatInv

\* A step of the chat handler is one of the queue, or leaves it alone.
LEMMA StepOfQueue == [ChatNext]_vars => [QueueNext]_qvars
<1>1. ASSUME NEW r \in Requests, HandlerStep(r) PROVE [QueueNext]_qvars
  BY <1>1 DEF HandlerStep, TakeQuota, LogStart, CallEngine, InEngine, Complete, Answer,
     StartBody, BodyEnds, QueueNext
<1>2. ASSUME NEW r \in Requests,
             Admit(r) \/ PrepareEnds(r) \/ CallAside(r) \/ Disconnect(r) \/ Release(r)
                      \/ GenerationEnds(r)
      PROVE  [QueueNext]_qvars
  BY <1>2 DEF Admit, PrepareEnds, CallAside, Disconnect, Release, GenerationEnds, QueueNext
<1> QED
  BY <1>1, <1>2 DEF ChatNext, SetFrozen, Reload, QueueNext, vars

\* A record that was written, or failed to be, keeps the type of recs.
LEMMA RecordedTyped ==
    ASSUME ChatTypeOK, NEW r \in Requests, NEW e \in {"start", "complete", "receipt"},
           NEW rs \in Recorded(r, e), recs' = [recs EXCEPT ![r] = rs]
    PROVE  recs' \in [Requests -> SUBSET {"start", "complete", "receipt"}]
<1>1. rs \in SUBSET {"start", "complete", "receipt"}
  BY DEF Recorded, ChatTypeOK
<1> QED
  BY <1>1 DEF ChatTypeOK

\* The other steps of a handler take no share and give none back.
LEMMA HandlerAccounts ==
    ASSUME ChatInv, NEW r \in Requests,
           HandlerStep(r) \/ PrepareEnds(r) \/ Disconnect(r)
    PROVE  /\ Accounts' /\ usage' \in [Workspaces -> Usage]
           /\ chat' \in [Requests -> Ended \cup Running \cup {"admitted"}]
           /\ releasing' \subseteq Requests
           /\ recs' \in [Requests -> SUBSET {"start", "complete", "receipt"}]
           /\ UNCHANGED << ws, model, audit_frozen >>
<1>1. /\ chat \in [Requests -> Ended \cup Running \cup {"admitted"}]
      /\ releasing \subseteq Requests /\ usage \in [Workspaces -> Usage]
      /\ recs \in [Requests -> SUBSET {"start", "complete", "receipt"}]
  BY DEF ChatInv, ChatTypeOK
<1>2. {"refused", "answered", "gone"} \subseteq Ended
      /\ {"holding", "started", "called", "completed", "body"} \subseteq Running
  BY DEF Ended, Running
<1>3. CASE TakeQuota(r)
  BY <1>1, <1>2, <1>3, TakeQuotaAccounts DEF TakeQuota
<1>4. CASE LogStart(r)
  BY <1>1, <1>2, <1>4, MovesAccounts, RecordedTyped DEF LogStart, ChatInv
<1>5. ASSUME NEW s \in BOOLEAN, CallEngine(r, s)
      PROVE  /\ Accounts' /\ chat' \in [Requests -> Ended \cup Running \cup {"admitted"}]
  BY <1>2, <1>5, MovesAccounts DEF CallEngine
<1>6. CASE InEngine(r)
  <2>1. UNCHANGED << chat, ws, model, recs, usage, releasing, audit_frozen >>
    BY <1>6 DEF InEngine, cvars
  <2>2. Accounts'
    BY <2>1, SameShares DEF ChatInv, Accounts, Holds
  <2> QED
    BY <1>1, <2>1, <2>2
<1>7. CASE Complete(r)
  <2>1. CASE End(r, "refused") /\ UNCHANGED recs
    BY <1>1, <1>2, <1>7, <2>1, MovesAccounts DEF Complete, End
  <2>2. CASE /\ \E rs \in Recorded(r, "complete") : recs' = [recs EXCEPT ![r] = rs]
             /\ chat' = [chat EXCEPT ![r] = "completed"]
             /\ UNCHANGED releasing
    BY <1>1, <1>2, <1>7, <2>2, MovesAccounts, RecordedTyped DEF Complete, ChatInv
  <2> QED
    BY <1>7, <2>1, <2>2 DEF Complete
<1>8. CASE Answer(r)
  BY <1>1, <1>2, <1>8, MovesAccounts, RecordedTyped DEF Answer, End, ChatInv
<1>9. CASE StartBody(r)
  BY <1>1, <1>2, <1>9, MovesAccounts DEF StartBody
<1>10. CASE BodyEnds(r)
  BY <1>1, <1>2, <1>10, MovesAccounts DEF BodyEnds, End
<1>11. CASE PrepareEnds(r)
  BY <1>1, <1>2, <1>11, MovesAccounts DEF PrepareEnds, End
<1>12. CASE Disconnect(r)
  <2>1. \/ /\ chat[r] = "admitted" /\ chat' = [chat EXCEPT ![r] = "gone"]
           /\ releasing' = releasing
        \/ chat[r] \in Running /\ End(r, "gone")
        \/ UNCHANGED << chat, releasing >>
    BY <1>2, <1>12 DEF Disconnect
  <2>2. CASE UNCHANGED << chat, releasing >>
    <3>1. UNCHANGED << ws, model, recs, usage, audit_frozen >>
      BY <1>12 DEF Disconnect
    <3>2. Accounts'
      BY <2>2, <3>1, SameShares DEF ChatInv, Accounts, Holds
    <3> QED
      BY <1>1, <2>2, <3>1, <3>2
  <2> QED
    BY <1>1, <1>2, <1>12, <2>1, <2>2, MovesAccounts DEF Disconnect, End
<1>13. ASSUME NEW s \in BOOLEAN, CallEngine(r, s)
       PROVE  UNCHANGED << ws, model, recs, usage, releasing, audit_frozen >>
  BY <1>13 DEF CallEngine
<1> QED
  BY <1>1, <1>3, <1>4, <1>5, <1>6, <1>7, <1>8, <1>9, <1>10, <1>11, <1>12, <1>13
     DEF HandlerStep

\* Every step keeps ChatInv, action by action.
LEMMA ChatNextInv == ChatInv /\ [ChatNext]_vars => ChatInv'
<1> SUFFICES ASSUME ChatInv, [ChatNext]_vars PROVE ChatInv'
  OBVIOUS
<1>1. QueueInv' /\ QueueTypeOK'
  BY StepOfQueue, QueueNextInv DEF ChatInv, QueueInv
<1>2. ASSUME Accounts', usage' \in [Workspaces -> Usage],
             chat' \in [Requests -> Ended \cup Running \cup {"admitted"}],
             releasing' \subseteq Requests,
             recs' \in [Requests -> SUBSET {"start", "complete", "receipt"}],
             ws' \in [Requests -> Workspaces], model' \in [Requests -> Models],
             audit_frozen' \in BOOLEAN
      PROVE  ChatInv'
  BY <1>1, <1>2 DEF ChatInv, ChatTypeOK
<1>3. /\ chat \in [Requests -> Ended \cup Running \cup {"admitted"}]
      /\ releasing \subseteq Requests /\ usage \in [Workspaces -> Usage]
      /\ recs \in [Requests -> SUBSET {"start", "complete", "receipt"}]
      /\ ws \in [Requests -> Workspaces] /\ model \in [Requests -> Models]
      /\ audit_frozen \in BOOLEAN
  BY DEF ChatInv, ChatTypeOK
<1>4. ASSUME UNCHANGED << chat, ws, model, recs, usage, releasing >>,
             audit_frozen' \in BOOLEAN
      PROVE  ChatInv'
  <2>1. Accounts'
    BY <1>4, SameShares DEF ChatInv, Accounts, Holds
  <2> QED
    BY <1>2, <1>3, <1>4, <2>1
<1>5. ASSUME NEW r \in Requests, Admit(r) PROVE ChatInv'
  <2>1. PICK w \in Workspaces, m \in Models : /\ ws' = [ws EXCEPT ![r] = w]
                                              /\ model' = [model EXCEPT ![r] = m]
    BY <1>5 DEF Admit
  <2>2. /\ chat' = [chat EXCEPT ![r] = "admitted"] /\ recs' = [recs EXCEPT ![r] = {}]
        /\ chat[r] \in Ended /\ r \notin releasing
        /\ UNCHANGED << usage, releasing, audit_frozen >>
    BY <1>5 DEF Admit
  <2>3. ~Holds(r) /\ ~Holds(r)'
    BY <1>3, <2>2, Disjoint DEF Holds
  <2>4. \A q \in Requests : q # r => /\ Holds(q)' <=> Holds(q)
                                     /\ ws'[q] = ws[q] /\ model'[q] = model[q]
    BY <1>3, <2>1, <2>2 DEF Holds
  <2>5. \A q \in releasing' : chat'[q] \in Ended
    BY <1>3, <2>2 DEF ChatInv, Accounts
  <2>6. Accounts'
    BY <2>2, <2>3, <2>4, <2>5, SameShares DEF ChatInv
  <2> QED
    BY <1>2, <1>3, <2>1, <2>2, <2>6
<1>6. ASSUME NEW r \in Requests, HandlerStep(r) \/ PrepareEnds(r) \/ Disconnect(r)
      PROVE  ChatInv'
  BY <1>2, <1>3, <1>6, HandlerAccounts
<1>7. ASSUME NEW r \in Requests, Release(r) PROVE ChatInv'
  BY <1>2, <1>3, <1>7, ReleaseAccounts DEF Release
<1>8. ASSUME NEW r \in Requests, GenerationEnds(r) PROVE ChatInv'
  BY <1>3, <1>4, <1>8 DEF GenerationEnds, cvars
<1>9. CASE SetFrozen
  BY <1>3, <1>4, <1>9 DEF SetFrozen
<1>10. CASE Reload
  BY <1>3, <1>4, <1>10 DEF Reload, cvars
<1>11. CASE UNCHANGED vars
  BY <1>3, <1>4, <1>11 DEF vars, cvars
<1>12. ASSUME NEW r \in Requests, CallAside(r) PROVE ChatInv'
  <2>1. /\ chat' = [chat EXCEPT ![r] = "aside"] /\ chat[r] \in Ended /\ "aside" \in Ended
        /\ recs' = [recs EXCEPT ![r] = {}]
        /\ UNCHANGED << ws, model, usage, releasing, audit_frozen >>
    BY <1>12 DEF CallAside, Ended
  <2>2. \A q \in Requests : Holds(q)' <=> Holds(q)
    BY <1>3, <2>1, Disjoint DEF Holds
  <2>3. \A q \in releasing' : chat'[q] \in Ended
    BY <1>3, <2>1 DEF ChatInv, Accounts
  <2>4. Accounts'
    BY <2>1, <2>2, <2>3, SameShares DEF ChatInv
  <2> QED
    BY <1>2, <1>3, <2>1, <2>4
<1> QED
  BY <1>5, <1>6, <1>7, <1>8, <1>9, <1>10, <1>11, <1>12 DEF ChatNext

\* Nobody has a share at the start.
LEMMA ChatInitInv == ChatInit => ChatInv
<1> SUFFICES ASSUME ChatInit PROVE ChatInv
  OBVIOUS
<1>1. QueueInv /\ QueueTypeOK
  BY QueueInitInv DEF ChatInit, QueueInv
<1> DEFINE none == [m \in Models |-> 0]
           u == [concurrent |-> 0, active |-> none]
<1>2. /\ u \in Usage /\ u.concurrent = 0 /\ u.active = none
      /\ none \in [Models -> Nat] /\ \A m \in Models : none[m] = 0
  BY DEF Usage
<1>3. usage = [w \in Workspaces |-> u]
  BY DEF ChatInit
<1> HIDE DEF none, u
<1>4. ChatTypeOK
  BY <1>1, <1>2, <1>3 DEF ChatInit, ChatTypeOK, Ended
<1>5. \A r \in Requests : ~Holds(r)
  BY DEF ChatInit, Holds, Running
<1>6. Cardinality({}) = 0
  BY FS_EmptySet
<1>7. ASSUME NEW w \in Workspaces
      PROVE  /\ usage[w].concurrent = Cardinality(Held(w))
             /\ \A m \in Models : usage[w].active[m] = Cardinality(HeldOf(w, m))
             /\ WithinLimits(w)
  <2>1. Held(w) = {} /\ \A m \in Models : HeldOf(w, m) = {}
    BY <1>5 DEF Held, HeldOf
  <2>2. ActiveModels(usage[w]) = {}
    BY <1>2, <1>3 DEF ActiveModels
  <2>3. memory_bytes({}) = 0
    <3>1. UNION { {m} \X (1 .. Size[m]) : m \in {} } = {}
      OBVIOUS
    <3> QED
      BY <1>6, <3>1 DEF memory_bytes
  <2>4. /\ Quota[w].concurrent \in Nat /\ Quota[w].models \in Nat
        /\ Quota[w].memory \in Nat
    BY ChatConstants DEF QuotaKind
  <2>5. WithinLimits(w)
    BY <1>2, <1>3, <1>6, <2>2, <2>3, <2>4 DEF WithinLimits
  <2> QED
    BY <1>2, <1>3, <1>6, <2>1, <2>5
<1>8. releasing = {}
  BY DEF ChatInit
<1> QED
  BY <1>1, <1>4, <1>7, <1>8 DEF ChatInv, Accounts

\* For any number of requests, workspaces, models and quotas: usage counts
\* exactly the requests that hold a share, so that the requests under way keep to
\* max_concurrent_requests, max_models and max_memory_bytes, although a share is
\* given back by a task of its own after the handler has ended or was dropped.
THEOREM QuotasAlwaysHold == ChatSpec => []QuotasHold
<1>1. ChatInv => QuotasHold
  <2> SUFFICES ASSUME ChatInv, NEW w \in Workspaces
               PROVE  LET ms == { model[r] : r \in InFlight(w) } IN
                      /\ Cardinality(InFlight(w)) <= Quota[w].concurrent
                      /\ Cardinality(ms) <= Quota[w].models
                      /\ memory_bytes(ms) <= Quota[w].memory
    BY DEF QuotasHold, QuotaRespected, ChatInv
  <2> DEFINE ms == { model[r] : r \in InFlight(w) }
             A == ActiveModels(usage[w])
  <2>1. InFlight(w) \subseteq Held(w)
    BY DEF InFlight, Held, Holds
  <2>2. ms \subseteq A /\ A \subseteq Models
    <3>1. ASSUME NEW r \in InFlight(w) PROVE model[r] \in A
      <4>1. r \in HeldOf(w, model[r]) /\ model[r] \in Models
        BY DEF InFlight, HeldOf, Holds, ChatInv, ChatTypeOK
      <4>2. Cardinality(HeldOf(w, model[r])) \in Nat \ {0}
        BY <4>1, HeldFinite, FS_EmptySet
      <4>3. usage[w].active[model[r]] = Cardinality(HeldOf(w, model[r]))
        BY <4>1 DEF ChatInv, Accounts
      <4> QED
        BY <4>1, <4>2, <4>3 DEF ActiveModels
    <3> QED
      BY <3>1 DEF ActiveModels
  <2>3. /\ usage[w].concurrent = Cardinality(Held(w))
        /\ usage[w].concurrent <= Quota[w].concurrent
        /\ Cardinality(A) <= Quota[w].models /\ memory_bytes(A) <= Quota[w].memory
    BY DEF ChatInv, Accounts, WithinLimits
  <2>4. /\ Quota[w].concurrent \in Nat /\ Quota[w].models \in Nat
        /\ Quota[w].memory \in Nat
    BY ChatConstants DEF QuotaKind
  <2> HIDE DEF ms, A
  <2>5. /\ Cardinality(InFlight(w)) \in Nat /\ Cardinality(Held(w)) \in Nat
        /\ Cardinality(InFlight(w)) <= Cardinality(Held(w))
    BY <2>1, HeldFinite, FS_Subset, FS_CardinalityType
  <2>6. /\ Cardinality(ms) \in Nat /\ Cardinality(A) \in Nat
        /\ Cardinality(ms) <= Cardinality(A)
    BY <2>2, ChatConstants, FS_Subset, FS_CardinalityType
  <2>7. /\ memory_bytes(ms) \in Nat /\ memory_bytes(A) \in Nat
        /\ memory_bytes(ms) <= memory_bytes(A)
    BY <2>2, BytesFinite, MemoryMonotone
  <2>8. /\ Cardinality(InFlight(w)) <= Quota[w].concurrent
        /\ Cardinality(ms) <= Quota[w].models /\ memory_bytes(ms) <= Quota[w].memory
    BY <2>3, <2>4, <2>5, <2>6, <2>7
  <2> QED
    BY <2>8 DEF ms
<1> QED
  BY <1>1, ChatInitInv, ChatNextInv, PTL DEF ChatSpec

-----------------------------------------------------------------------------
(* The counters implement the ledger. *)

\* The places of the requests in the ledger.
Placed == [r \in Requests |-> Place(r)]

\* A request is in the ledger as its handler and its guard are.
LEMMA PlaceOf ==
    ASSUME ChatInv, NEW r \in Requests
    PROVE  /\ Placed[r] = Place(r)
           /\ Place(r) = "asking" <=> chat[r] = "admitted"
           /\ Place(r) = "holding" <=> Holds(r)
           /\ Holds(r) => chat[r] # "admitted"
<1>1. Placed[r] = Place(r)
  BY DEF Placed
<1>2. Holds(r) => chat[r] # "admitted"
  BY Disjoint DEF Holds, ChatInv, Accounts
<1> QED
  BY <1>1, <1>2 DEF Place, Holds

\* The models that usage counts are those of the shares.
LEMMA ModelsHeld ==
    ASSUME ChatInv, NEW w \in Workspaces
    PROVE  ActiveModels(usage[w]) = { model[r] : r \in Held(w) }
<1>1. ASSUME NEW m \in Models PROVE usage[w].active[m] > 0 <=> HeldOf(w, m) # {}
  <2>1. usage[w].active[m] = Cardinality(HeldOf(w, m))
    BY DEF ChatInv, Accounts
  <2>2. IsFiniteSet(HeldOf(w, m)) /\ Cardinality(HeldOf(w, m)) \in Nat
    BY HeldFinite
  <2>3. Cardinality(HeldOf(w, m)) = 0 <=> HeldOf(w, m) = {}
    BY <2>2, FS_EmptySet
  <2> QED
    BY <2>1, <2>2, <2>3
<1>2. \A r \in Requests : model[r] \in Models
  BY DEF ChatInv, ChatTypeOK
<1>3. \A m : m \in { model[r] : r \in Held(w) } <=> m \in Models /\ HeldOf(w, m) # {}
  BY <1>2 DEF Held, HeldOf
<1> QED
  BY <1>1, <1>3 DEF ActiveModels

\* The ledger counts as FiniteSets does.
LEMMA SameCardinality == \A S : Ledger!Cardinality(S) = Cardinality(S)
BY DEF Ledger!Cardinality, Cardinality

\* The checks of run on the counters come to what the ledger asks of the shares.
LEMMA RoomChecked ==
    ASSUME ChatInv, NEW w \in Workspaces, NEW m \in Models
    PROVE  WithinQuota(usage[w], Quota[w], m) <=> Ledger!Room(w, m)
<1> DEFINE A  == ActiveModels(usage[w])
           q  == Quota[w]
<1>1. Ledger!Shares(w) = Held(w)
  <2>1. \A r \in Requests : Placed[r] = "holding" <=> Holds(r)
    BY PlaceOf
  <2> QED
    BY <2>1 DEF Ledger!Shares, Held, Placed
<1>2. A = { model[r] : r \in Held(w) } /\ A \in SUBSET Models
  BY ModelsHeld DEF ActiveModels
<1>3. Ledger!Room(w, m) <=>
        /\ Cardinality(Held(w)) + 1 <= q.concurrent
        /\ Cardinality(A \cup {m}) <= q.models
        /\ memory_bytes(A \cup {m}) <= q.memory
  <2>1. \A S : Ledger!Memory(S) = memory_bytes(S)
    BY SameCardinality DEF Ledger!Memory, memory_bytes
  <2> HIDE DEF A, q
  <2> QED
    BY <1>1, <1>2, <2>1, SameCardinality DEF Ledger!Room, q
<1>4. /\ q.concurrent \in Nat /\ q.models \in Nat /\ q.memory \in Nat
  BY ChatConstants DEF QuotaKind
<1>5. /\ usage[w].concurrent = Cardinality(Held(w)) /\ Cardinality(Held(w)) \in Nat
      /\ Cardinality(A) <= q.models /\ memory_bytes(A) <= q.memory
  BY HeldFinite DEF ChatInv, Accounts, WithinLimits
<1>6. WithinQuota(usage[w], q, m) <=>
        /\ usage[w].concurrent < q.concurrent
        /\ m \notin A => Cardinality(A) < q.models /\ memory_bytes(A) + Size[m] <= q.memory
  BY DEF WithinQuota
<1>7. IsFiniteSet(A) /\ Cardinality(A) \in Nat /\ memory_bytes(A) \in Nat /\ Size[m] \in Nat
  BY <1>2, ChatConstants, FS_Subset, FS_CardinalityType, BytesFinite
<1> HIDE DEF A, q
<1>8. CASE m \in A
  <2>1. A \cup {m} = A
    BY <1>8
  <2> QED
    BY <1>3, <1>4, <1>5, <1>6, <1>8, <2>1 DEF q
<1>9. CASE m \notin A
  <2>1. Cardinality(A \cup {m}) = Cardinality(A) + 1
    BY <1>7, <1>9, FS_AddElement
  <2>2. memory_bytes(A \cup {m}) = memory_bytes(A) + Size[m]
    BY <1>2, <1>9, MemoryAdds
  <2> QED
    BY <1>3, <1>4, <1>5, <1>6, <1>7, <1>9, <2>1, <2>2 DEF q
<1> QED
  BY <1>8, <1>9

\* A step that moves no request in the ledger.
LEMMA LedgerStutter ==
    ASSUME \A r \in Requests : Place(r)' = Place(r), UNCHANGED << ws, model >>
    PROVE  UNCHANGED << Placed, ws, model >>
BY DEF Placed

\* A step that moves one.
LEMMA LedgerMove ==
    ASSUME NEW r \in Requests, NEW p, Place(r)' = p,
           \A q \in Requests : q # r => Place(q)' = Place(q)
    PROVE  Placed' = [Placed EXCEPT ![r] = p]
BY DEF Placed

\* A handler that goes on, or ends and leaves its share to the guard's task.
LEMMA ShareStays ==
    ASSUME ChatInv, NEW r \in Requests, NEW p, chat' = [chat EXCEPT ![r] = p],
           chat[r] \in Running, UNCHANGED << ws, model >>,
           \/ p \in Running /\ releasing' = releasing
           \/ p \in Ended /\ releasing' = releasing \cup {r}
    PROVE  UNCHANGED << Placed, ws, model >>
<1>1. chat \in [Requests -> Ended \cup Running \cup {"admitted"}]
  BY DEF ChatInv, ChatTypeOK
<1>2. chat'[r] = p /\ \A q \in Requests : q # r => chat'[q] = chat[q]
  BY <1>1
<1>3. p # "admitted" /\ chat[r] # "admitted"
  BY Disjoint
<1>4. Place(r) = "holding" /\ Place(r)' = "holding"
  BY <1>2, <1>3 DEF Place
<1>5. \A q \in Requests : q # r => Place(q)' = Place(q)
  BY <1>2 DEF Place
<1> QED
  BY <1>4, <1>5, LedgerStutter

\* A request comes in: it asks.
LEMMA AdmitAsks ==
    ASSUME ChatInv, NEW r \in Requests, Admit(r)
    PROVE  Ledger!Next
<1>1. PICK w \in Workspaces, m \in Models : /\ ws' = [ws EXCEPT ![r] = w]
                                            /\ model' = [model EXCEPT ![r] = m]
  BY DEF Admit
<1>2. /\ chat' = [chat EXCEPT ![r] = "admitted"] /\ releasing' = releasing
      /\ chat[r] \in Ended /\ r \notin releasing
      /\ chat \in [Requests -> Ended \cup Running \cup {"admitted"}]
  BY DEF Admit, ChatInv, ChatTypeOK
<1>3. Place(r) \in {"out", "refused"} /\ Place(r)' = "asking"
  BY <1>2, Disjoint DEF Place
<1>4. \A q \in Requests : q # r => Place(q)' = Place(q)
  BY <1>2 DEF Place
<1>5. Placed' = [Placed EXCEPT ![r] = "asking"] /\ Placed[r] = Place(r)
  BY <1>3, <1>4, LedgerMove DEF Placed
<1>6. Ledger!Ask(r, w, m)
  BY <1>1, <1>3, <1>5 DEF Ledger!Ask, Placed
<1> QED
  BY <1>6 DEF Ledger!Next

\* The quota checks: the request gets its share, or there is no room for it.
LEMMA TakeQuotaAnswers ==
    ASSUME ChatInv, NEW r \in Requests, TakeQuota(r)
    PROVE  Ledger!Next
<1>1. /\ chat[r] = "admitted" /\ UNCHANGED << ws, model, releasing >>
      /\ chat \in [Requests -> Ended \cup Running \cup {"admitted"}]
      /\ ws[r] \in Workspaces /\ model[r] \in Models
  BY DEF TakeQuota, ChatInv, ChatTypeOK
<1>2. r \notin releasing
  BY <1>1, Disjoint DEF ChatInv, Accounts
<1>3. Place(r) = "asking" /\ Placed[r] = "asking"
  BY <1>1 DEF Place, Placed
<1>4. WithinQuota(usage[ws[r]], Quota[ws[r]], model[r]) <=> Ledger!Room(ws[r], model[r])
  BY <1>1, RoomChecked
<1>5. CASE WithinQuota(usage[ws[r]], Quota[ws[r]], model[r])
  <2>1. chat' = [chat EXCEPT ![r] = "holding"]
    BY <1>5 DEF TakeQuota
  <2>2. Place(r)' = "holding" /\ \A q \in Requests : q # r => Place(q)' = Place(q)
    BY <1>1, <2>1 DEF Place, Running
  <2>3. Placed' = [Placed EXCEPT ![r] = "holding"]
    BY <2>2, LedgerMove
  <2>4. Ledger!Grant(r)
    BY <1>1, <1>3, <1>4, <1>5, <2>3 DEF Ledger!Grant, Placed
  <2> QED
    BY <2>4 DEF Ledger!Next
<1>6. CASE ~WithinQuota(usage[ws[r]], Quota[ws[r]], model[r])
  <2>1. chat' = [chat EXCEPT ![r] = "refused"]
    BY <1>6 DEF TakeQuota
  <2>2. Place(r)' = "refused" /\ \A q \in Requests : q # r => Place(q)' = Place(q)
    BY <1>1, <1>2, <2>1 DEF Place, Running
  <2>3. Placed' = [Placed EXCEPT ![r] = "refused"]
    BY <2>2, LedgerMove
  <2>4. Ledger!Refuse(r)
    BY <1>1, <1>3, <1>4, <1>6, <2>3 DEF Ledger!Refuse, Placed
  <2> QED
    BY <2>4 DEF Ledger!Next
<1> QED
  BY <1>5, <1>6

\* The guard's task gives the share back.
LEMMA ReleaseGivesBack ==
    ASSUME ChatInv, NEW r \in Requests, Release(r)
    PROVE  Ledger!Next
<1>1. /\ r \in releasing /\ releasing' = releasing \ {r} /\ UNCHANGED << chat, ws, model >>
      /\ chat[r] \in Ended
  BY DEF Release, ChatInv, Accounts
<1>2. Place(r) = "holding" /\ Place(r)' \in {"out", "refused"}
  BY <1>1, Disjoint DEF Place
<1>3. \A q \in Requests : q # r => Place(q)' = Place(q)
  BY <1>1 DEF Place
<1>4. PICK p \in {"out", "refused"} : Place(r)' = p
  BY <1>2
<1>5. Placed' = [Placed EXCEPT ![r] = p] /\ Placed[r] = "holding"
  BY <1>2, <1>3, <1>4, LedgerMove DEF Placed
<1>6. Ledger!GiveBack(r)
  BY <1>1, <1>4, <1>5 DEF Ledger!GiveBack, Placed
<1> QED
  BY <1>6 DEF Ledger!Next

\* A client that goes gives up its question, or leaves its share to the guard.
LEMMA DisconnectGivesUp ==
    ASSUME ChatInv, NEW r \in Requests, Disconnect(r)
    PROVE  Ledger!Next \/ UNCHANGED << Placed, ws, model >>
<1>1. /\ UNCHANGED << ws, model >> /\ chat \in [Requests -> Ended \cup Running \cup {"admitted"}]
      /\ \/ chat[r] = "admitted" /\ chat' = [chat EXCEPT ![r] = "gone"] /\ releasing' = releasing
         \/ chat[r] \in Running /\ End(r, "gone")
         \/ UNCHANGED << chat, releasing >>
  BY DEF Disconnect, ChatInv, ChatTypeOK, Running
<1>2. CASE chat[r] = "admitted" /\ chat' = [chat EXCEPT ![r] = "gone"] /\ releasing' = releasing
  <2>1. r \notin releasing
    BY <1>2, Disjoint DEF ChatInv, Accounts
  <2>2. Place(r) = "asking" /\ Placed[r] = "asking"
    BY <1>2 DEF Place, Placed
  <2>3. Place(r)' = "out" /\ \A q \in Requests : q # r => Place(q)' = Place(q)
    BY <1>1, <1>2, <2>1 DEF Place, Running
  <2>4. Placed' = [Placed EXCEPT ![r] = "out"]
    BY <2>3, LedgerMove
  <2>5. Ledger!GiveUp(r)
    BY <1>1, <2>2, <2>4 DEF Ledger!GiveUp, Placed
  <2> QED
    BY <2>5 DEF Ledger!Next
<1>3. CASE chat[r] \in Running /\ End(r, "gone")
  <2>1. "gone" \in Ended
    BY DEF Ended
  <2> QED
    BY <1>1, <1>3, <2>1, ShareStays DEF End
<1>4. CASE UNCHANGED << chat, releasing >>
  BY <1>1, <1>4, LedgerStutter DEF Place
<1> QED
  BY <1>1, <1>2, <1>3, <1>4

\* A call that is not of a chat takes the name of a request that holds no share.
LEMMA AsideForgets ==
    ASSUME ChatInv, NEW r \in Requests, CallAside(r)
    PROVE  Ledger!Next \/ UNCHANGED << Placed, ws, model >>
<1>1. /\ chat' = [chat EXCEPT ![r] = "aside"] /\ UNCHANGED << ws, model, releasing >>
      /\ chat[r] \in Ended /\ r \notin releasing
      /\ chat \in [Requests -> Ended \cup Running \cup {"admitted"}]
  BY DEF CallAside, ChatInv, ChatTypeOK
<1>2. Place(r) \in {"out", "refused"} /\ Place(r)' = "out"
  BY <1>1, Disjoint DEF Place, Running
<1>3. \A q \in Requests : q # r => Place(q)' = Place(q)
  BY <1>1 DEF Place
<1>4. CASE Place(r) = "out"
  BY <1>1, <1>2, <1>3, <1>4, LedgerStutter
<1>5. CASE Place(r) = "refused"
  <2>1. Placed' = [Placed EXCEPT ![r] = "out"] /\ Placed[r] = "refused"
    BY <1>2, <1>3, <1>5, LedgerMove DEF Placed
  <2>2. Ledger!Forget(r)
    BY <1>1, <2>1 DEF Ledger!Forget, Placed
  <2> QED
    BY <2>2 DEF Ledger!Next
<1> QED
  BY <1>2, <1>4, <1>5

\* Every other step of a handler leaves the ledger as it is.
LEMMA HandlerKeepsLedger ==
    ASSUME ChatInv, NEW r \in Requests, HandlerStep(r) \/ PrepareEnds(r), ~TakeQuota(r)
    PROVE  UNCHANGED << Placed, ws, model >>
<1>1. {"refused", "answered", "gone"} \subseteq Ended
      /\ {"holding", "started", "called", "completed", "body"} \subseteq Running
  BY DEF Ended, Running
<1>2. CASE InEngine(r)
  <2>1. UNCHANGED << chat, ws, model, releasing >>
    BY <1>2 DEF InEngine, cvars
  <2> QED
    BY <2>1, LedgerStutter DEF Place
<1>3. ASSUME ~InEngine(r)
      PROVE  /\ chat[r] \in Running /\ UNCHANGED << ws, model >>
             /\ \E p : /\ chat' = [chat EXCEPT ![r] = p]
                       /\ \/ p \in Running /\ releasing' = releasing
                          \/ p \in Ended /\ releasing' = releasing \cup {r}
  <2>1. CASE LogStart(r)
    BY <1>1, <2>1 DEF LogStart
  <2>2. CASE \E s \in BOOLEAN : CallEngine(r, s)
    BY <1>1, <2>2 DEF CallEngine
  <2>3. CASE Complete(r)
    BY <1>1, <2>3 DEF Complete, End
  <2>4. CASE Answer(r)
    BY <1>1, <2>4 DEF Answer, End
  <2>5. CASE StartBody(r)
    BY <1>1, <2>5 DEF StartBody
  <2>6. CASE BodyEnds(r)
    BY <1>1, <2>6 DEF BodyEnds, End
  <2>7. CASE PrepareEnds(r)
    BY <1>1, <2>7 DEF PrepareEnds, End
  <2> QED
    BY <1>3, <2>1, <2>2, <2>3, <2>4, <2>5, <2>6, <2>7 DEF HandlerStep
<1> QED
  BY <1>2, <1>3, ShareStays

\* Every step of the handlers is a step of the ledger, or a stutter.
LEMMA LedgerStep ==
    ChatInv /\ [ChatNext]_vars => [Ledger!Next]_<< Placed, ws, model >>
<1> SUFFICES ASSUME ChatInv, [ChatNext]_vars
             PROVE  Ledger!Next \/ UNCHANGED << Placed, ws, model >>
  OBVIOUS
<1>1. ASSUME NEW r \in Requests, HandlerStep(r) \/ PrepareEnds(r)
      PROVE  Ledger!Next \/ UNCHANGED << Placed, ws, model >>
  BY <1>1, TakeQuotaAnswers, HandlerKeepsLedger
<1>2. ASSUME UNCHANGED << chat, ws, model, releasing >>
      PROVE  UNCHANGED << Placed, ws, model >>
  BY <1>2, LedgerStutter DEF Place
<1>3. ASSUME NEW r \in Requests, GenerationEnds(r) PROVE UNCHANGED << Placed, ws, model >>
  BY <1>2, <1>3 DEF GenerationEnds, cvars
<1>4. CASE SetFrozen \/ Reload \/ UNCHANGED vars
  BY <1>2, <1>4 DEF SetFrozen, Reload, vars, cvars
<1> QED
  BY <1>1, <1>3, <1>4, AdmitAsks, ReleaseGivesBack, DisconnectGivesUp, AsideForgets
     DEF ChatNext

\* For any requests, workspaces, models and quotas: WorkspaceUsage, the three checks of
\* run and the tasks that UsageGuard::drop spawns implement QuotaLedger.  A request gets
\* a share exactly when the workspace's limits leave room for it, the shares of handlers
\* that have ended and whose task has not run yet included; no error, disconnect or
\* stream makes a share disappear or stay taken in any other way.
THEOREM UsageImplementsLedger == ChatSpec => ImplementsLedger
<1>1. ChatInit => Ledger!Init
  BY DEF ChatInit, Ledger!Init, Place, Running
<1>2. ChatInv /\ [ChatNext]_vars => [Ledger!Next]_<< Placed, ws, model >>
  BY LedgerStep
<1> QED
  BY <1>1, <1>2, ChatInitInv, ChatNextInv, PTL DEF ChatSpec, ImplementsLedger, Ledger!Spec, Placed
=============================================================================
