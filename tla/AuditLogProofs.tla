--------------------------- MODULE AuditLogProofs ---------------------------
(***************************************************************************)
(* Proofs about AuditLog, for every value of its constants.                *)
(***************************************************************************)
EXTENDS AuditLog, TLAPS, FiniteSetTheorems, WellFoundedInduction

-----------------------------------------------------------------------------
(* Facts about the operators of AuditChain: the CHOOSE expressions in them *)
(* find what they look for.                                                *)

\* A non-empty set of naturals has a least element: the position FirstEntry
\* chooses exists.
LEMMA LeastNat ==
    ASSUME NEW T \in SUBSET Nat, T # {}
    PROVE  \E x \in T : \A y \in T : x <= y
<1>1. PICK x \in T : \A y \in T : << y, x >> \notin OpToRel(<, Nat)
  BY NatLessThanWellFounded, WFMin
<1>2. \A y \in T : ~(y < x)
  BY <1>1 DEF OpToRel
<1> QED
  BY <1>2

\* The same for the greatest element of a bounded set.
LEMMA GreatestNat ==
    ASSUME NEW T \in SUBSET Nat, T # {}, NEW n \in Nat, \A t \in T : t <= n
    PROVE  \E x \in T : \A y \in T : y <= x
<1> DEFINE U == { n - t : t \in T }
<1>1. U \in SUBSET Nat /\ U # {}
  <2>1. \A t \in T : n - t \in Nat
    OBVIOUS
  <2>2. PICK t \in T : TRUE
    OBVIOUS
  <2>3. n - t \in U
    OBVIOUS
  <2> QED
    BY <2>1, <2>3
<1>2. PICK u \in U : \A v \in U : u <= v
  BY <1>1, LeastNat
<1>3. PICK x \in T : u = n - x
  OBVIOUS
<1>4. \A y \in T : n - x <= n - y
  BY <1>2, <1>3
<1> QED
  BY <1>4

\* FirstEntry and LastEntry are the first and the last line that parses.
LEMMA EntryIdxChosen ==
    ASSUME NEW s \in Seq(Line), EntryIdx(s) # {}
    PROVE  /\ \E i \in EntryIdx(s) : /\ FirstEntry(s) = s[i]
                                     /\ \A j \in EntryIdx(s) : i <= j
           /\ \E i \in EntryIdx(s) : /\ LastEntry(s) = s[i]
                                     /\ \A j \in EntryIdx(s) : j <= i
<1>1. /\ EntryIdx(s) \in SUBSET Nat /\ Len(s) \in Nat
      /\ \A i \in EntryIdx(s) : i <= Len(s)
  BY DEF EntryIdx
<1>2. \E i \in EntryIdx(s) : \A j \in EntryIdx(s) : i <= j
  BY <1>1, LeastNat
<1>3. \E i \in EntryIdx(s) : \A j \in EntryIdx(s) : j <= i
  BY <1>1, GreatestNat
<1> QED
  BY <1>2, <1>3 DEF FirstEntry, LastEntry

\* They are lines.
LEMMA EntryTypes ==
    ASSUME NEW s \in Seq(Line), EntryIdx(s) # {}
    PROVE  FirstEntry(s) \in Line /\ LastEntry(s) \in Line
  BY EntryIdxChosen DEF EntryIdx

\* The lines of a file are lines.
LEMMA LineType ==
    ASSUME NEW s \in Seq(Line), NEW i \in DOMAIN s
    PROVE  /\ s[i] \in Line
           /\ s[i].seq \in Nat /\ s[i].prev \in Nat /\ s[i].ts \in Nat
<1>1. s[i] \in Line
  OBVIOUS
<1> QED
  BY <1>1 DEF Line

\* A manifest row holds lines.
LEMMA RowType ==
    ASSUME NEW m \in Seq(Segment), NEW k \in DOMAIN m
    PROVE  m[k] \in Segment /\ m[k].lines \in Seq(Line) /\ m[k].file \in BOOLEAN
<1>1. m[k] \in Segment
  OBVIOUS
<1> QED
  BY <1>1 DEF Segment

\* Changing elements of a sequence in place leaves a sequence.
LEMMA SeqOf ==
    ASSUME NEW S, NEW s \in Seq(S), NEW t, t \in [DOMAIN s -> S]
    PROVE  t \in Seq(S)
<1>1. DOMAIN s = 1..Len(s) /\ Len(s) \in Nat
  OBVIOUS
<1> QED
  BY <1>1

\* In particular, overwriting one element does.
LEMMA ExceptType ==
    ASSUME NEW S, NEW s \in Seq(S), NEW i, NEW e \in S
    PROVE  [s EXCEPT ![i] = e] \in Seq(S)
<1>1. s \in [DOMAIN s -> S]
  OBVIOUS
<1>2. [s EXCEPT ![i] = e] \in [DOMAIN s -> S]
  BY <1>1
<1> QED
  BY <1>2, SeqOf

\* A listing of positions of a sequence picks a sequence of its elements: the
\* vectors that prune_log and enforce_segment_retention write back hold lines
\* and segments that were there.
LEMMA AtType ==
    ASSUME NEW S, NEW s \in Seq(S), NEW T \in SUBSET DOMAIN s,
           NEW f \in Orders(s, T)
    PROVE  At(s, f) \in Seq(S)
<1>1. PICK n \in 0..Len(s) : f \in [1..n -> T]
  BY DEF Orders
<1>2. n \in Nat /\ DOMAIN f = 1..n
  BY <1>1
<1>3. \A k \in 1..n : s[f[k]] \in S
  BY <1>1
<1>4. [k \in 1..n |-> s[f[k]]] \in [1..n -> S]
  BY <1>3
<1> QED
  BY <1>2, <1>4 DEF At

\* max_by_key(seq_end) finds a row.
LEMMA RecoverTailChosen ==
    ASSUME NEW m \in Seq(Segment), m # << >>,
           \A k \in DOMAIN m : EntryIdx(m[k].lines) # {}
    PROVE  \E k \in DOMAIN m :
             /\ recover_tail(m) = [seq  |-> SeqEnd(m[k]),
                                   hmac |-> LastEntry(m[k].lines).ts]
             /\ \A j \in DOMAIN m : /\ SeqEnd(m[j]) <= SeqEnd(m[k])
                                    /\ j > k => SeqEnd(m[j]) < SeqEnd(m[k])
<1> DEFINE above(i, j) == \/ SeqEnd(m[i]) < SeqEnd(m[j])
                          \/ SeqEnd(m[i]) = SeqEnd(m[j]) /\ i < j
           Above(i) == { j \in DOMAIN m : above(i, j) }
           C == { Cardinality(Above(i)) : i \in DOMAIN m }
<1>1. \A k \in DOMAIN m : SeqEnd(m[k]) \in Nat
  <2> TAKE k \in DOMAIN m
  <2>1. m[k].lines \in Seq(Line)
    BY RowType
  <2>2. LastEntry(m[k].lines) \in Line
    BY <2>1, EntryTypes
  <2> QED
    BY <2>2 DEF SeqEnd, Line
<1>2. \A i \in DOMAIN m : IsFiniteSet(Above(i)) /\ Cardinality(Above(i)) \in Nat
  <2> TAKE i \in DOMAIN m
  <2>1. IsFiniteSet(DOMAIN m)
    BY FS_Interval
  <2>2. IsFiniteSet(Above(i))
    BY <2>1, FS_Subset
  <2> QED
    BY <2>2, FS_CardinalityType
<1>3. PICK c \in C : \A d \in C : c <= d
  <2>1. C \in SUBSET Nat
    BY <1>2
  <2>2. C # {}
    <3>1. 1 \in DOMAIN m
      OBVIOUS
    <3>2. Cardinality(Above(1)) \in C
      BY <3>1
    <3> QED
      BY <3>2
  <2> HIDE DEF C
  <2> QED
    BY <2>1, <2>2, LeastNat
<1>4. PICK k \in DOMAIN m : c = Cardinality(Above(k))
  OBVIOUS
<1>5. Above(k) = {}
  <2> SUFFICES ASSUME NEW j \in Above(k) PROVE FALSE
    OBVIOUS
  <2>1. j \in DOMAIN m /\ DOMAIN m \subseteq Nat
    OBVIOUS
  <2>2. Above(j) \subseteq Above(k) /\ j \notin Above(j)
    BY <1>1, <2>1
  <2>3. Cardinality(Above(j)) <= Cardinality(Above(k))
        /\ Cardinality(Above(j)) # Cardinality(Above(k))
    <3> HIDE DEF Above
    <3> QED
      BY <1>2, <2>1, <2>2, FS_Subset
  <2>4. Cardinality(Above(k)) <= Cardinality(Above(j))
    <3>1. Cardinality(Above(j)) \in C
      BY <2>1
    <3> HIDE DEF C, Above
    <3> QED
      BY <1>3, <1>4, <3>1
  <2> HIDE DEF Above
  <2> QED
    BY <1>2, <2>1, <2>3, <2>4
<1>6. \A j \in DOMAIN m : /\ SeqEnd(m[j]) <= SeqEnd(m[k])
                          /\ j > k => SeqEnd(m[j]) < SeqEnd(m[k])
  BY <1>1, <1>5
<1> QED
  BY <1>6 DEF recover_tail

\* scan_tail returns a sequence number and an hmac.
LEMMA ScanTailType ==
    ASSUME NEW c \in Seq(Line), NEW m \in Seq(Segment),
           \A k \in DOMAIN m : EntryIdx(m[k].lines) # {}
    PROVE  scan_tail(c, m).seq \in Nat /\ scan_tail(c, m).hmac \in Nat
<1>1. CASE EntryIdx(c) # {}
  BY <1>1, EntryTypes DEF scan_tail, Line
<1>2. CASE EntryIdx(c) = {} /\ m = << >>
  BY <1>2 DEF scan_tail, GENESIS
<1>3. CASE EntryIdx(c) = {} /\ m # << >>
  <2>1. PICK k \in DOMAIN m :
          recover_tail(m) = [seq  |-> SeqEnd(m[k]),
                             hmac |-> LastEntry(m[k].lines).ts]
    BY <1>3, RecoverTailChosen
  <2>2. m[k].lines \in Seq(Line)
    BY RowType
  <2>3. LastEntry(m[k].lines) \in Line
    BY <2>2, EntryTypes
  <2> QED
    BY <1>3, <2>1, <2>3 DEF scan_tail, SeqEnd, Line
<1> QED
  BY <1>1, <1>2, <1>3

-----------------------------------------------------------------------------
(* Type correctness.  The sequence number a restart continues from is a    *)
(* number only because every manifest row was sealed from a log that holds *)
(* an entry; that is what the invariant adds.                              *)

SealedFromEntries ==
    /\ \A k \in DOMAIN manifest : EntryIdx(manifest[k].lines) # {}
    /\ pc = "seal" => EntryIdx(content) # {}

TypeInv == TypeOK /\ SealedFromEntries

\* The line an append is about to write is a line.
LEMMA NextEntryType == TypeOK => NextEntry \in Line
  BY DEF TypeOK, NextEntry, Line

\* What an interrupted append leaves of the file is a file.
LEMMA LeaveTailType ==
    ASSUME TypeOK, NEW torn \in BOOLEAN, LeaveTail(torn)
    PROVE  active' \in Seq(Line) /\ nl' \in BOOLEAN
<1>1. Junk \in Line
  BY DEF Junk, Line
<1>2. [active EXCEPT ![Len(active)] = Junk] \in Seq(Line)
  BY <1>1, ExceptType DEF TypeOK
<1>3. (Len(before) < Len(active)) \in BOOLEAN
  OBVIOUS
<1>4. CASE UNCHANGED file
  BY <1>4 DEF file, TypeOK
<1>5. CASE active' = before /\ nl' = (Len(before) < Len(active))
  <2>1. nl' \in BOOLEAN
    BY <1>3, <1>5, Zenon
  <2> QED
    BY <2>1, <1>5 DEF TypeOK
<1>6. CASE /\ active' \in { active, [active EXCEPT ![Len(active)] = Junk] }
           /\ nl' = FALSE
  BY <1>2, <1>6 DEF TypeOK
<1> QED
  BY <1>4, <1>5, <1>6 DEF LeaveTail

\* One step keeps every variable in its type.
LEMMA TypeStep == TypeInv /\ [Next]_vars => TypeOK'
<1> SUFFICES ASSUME TypeOK, SealedFromEntries, [Next]_vars PROVE TypeOK'
  BY DEF TypeInv
<1>1. CASE UNCHANGED vars
  BY <1>1 DEF TypeOK, vars
<1>2. CASE AppendWrite
  <2>1. Junk \in Line /\ NextEntry \in Line
    BY NextEntryType DEF Junk, Line
  <2>a. [active EXCEPT ![Len(active)] = Junk] \in Seq(Line)
    BY <2>1, ExceptType DEF TypeOK
  <2>2. active' \in Seq(Line) /\ before' \in Seq(Line)
    <3>1. Append(active, NextEntry) \in Seq(Line)
      BY <2>1 DEF TypeOK
    <3>2. CASE detached
      BY <1>2, <3>2 DEF AppendWrite, TypeOK, file
    <3>3. CASE ~detached
      BY <1>2, <2>a, <3>1, <3>3, Zenon DEF AppendWrite, TypeOK
    <3> QED
      BY <3>2, <3>3
  <2>3. nl' \in BOOLEAN
    BY <1>2 DEF AppendWrite, TypeOK, file
  <2> QED
    BY <1>2, <2>1, <2>2, <2>3 DEF AppendWrite, TypeOK, file, sched, prun, ghost,
       counts, PcStates
<1>3. CASE AppendSync
  BY <1>3 DEF AppendSync, TypeOK, Rotates, file, sched, prun, counts, PcStates,
     Junk, Line
<1>4. CASE AppendFails
  <2>1. active' \in Seq(Line) /\ nl' \in BOOLEAN
    BY <1>4, LeaveTailType DEF AppendFails
  <2> QED
    BY <1>4, <2>1 DEF AppendFails, TypeOK, inner, sched, prun, ghost, PcStates,
       Junk, Line
<1>5. CASE SealSegment
  <2>1. [lines |-> content, file |-> TRUE] \in Segment
    BY DEF TypeOK, Segment
  <2> QED
    BY <1>5, <2>1 DEF SealSegment, TypeOK, file, inner, job, sched, prun, ghost,
       counts, PcStates
<1>6. CASE Truncate
  BY <1>6 DEF Truncate, TypeOK, inner, job, sched, prun, ghost, counts, PcStates
<1>7. CASE Reopen
  <2>1. sweep' \in SweepStates /\ content' \in Seq(Line) /\ pc' \in PcStates
    BY <1>7 DEF Reopen, Unlock, TypeOK, PcStates, SweepStates
  <2> QED
    BY <1>7, <2>1 DEF Reopen, TypeOK, file, prun, ghost, counts
<1>8. CASE RotateFails
  BY <1>8 DEF RotateFails, Unlock, TypeOK, file, inner, prun, ghost, PcStates,
     SweepStates
<1>9. CASE SweepStart
  BY <1>9 DEF SweepStart, TypeOK, file, inner, job, prun, counts, SweepStates
<1>10. CASE SweepRotate
  BY <1>10 DEF SweepRotate, TypeOK, file, inner, prun, ghost, counts, PcStates,
     SweepStates
<1>11. CASE RemoveSegments
  <2>1. manifest' \in Seq(Segment)
    <3>1. \A k \in DOMAIN manifest :
            [manifest[k] EXCEPT !.file = @ /\ k \notin ExpiredRows] \in Segment
      <4> TAKE k \in DOMAIN manifest
      <4>1. manifest[k] \in Segment
        BY DEF TypeOK
      <4>2. (manifest[k].file /\ k \notin ExpiredRows) \in BOOLEAN
        OBVIOUS
      <4> QED
        BY <4>1, <4>2, Zenon DEF Segment
    <3>2. [k \in DOMAIN manifest |->
             [manifest[k] EXCEPT !.file = @ /\ k \notin ExpiredRows]]
               \in [DOMAIN manifest -> Segment]
      BY <3>1
    <3>3. [k \in DOMAIN manifest |->
             [manifest[k] EXCEPT !.file = @ /\ k \notin ExpiredRows]]
               \in Seq(Segment)
      BY <3>2, SeqOf DEF TypeOK
    <3> QED
      BY <1>11, <3>3 DEF RemoveSegments, TypeOK
  <2> QED
    BY <1>11, <2>1 DEF RemoveSegments, TypeOK, file, inner, job, prun, ghost,
       counts, PcStates, SweepStates
<1>12. CASE SaveManifest
  <2>1. PICK f \in Orders(manifest, DOMAIN manifest \ ExpiredRows) :
          manifest' = At(manifest, f)
    BY <1>12 DEF SaveManifest
  <2>2. manifest' \in Seq(Segment)
    BY <2>1, AtType DEF TypeOK
  <2> QED
    BY <1>12, <2>2 DEF SaveManifest, TypeOK, file, inner, job, prun, ghost,
       counts, PcStates, SweepStates
<1>13. ASSUME NEW p \in Pruners, NEW cut \in Nat, PruneRead(p, cut)
       PROVE  kept' \in [Pruners -> Seq(Line)] /\ pruner' \in [Pruners -> BOOLEAN]
  <2>1. CASE Old(cut) = {}
    BY <1>13, <2>1 DEF PruneRead, prun, TypeOK
  <2>2. CASE Old(cut) # {}
    <3>1. PICK f \in Orders(active, DOMAIN active \ Old(cut)) :
            kept' = [kept EXCEPT ![p] = At(active, f)]
      BY <1>13, <2>2 DEF PruneRead
    <3>2. At(active, f) \in Seq(Line)
      BY AtType DEF TypeOK
    <3> QED
      BY <1>13, <2>2, <3>1, <3>2 DEF PruneRead, TypeOK
  <2> QED
    BY <2>1, <2>2
<1>14. CASE SweepPrune
  <2>1. kept' \in [Pruners -> Seq(Line)] /\ pruner' \in [Pruners -> BOOLEAN]
    BY <1>13, <1>14 DEF SweepPrune, Pruners, TypeOK
  <2> QED
    BY <1>14, <2>1 DEF SweepPrune, TypeOK, file, inner, job, ghost, counts,
       SweepStates
<1>15. CASE PruneStart
  <2>1. PICK cut \in 1 .. (clock + 1) :
          /\ PruneRead("admin", cut)
          /\ expired' = IF cut > expired THEN cut ELSE expired
    BY <1>15 DEF PruneStart
  <2>2. cut \in Nat
    BY DEF TypeOK
  <2>3. kept' \in [Pruners -> Seq(Line)] /\ pruner' \in [Pruners -> BOOLEAN]
    BY <1>13, <2>1, <2>2 DEF Pruners
  <2> QED
    BY <1>15, <2>1, <2>2, <2>3 DEF PruneStart, TypeOK, file, inner, job, sched
<1>16. ASSUME NEW p \in Pruners, PruneRename(p) PROVE TypeOK'
  <2>1. pruner' \in [Pruners -> BOOLEAN] /\ kept' \in [Pruners -> Seq(Line)]
    BY <1>16 DEF PruneRename, TypeOK
  <2> QED
    BY <1>16, <2>1 DEF PruneRename, TypeOK, job, ghost, counts, SweepStates
<1>17. CASE Crash
  <2>1. active' \in Seq(Line) /\ nl' \in BOOLEAN
    <3>1. CASE UNCHANGED file
      BY <3>1 DEF TypeOK, file
    <3>2. CASE LeaveTail(TornWrites)
      BY <3>2, LeaveTailType, AuditLogConstants
    <3> QED
      BY <1>17, <3>1, <3>2 DEF Crash
  <2>2. pruner' \in [Pruners -> BOOLEAN]
    BY <1>17, Zenon DEF Crash, TypeOK
  <2>3. kept' \in [Pruners -> Seq(Line)]
    <3>1. << >> \in Seq(Line)
      OBVIOUS
    <3> QED
      BY <1>17, <3>1 DEF Crash, TypeOK
  <2>4. pend' \in Line /\ before' \in Seq(Line) /\ content' \in Seq(Line)
    BY <1>17 DEF Crash, Junk, Line
  <2> QED
    <3>1. up' \in BOOLEAN /\ detached' \in BOOLEAN
      BY <1>17, Zenon DEF Crash
    <3>2. /\ seq' \in Nat /\ hmac' \in Nat /\ orphanLen' \in Nat /\ faults' \in Nat
          /\ pc' \in PcStates /\ sweep' \in SweepStates
      BY <1>17 DEF Crash, TypeOK, GENESIS, PcStates, SweepStates
    <3>3. UNCHANGED << manifest, age, ret, clock, expired, acked, prunes >>
      BY <1>17 DEF Crash, ghost
    <3> QED
      BY <2>1, <2>2, <2>3, <2>4, <3>1, <3>2, <3>3 DEF TypeOK
<1>18. CASE Restart
  <2>1. seq' \in Nat /\ hmac' \in Nat
    BY <1>18, ScanTailType DEF Restart, TypeOK, SealedFromEntries
  <2> QED
    BY <1>18, <2>1 DEF Restart, TypeOK, file, job, sched, prun, ghost, counts
<1> QED
  BY <1>1, <1>2, <1>3, <1>4, <1>5, <1>6, <1>7, <1>8, <1>9, <1>10, <1>11, <1>12,
     <1>14, <1>15, <1>16, <1>17, <1>18 DEF Next

\* One step keeps an entry in every manifest row.
LEMMA SealedStep == TypeInv /\ [Next]_vars => SealedFromEntries'
<1> SUFFICES ASSUME TypeOK, SealedFromEntries, [Next]_vars
             PROVE  SealedFromEntries'
  BY DEF TypeInv
<1>1. CASE UNCHANGED << manifest, pc, content >>
  BY <1>1 DEF SealedFromEntries
<1>2. CASE UNCHANGED manifest /\ pc' # "seal"
  BY <1>2 DEF SealedFromEntries
<1>3. CASE UNCHANGED manifest /\ content' = active /\ EntryIdx(active) # {}
  BY <1>3 DEF SealedFromEntries
<1>4. CASE SealSegment
  <2>1. manifest' = Append(manifest, [lines |-> content, file |-> TRUE])
        /\ pc' = "sealed" /\ EntryIdx(content) # {}
    BY <1>4 DEF SealSegment, SealedFromEntries
  <2>2. ASSUME NEW k \in DOMAIN manifest' PROVE EntryIdx(manifest'[k].lines) # {}
    <3>1. CASE k \in DOMAIN manifest
      <4>1. manifest'[k] = manifest[k]
        BY <2>1, <3>1 DEF TypeOK
      <4> QED
        BY <3>1, <4>1 DEF SealedFromEntries
    <3>2. CASE k \notin DOMAIN manifest
      <4>1. manifest'[k] = [lines |-> content, file |-> TRUE]
        BY <2>1, <2>2, <3>2 DEF TypeOK
      <4> QED
        BY <2>1, <4>1
    <3> QED
      BY <3>1, <3>2
  <2> QED
    BY <2>1, <2>2 DEF SealedFromEntries
<1>5. CASE RemoveSegments /\ ExpiredRows # {}
  <2>1. /\ DOMAIN manifest' = DOMAIN manifest
        /\ \A k \in DOMAIN manifest : manifest'[k].lines = manifest[k].lines
        /\ pc' = "removed"
    <3>1. manifest' = [k \in DOMAIN manifest |->
             [manifest[k] EXCEPT !.file = @ /\ k \notin ExpiredRows]]
      BY <1>5 DEF RemoveSegments
    <3>2. \A k \in DOMAIN manifest : manifest[k] \in Segment
      BY RowType DEF TypeOK
    <3>3. \A k \in DOMAIN manifest :
            [manifest[k] EXCEPT !.file = @ /\ k \notin ExpiredRows].lines
              = manifest[k].lines
      BY <3>2, Zenon DEF Segment
    <3> QED
      BY <1>5, <3>1, <3>3 DEF RemoveSegments
  <2> QED
    BY <2>1 DEF SealedFromEntries
<1>6. CASE SaveManifest
  <2>1. PICK f \in Orders(manifest, DOMAIN manifest \ ExpiredRows) :
          manifest' = At(manifest, f)
    BY <1>6 DEF SaveManifest
  <2>2. \A k \in DOMAIN f : f[k] \in DOMAIN manifest
    BY DEF Orders
  <2> QED
    BY <1>6, <2>1, <2>2 DEF SaveManifest, SealedFromEntries, At
<1>7. CASE AppendWrite \/ AppendFails \/ Truncate \/ Reopen \/ RotateFails
           \/ Crash
  BY <1>2, <1>7 DEF AppendWrite, AppendFails, Truncate, Reopen, RotateFails,
     Unlock, Crash
<1>8. CASE AppendSync \/ SweepRotate
  BY <1>1, <1>2, <1>3, <1>8 DEF AppendSync, SweepRotate, Rotates
<1>9. CASE SweepStart \/ SweepPrune \/ PruneStart \/ Restart
           \/ (\E p \in Pruners : PruneRename(p))
           \/ (RemoveSegments /\ ExpiredRows = {}) \/ UNCHANGED vars
  BY <1>1, <1>9 DEF SweepStart, SweepPrune, PruneStart, Restart, PruneRename,
     RemoveSegments, job, vars
<1> QED
  BY <1>4, <1>5, <1>6, <1>7, <1>8, <1>9 DEF Next

\* The initial state: an empty log and no segments.
LEMMA TypeInit == Init => TypeInv
<1> SUFFICES ASSUME Init PROVE TypeInv
  OBVIOUS
<1>1. pruner \in [Pruners -> BOOLEAN] /\ kept \in [Pruners -> Seq(Line)]
  BY DEF Init
<1>2. pend \in Line
  BY DEF Init, Junk, Line
<1>3. TypeOK
  <2>1. nl \in BOOLEAN /\ up \in BOOLEAN /\ detached \in BOOLEAN
    BY Zenon DEF Init
  <2>2. acked \subseteq Line /\ manifest \in Seq(Segment) /\ active \in Seq(Line)
        /\ before \in Seq(Line) /\ content \in Seq(Line)
    BY DEF Init
  <2>3. pc \in PcStates /\ sweep \in SweepStates
    BY DEF Init, PcStates, SweepStates
  <2>4. /\ seq \in Nat /\ hmac \in Nat /\ orphanLen \in Nat /\ age \in Nat
        /\ ret \in Nat /\ clock \in Nat /\ expired \in Nat /\ prunes \in Nat
        /\ faults \in Nat
    BY DEF Init, GENESIS
  <2> QED
    BY <1>1, <1>2, <2>1, <2>2, <2>3, <2>4 DEF TypeOK
<1>4. SealedFromEntries
  BY DEF Init, SealedFromEntries
<1> QED
  BY <1>3, <1>4 DEF TypeInv

\* Whatever fails, whoever prunes and however long the log runs, the variables
\* keep their types; in particular a restart always finds a sequence number and
\* an hmac to continue from.
THEOREM TypeCorrect == Spec => []TypeOK
<1>1. Init => TypeInv
  BY TypeInit
<1>2. TypeInv /\ [Next]_vars => TypeInv'
  BY TypeStep, SealedStep DEF TypeInv
<1>3. TypeInv => TypeOK
  BY DEF TypeInv
<1> QED
  BY <1>1, <1>2, <1>3, PTL DEF Spec

-----------------------------------------------------------------------------
(* No acknowledged entry is lost                                           *)
(*                                                                         *)
(* For the configuration the design asks for: rotation by age, at an age   *)
(* below the retention period, writes that are atomic and I/O that does    *)
(* not fail, and an administrator who prunes only while the daemon is down.*)

SafeConfig ==
    AgeRotation /\ ~TornWrites /\ ~IOFaults /\ AdminPrune # "online"

\* Every line parses, and the lines are in the order they were appended, the
\* last of them no later than now.
Chronological(s, now) ==
    \A i \in DOMAIN s : /\ IsEntry(s[i]) /\ s[i].ts <= now
                        /\ \A j \in DOMAIN s : j < i => s[j].ts < s[i].ts

\* The daemon's handle is the file at log_path, and no sweep rewrites that file.
Attached == nl = TRUE /\ detached = FALSE /\ pruner["sweep"] = FALSE

\* The mutex and the sweep are the running daemon's.
Running == pc # "free" \/ sweep # "off" => up = TRUE

\* A prune under way has picked the lines of the log that have not expired, and
\* the log is still the one it has read.
Pruning ==
    pruner["admin"] = TRUE =>
        /\ AdminPrune = "offline" /\ up = FALSE /\ prunes # 0
        /\ \E cut \in Nat : \E f \in Orders(active, DOMAIN active \ Old(cut)) :
             cut <= expired /\ kept["admin"] = At(active, f)

InOrder ==
    /\ Chronological(active, clock)
    /\ \A k \in DOMAIN manifest : Chronological(manifest[k].lines, clock)
    /\ \A e \in acked : IsEntry(e) /\ e.ts <= clock

\* An entry that is not synced yet is the last line and not acknowledged.
Writing ==
    pc = "wrote" =>
        /\ active = Append(before, pend) /\ IsEntry(pend) /\ pend.ts = clock
        /\ \A e \in acked : e.ts < pend.ts

\* Before the log is truncated, its lines are in the newest segment.
Sealing ==
    /\ pc = "seal" => content = active
    /\ pc = "sealed" =>
         /\ manifest # << >>
         /\ manifest[Len(manifest)].lines = active
         /\ manifest[Len(manifest)].file = TRUE
    /\ pc = "truncated" => active = << >>
    /\ sweep = "rotating" => pc \in {"seal", "sealed", "truncated"}
    /\ pc = "removed" <=> sweep = "retaining"

\* Once a sweep has rotated, every line of the log is younger than its
\* retention cutoff: there is nothing for prune_log to remove.
Sweeping ==
    /\ ret <= clock + 1 /\ ret <= expired
    /\ sweep # "off" => ret <= age
    /\ sweep \in {"retain", "retaining", "prune"} =>
         \A i \in DOMAIN active : active[i].ts >= ret

RetentionInv ==
    /\ TypeInv /\ Attached /\ Running /\ Pruning
    /\ InOrder /\ Writing /\ Sealing /\ Sweeping /\ NoAckedEntryLost

\* An entry is on disk if it is a line of the log or of a segment with a file.
LEMMA OnDiskIff ==
    ASSUME NEW e
    PROVE  e \in OnDisk <=>
             \/ e \in Entries(active)
             \/ \E k \in DOMAIN manifest :
                  manifest[k].file /\ e \in Entries(manifest[k].lines)
  BY DEF OnDisk

\* In a chronological file the first entry is the oldest and the last one, whose
\* timestamp is the segment's ts_last, the newest.
LEMMA OldestAndNewest ==
    ASSUME NEW s \in Seq(Line), NEW now \in Nat, Chronological(s, now),
           NEW i \in DOMAIN s
    PROVE  /\ EntryIdx(s) # {}
           /\ FirstEntry(s).ts <= s[i].ts /\ s[i].ts <= LastEntry(s).ts
<1>1. EntryIdx(s) = DOMAIN s
  BY DEF Chronological, EntryIdx
<1>2. PICK f \in DOMAIN s : FirstEntry(s) = s[f] /\ \A j \in DOMAIN s : f <= j
  BY <1>1, EntryIdxChosen
<1>3. PICK l \in DOMAIN s : LastEntry(s) = s[l] /\ \A j \in DOMAIN s : j <= l
  BY <1>1, EntryIdxChosen
<1>4. \A j \in DOMAIN s : s[j].ts \in Nat
  BY LineType
<1>5. s[f].ts <= s[i].ts
  BY <1>2, <1>4 DEF Chronological
<1>6. s[i].ts <= s[l].ts
  BY <1>3, <1>4 DEF Chronological
<1> QED
  BY <1>1, <1>2, <1>3, <1>5, <1>6

\* A file that is chronological now is so later.
LEMMA ChronologicalLater ==
    ASSUME NEW s \in Seq(Line), NEW n \in Nat, NEW m \in Nat, n <= m,
           Chronological(s, n)
    PROVE  Chronological(s, m)
<1>1. \A i \in DOMAIN s : s[i].ts \in Nat
  BY LineType
<1> QED
  BY <1>1 DEF Chronological

\* Every entry of an expired segment has passed the retention cutoff.
LEMMA ExpiredRowsExpired ==
    ASSUME TypeOK, InOrder, Sweeping, NEW k \in ExpiredRows,
           NEW e \in Entries(manifest[k].lines)
    PROVE  e.ts < expired
<1>1. k \in DOMAIN manifest /\ TsLast(manifest[k]) < ret
  BY DEF ExpiredRows
<1>2. manifest[k].lines \in Seq(Line)
  BY <1>1, RowType DEF TypeOK
<1>3. PICK i \in DOMAIN manifest[k].lines : e = manifest[k].lines[i]
  BY DEF Entries, Lines
<1>4. Chronological(manifest[k].lines, clock)
  BY <1>1 DEF InOrder
<1>5. /\ EntryIdx(manifest[k].lines) # {}
      /\ e.ts <= LastEntry(manifest[k].lines).ts
  BY <1>2, <1>3, <1>4, OldestAndNewest DEF TypeOK
<1>6. LastEntry(manifest[k].lines) \in Line /\ e \in Line
  BY <1>2, <1>3, <1>5, EntryTypes
<1> QED
  BY <1>1, <1>5, <1>6 DEF TsLast, Line, Sweeping, TypeOK

\* The numbers a proof step compares.
LEMMA LastIndex ==
    ASSUME NEW S, NEW s \in Seq(S), s # << >>
    PROVE  Len(s) \in DOMAIN s
OBVIOUS

\* The new element is the last one of the sequence.
LEMMA AppendedLast ==
    ASSUME NEW S, NEW s \in Seq(S), NEW x \in S
    PROVE  /\ Len(s) + 1 \in DOMAIN Append(s, x)
           /\ Append(s, x)[Len(s) + 1] = x
OBVIOUS

\* The stamps and cutoffs that the proofs compare are numbers.
LEMMA Numbers ==
    ASSUME TypeOK
    PROVE  /\ clock \in Nat /\ age \in Nat /\ ret \in Nat /\ expired \in Nat
           /\ pend.ts \in Nat /\ \A e \in acked : e.ts \in Nat
<1>1. pend \in Line /\ \A e \in acked : e \in Line
  BY DEF TypeOK
<1>2. pend.ts \in Nat /\ \A e \in acked : e.ts \in Nat
  BY <1>1 DEF Line
<1> QED
  BY <1>2 DEF TypeOK

\* A step that keeps every entry on disk that has not expired loses none.
LEMMA KeepsAcked ==
    ASSUME TypeOK, TypeOK', NoAckedEntryLost, acked' = acked, expired <= expired',
           \A e \in acked : e \in OnDisk /\ e.ts >= expired => e \in OnDisk'
    PROVE  NoAckedEntryLost'
<1> SUFFICES ASSUME NEW e \in acked, e.ts >= expired' PROVE e \in OnDisk'
  BY DEF NoAckedEntryLost
<1>1. e.ts \in Nat /\ expired \in Nat /\ expired' \in Nat
  BY Numbers DEF TypeOK
<1>2. e.ts >= expired
  BY <1>1
<1> QED
  BY <1>2 DEF NoAckedEntryLost

\* append up to the write.
LEMMA RetentionAppendWrite ==
    ASSUME SafeConfig, RetentionInv, TypeOK', AppendWrite
    PROVE  Attached' /\ InOrder' /\ Writing' /\ Sealing' /\ Sweeping'
           /\ NoAckedEntryLost'
<1> USE DEF RetentionInv, TypeInv
<1> DEFINE e == NextEntry
<1>1. /\ active' = Append(active, e) /\ before' = active /\ pend' = e
      /\ clock' = clock + 1 /\ pc = "free" /\ pc' = "wrote"
      /\ nl' = TRUE /\ detached' = FALSE
  BY DEF AppendWrite, Attached
<1>2. UNCHANGED << manifest, sweep, age, ret, pruner, expired, acked >>
  BY DEF AppendWrite, sched, prun, ghost
<1>3. e \in Line /\ e.ts = clock + 1 /\ e.seq = seq + 1 /\ IsEntry(e)
  <2>1. e.ts = clock + 1 /\ e.seq = seq + 1 /\ seq \in Nat
    BY DEF NextEntry, TypeOK
  <2> QED
    BY <2>1, NextEntryType DEF IsEntry
<1>4. /\ DOMAIN active' = 1 .. (Len(active) + 1) /\ Len(active) \in Nat
      /\ DOMAIN active = 1 .. Len(active)
      /\ \A i \in DOMAIN active : active'[i] = active[i] /\ active[i].ts \in Nat
      /\ active'[Len(active) + 1] = e
  <2>1. active \in Seq(Line)
    BY DEF TypeOK
  <2>2. \A i \in DOMAIN active : active[i].ts \in Nat
    BY <2>1, LineType
  <2> HIDE DEF e
  <2> QED
    BY <1>1, <1>3, <2>1, <2>2
<1>5. Attached'
  BY <1>1, <1>2 DEF Attached
<1>6. InOrder'
  <2>1. Chronological(active', clock')
    <3>1. Chronological(active, clock) /\ clock \in Nat
      BY DEF InOrder, TypeOK
    <3> HIDE DEF e
    <3> QED
      BY <1>1, <1>3, <1>4, <3>1 DEF Chronological
  <2>2. \A k \in DOMAIN manifest : Chronological(manifest[k].lines, clock')
    <3> TAKE k \in DOMAIN manifest
    <3>1. manifest \in Seq(Segment) /\ clock \in Nat
      BY DEF TypeOK
    <3>2. manifest[k].lines \in Seq(Line)
      BY <3>1, RowType
    <3>3. Chronological(manifest[k].lines, clock)
      BY DEF InOrder
    <3>4. clock + 1 \in Nat /\ clock <= clock + 1
      BY <3>1
    <3> QED
      BY <1>1, <3>1, <3>2, <3>3, <3>4, ChronologicalLater
  <2>3. \A a \in acked : IsEntry(a) /\ a.ts <= clock'
    BY <1>1, Numbers DEF InOrder
  <2> QED
    BY <1>2, <2>1, <2>2, <2>3 DEF InOrder
<1>7. Writing'
  BY <1>1, <1>2, <1>3, Numbers DEF Writing, InOrder
<1>8. Sealing'
  BY <1>1, <1>2 DEF Sealing
<1>9. Sweeping'
  BY <1>1, <1>2, <1>3, <1>4, Numbers DEF Sweeping
<1>10. NoAckedEntryLost'
  <2>1. Entries(active) \subseteq Entries(active)'
    BY <1>4 DEF Entries, Lines
  <2>2. \A a : a \in OnDisk => a \in OnDisk'
    BY <1>2, <2>1 DEF OnDisk
  <2> QED
    BY <1>2, <2>2, KeepsAcked DEF TypeOK
<1> QED
  BY <1>5, <1>6, <1>7, <1>8, <1>9, <1>10

\* append from the sync on.
LEMMA RetentionAppendSync ==
    ASSUME SafeConfig, RetentionInv, TypeOK', AppendSync
    PROVE  Attached' /\ InOrder' /\ Writing' /\ Sealing' /\ Sweeping'
           /\ NoAckedEntryLost'
<1> USE DEF RetentionInv, TypeInv
<1>1. /\ pc = "wrote" /\ acked' = acked \cup {pend}
      /\ pc' = "free" \/ (pc' = "seal" /\ content' = active)
  BY DEF AppendSync
<1>2. UNCHANGED << active, nl, manifest, detached, sweep, age, ret, pruner, clock,
                   expired >>
  BY DEF AppendSync, file, sched, prun
<1>3. Attached' /\ Sweeping'
  BY <1>2 DEF Attached, Sweeping
<1>4. InOrder'
  BY <1>1, <1>2 DEF InOrder, Writing, TypeOK
<1>5. Writing' /\ Sealing'
  BY <1>1, <1>2 DEF Writing, Sealing
<1>6. NoAckedEntryLost'
  <2>1. pend \in Entries(active)
    <3>1. active = Append(before, pend) /\ IsEntry(pend)
      BY <1>1 DEF Writing
    <3>2. before \in Seq(Line) /\ pend \in Line
      BY DEF TypeOK
    <3>3. Len(before) + 1 \in DOMAIN active /\ active[Len(before) + 1] = pend
      BY <3>1, <3>2, AppendedLast
    <3> QED
      BY <3>1, <3>3 DEF Entries, Lines
  <2>2. OnDisk' = OnDisk /\ pend \in OnDisk
    BY <1>2, <2>1 DEF OnDisk
  <2> QED
    BY <1>1, <1>2, <2>2 DEF NoAckedEntryLost
<1> QED
  BY <1>3, <1>4, <1>5, <1>6

\* seal_segment: the log's lines are now also in the newest segment.
LEMMA RetentionSealSegment ==
    ASSUME SafeConfig, RetentionInv, TypeOK', SealSegment
    PROVE  Attached' /\ InOrder' /\ Writing' /\ Sealing' /\ Sweeping'
           /\ NoAckedEntryLost'
<1> USE DEF RetentionInv, TypeInv
<1> DEFINE row == [lines |-> content, file |-> TRUE]
<1>1. /\ pc = "seal" /\ pc' = "sealed" /\ content = active
      /\ manifest' = Append(manifest, row) /\ manifest \in Seq(Segment)
  BY DEF SealSegment, Sealing, TypeOK
<1>2. UNCHANGED << active, nl, detached, before, pend, content, sweep, age, ret,
                   pruner, clock, expired, acked >>
  BY DEF SealSegment, file, inner, job, sched, prun, ghost
<1>3. /\ Len(manifest) \in Nat /\ DOMAIN manifest = 1 .. Len(manifest)
      /\ DOMAIN manifest' = 1 .. (Len(manifest) + 1)
      /\ Len(manifest') = Len(manifest) + 1
      /\ \A k \in DOMAIN manifest : manifest'[k] = manifest[k]
      /\ manifest'[Len(manifest')] = row
  <2> HIDE DEF row
  <2> QED
    BY <1>1
<1>4. row.lines = active /\ row.file = TRUE
  BY <1>1
<1>5. Attached' /\ Sweeping'
  BY <1>2 DEF Attached, Sweeping
<1>6. InOrder'
  <2>1. \A k \in DOMAIN manifest' : Chronological(manifest'[k].lines, clock)
    <3> HIDE DEF row
    <3> QED
      BY <1>3, <1>4 DEF InOrder
  <2> QED
    BY <1>2, <2>1 DEF InOrder
<1>7. Writing'
  BY <1>1 DEF Writing
<1>8. Sealing'
  <2>1. manifest' # << >>
    BY <1>3
  <2> QED
    BY <1>1, <1>2, <1>3, <1>4, <2>1 DEF Sealing
<1>9. NoAckedEntryLost'
  <2>1. \A e : e \in OnDisk => e \in OnDisk'
    <3> TAKE e
    <3> HAVE e \in OnDisk
    <3>1. CASE e \in Entries(active)
      BY <1>2, <3>1 DEF OnDisk
    <3>2. ASSUME NEW k \in DOMAIN manifest, manifest[k].file,
                 e \in Entries(manifest[k].lines)
          PROVE  e \in OnDisk'
      <4>1. k \in DOMAIN manifest' /\ manifest'[k] = manifest[k]
        BY <1>3
      <4> QED
        BY <3>2, <4>1 DEF OnDisk
    <3> QED
      BY <3>1, <3>2, OnDiskIff
  <2> QED
    BY <1>2, <2>1, KeepsAcked, Numbers
<1> QED
  BY <1>5, <1>6, <1>7, <1>8, <1>9

\* The log is truncated; its lines are in the newest segment.
LEMMA RetentionTruncate ==
    ASSUME SafeConfig, RetentionInv, TypeOK', Truncate
    PROVE  Attached' /\ InOrder' /\ Writing' /\ Sealing' /\ Sweeping'
           /\ NoAckedEntryLost'
<1> USE DEF RetentionInv, TypeInv
<1>1. /\ pc = "sealed" /\ pc' = "truncated" /\ active' = << >> /\ nl' = TRUE
      /\ manifest # << >> /\ manifest[Len(manifest)].lines = active
      /\ manifest[Len(manifest)].file = TRUE
  BY DEF Truncate, Sealing
<1>2. UNCHANGED << manifest, detached, sweep, age, ret, pruner, clock, expired,
                   acked >>
  BY DEF Truncate, inner, sched, prun, ghost
<1>3. Attached' /\ Writing' /\ Sealing'
  BY <1>1, <1>2 DEF Attached, Writing, Sealing
<1>4. InOrder' /\ Sweeping'
  BY <1>1, <1>2 DEF InOrder, Sweeping, Chronological
<1>5. NoAckedEntryLost'
  <2>1. Len(manifest) \in DOMAIN manifest
    <3>1. manifest \in Seq(Segment)
      BY DEF TypeOK
    <3> QED
      BY <1>1, <3>1, LastIndex
  <2>2. \A e : e \in OnDisk => e \in OnDisk'
    <3> TAKE e
    <3> HAVE e \in OnDisk
    <3>1. PICK k \in DOMAIN manifest :
            manifest[k].file /\ e \in Entries(manifest[k].lines)
      BY <1>1, <2>1, OnDiskIff
    <3> QED
      BY <1>2, <3>1 DEF OnDisk
  <2> QED
    BY <1>2, <2>2, KeepsAcked, Numbers
<1> QED
  BY <1>3, <1>4, <1>5

\* A step that leaves the files, the acknowledgements and the cutoffs alone
\* keeps what is said about them.
LEMMA FilesAlone ==
    ASSUME RetentionInv,
           UNCHANGED << active, manifest, clock, expired, acked >>
    PROVE  InOrder' /\ NoAckedEntryLost'
<1>1. InOrder'
  BY DEF RetentionInv, InOrder
<1>2. OnDisk' = OnDisk
  BY DEF OnDisk
<1> QED
  BY <1>1, <1>2 DEF RetentionInv, NoAckedEntryLost

\* The log is reopened.
LEMMA RetentionReopen ==
    ASSUME SafeConfig, RetentionInv, Reopen
    PROVE  Attached' /\ InOrder' /\ Writing' /\ Sealing' /\ Sweeping'
           /\ NoAckedEntryLost'
<1> USE DEF RetentionInv
<1>1. /\ pc = "truncated" /\ pc' = "free" /\ detached' = FALSE /\ active = << >>
      /\ sweep' = IF sweep = "rotating" THEN "retain" ELSE sweep
  BY DEF Reopen, Unlock, Sealing
<1>2. UNCHANGED << active, nl, manifest, age, ret, pruner, clock, expired, acked >>
  BY DEF Reopen, file, prun, ghost
<1>3. Attached' /\ Writing'
  BY <1>1, <1>2 DEF Attached, Writing
<1>4. Sealing'
  BY <1>1, <1>2 DEF Sealing
<1>5. Sweeping'
  BY <1>1, <1>2 DEF Sweeping
<1> QED
  BY <1>2, <1>3, <1>4, <1>5, FilesAlone

\* A sweep starts and reads the clock.
LEMMA RetentionSweepStart ==
    ASSUME SafeConfig, RetentionInv, TypeOK', SweepStart
    PROVE  Attached' /\ InOrder' /\ Writing' /\ Sealing' /\ Sweeping'
           /\ NoAckedEntryLost'
<1> USE DEF RetentionInv, TypeInv
<1>1. /\ sweep = "off" /\ sweep' = "rotate"
      /\ expired' = IF ret' > expired THEN ret' ELSE expired
  BY DEF SweepStart
<1>2. UNCHANGED << active, nl, manifest, detached, pc, pend, before, content,
                   pruner, clock, acked >>
  BY DEF SweepStart, file, inner, job, prun
<1>3. ret' <= clock + 1 /\ ret' <= age'
  <2>1. age' \in ret' .. (clock + 1)
    BY DEF SweepStart, SafeConfig
  <2>2. ret' \in ret .. (clock + 1) \/ ret' = 0
    BY DEF SweepStart
  <2>3. ret' \in Nat /\ ret \in Nat /\ clock \in Nat /\ age' \in Nat
    BY Numbers DEF TypeOK
  <2> QED
    BY <2>1, <2>2, <2>3
<1>4. expired \in Nat /\ expired' \in Nat /\ ret' \in Nat
  BY Numbers DEF TypeOK
<1>5. Attached' /\ Writing' /\ InOrder'
  BY <1>2 DEF Attached, Writing, InOrder
<1>6. Sealing'
  BY <1>1, <1>2 DEF Sealing
<1>7. Sweeping'
  BY <1>1, <1>2, <1>3, <1>4 DEF Sweeping
<1>8. NoAckedEntryLost'
  <2>1. OnDisk' = OnDisk
    BY <1>2 DEF OnDisk
  <2> QED
    BY <1>1, <1>2, <1>4, <2>1, KeepsAcked
<1> QED
  BY <1>5, <1>6, <1>7, <1>8

\* The sweep's rotation: if the age trigger does not fire, every line is younger
\* than the age cutoff and so than the retention cutoff.
LEMMA RetentionSweepRotate ==
    ASSUME SafeConfig, RetentionInv, SweepRotate
    PROVE  Attached' /\ InOrder' /\ Writing' /\ Sealing' /\ Sweeping'
           /\ NoAckedEntryLost'
<1> USE DEF RetentionInv, TypeInv
<1>1. sweep = "rotate" /\ pc = "free"
  BY DEF SweepRotate
<1>2. UNCHANGED << active, nl, manifest, detached, age, ret, pruner, clock,
                   expired, acked >>
  BY DEF SweepRotate, file, inner, prun, ghost
<1>3. Attached'
  BY <1>2 DEF Attached
<1>4. CASE Rotates(SizeTrigger \/ AgeTrigger)
  <2>1. pc' = "seal" /\ content' = active /\ sweep' = "rotating"
    BY <1>4 DEF SweepRotate
  <2>2. Writing' /\ Sealing' /\ Sweeping'
    BY <1>1, <1>2, <2>1 DEF Writing, Sealing, Sweeping
  <2> QED
    BY <1>2, <1>3, <2>2, FilesAlone
<1>5. CASE ~Rotates(SizeTrigger \/ AgeTrigger)
  <2>1. sweep' = "retain" /\ pc' = "free"
    BY <1>1, <1>5 DEF SweepRotate
  <2>2. \A i \in DOMAIN active : active[i].ts >= ret
    <3> SUFFICES ASSUME NEW i \in DOMAIN active PROVE active[i].ts >= ret
      OBVIOUS
    <3>1. active \in Seq(Line) /\ clock \in Nat /\ Chronological(active, clock)
      BY Numbers DEF TypeOK, InOrder
    <3>2. /\ EntryIdx(active) # {}
          /\ FirstEntry(active).ts <= active[i].ts
      BY <3>1, OldestAndNewest
    <3>3. HandleLen > 0
      BY <3>1 DEF HandleLen, Attached
    <3>4. ~(FirstEntry(active).ts < age)
      BY <1>5, <3>2, <3>3 DEF Rotates, AgeTrigger, SafeConfig
    <3>5. FirstEntry(active).ts \in Nat /\ active[i].ts \in Nat
      <4>1. FirstEntry(active) \in Line /\ active[i] \in Line
        BY <3>1, <3>2, EntryTypes, LineType
      <4> QED
        BY <4>1 DEF Line
    <3>6. ret <= age /\ ret \in Nat /\ age \in Nat
      BY <1>1, Numbers DEF Sweeping
    <3> QED
      BY <3>2, <3>4, <3>5, <3>6
  <2>3. Sweeping'
    BY <1>1, <1>2, <2>1, <2>2 DEF Sweeping
  <2>4. Writing' /\ Sealing'
    BY <1>1, <1>2, <2>1 DEF Writing, Sealing
  <2> QED
    BY <1>2, <1>3, <2>3, <2>4, FilesAlone
<1> QED
  BY <1>4, <1>5

\* Segment retention, first part: only files of expired segments go.
LEMMA RetentionRemoveSegments ==
    ASSUME SafeConfig, RetentionInv, TypeOK', RemoveSegments
    PROVE  Attached' /\ InOrder' /\ Writing' /\ Sealing' /\ Sweeping'
           /\ NoAckedEntryLost'
<1> USE DEF RetentionInv, TypeInv
<1>1. sweep = "retain" /\ pc = "free"
  BY DEF RemoveSegments
<1>2. UNCHANGED << active, nl, detached, age, ret, pruner, clock, expired, acked >>
  BY DEF RemoveSegments, file, inner, prun, ghost
<1>3. Attached'
  BY <1>2 DEF Attached
<1>4. CASE ExpiredRows = {}
  <2>1. sweep' = "prune" /\ pc' = "free" /\ UNCHANGED manifest
    BY <1>1, <1>4 DEF RemoveSegments
  <2>2. Writing' /\ Sealing' /\ Sweeping'
    BY <1>1, <1>2, <2>1 DEF Writing, Sealing, Sweeping
  <2> QED
    BY <1>2, <1>3, <2>1, <2>2, FilesAlone
<1>5. CASE ExpiredRows # {}
  <2>1. pc' = "removed" /\ sweep' = "retaining"
    BY <1>5 DEF RemoveSegments
  <2>2. manifest' = [k \in DOMAIN manifest |->
           [manifest[k] EXCEPT !.file = @ /\ k \notin ExpiredRows]]
    BY <1>5 DEF RemoveSegments
  <2>3. /\ DOMAIN manifest' = DOMAIN manifest
        /\ \A k \in DOMAIN manifest :
             /\ manifest'[k].lines = manifest[k].lines
             /\ manifest[k].file /\ k \notin ExpiredRows => manifest'[k].file
    <3>1. \A k \in DOMAIN manifest : manifest[k] \in Segment
      BY RowType DEF TypeOK
    <3>2. \A k \in DOMAIN manifest :
            LET r == [manifest[k] EXCEPT !.file = @ /\ k \notin ExpiredRows]
            IN  /\ r.lines = manifest[k].lines
                /\ manifest[k].file /\ k \notin ExpiredRows => r.file
      BY <3>1, Zenon DEF Segment
    <3> QED
      BY <2>2, <3>2
  <2>4. Writing' /\ Sealing'
    BY <1>1, <2>1 DEF Writing, Sealing
  <2>5. Sweeping'
    BY <1>1, <1>2, <2>1 DEF Sweeping
  <2>6. InOrder'
    BY <1>2, <2>3 DEF InOrder
  <2>7. \A e \in acked : e \in OnDisk /\ e.ts >= expired => e \in OnDisk'
    <3> SUFFICES ASSUME NEW e \in acked, e \in OnDisk, e.ts >= expired
                 PROVE  e \in OnDisk'
      OBVIOUS
    <3>1. CASE e \in Entries(active)
      BY <1>2, <3>1 DEF OnDisk
    <3>2. ASSUME NEW k \in DOMAIN manifest, manifest[k].file,
                 e \in Entries(manifest[k].lines)
          PROVE  e \in OnDisk'
      <4>1. k \notin ExpiredRows
        BY <3>2, ExpiredRowsExpired, Numbers
      <4> QED
        BY <2>3, <3>2, <4>1 DEF OnDisk
    <3> QED
      BY <3>1, <3>2, OnDiskIff
  <2>8. NoAckedEntryLost'
    BY <1>2, <2>7, KeepsAcked, Numbers
  <2> QED
    BY <1>3, <2>4, <2>5, <2>6, <2>8
<1> QED
  BY <1>4, <1>5

\* Segment retention, second part: the rows that stay keep their files.
LEMMA RetentionSaveManifest ==
    ASSUME SafeConfig, RetentionInv, TypeOK', SaveManifest
    PROVE  Attached' /\ InOrder' /\ Writing' /\ Sealing' /\ Sweeping'
           /\ NoAckedEntryLost'
<1> USE DEF RetentionInv, TypeInv
<1>1. pc = "removed" /\ sweep = "retaining" /\ pc' = "free" /\ sweep' = "prune"
  BY DEF SaveManifest, Sealing
<1>2. UNCHANGED << active, nl, detached, age, ret, pruner, clock, expired, acked >>
  BY DEF SaveManifest, file, inner, prun, ghost
<1>3. PICK f \in Orders(manifest, DOMAIN manifest \ ExpiredRows) :
        manifest' = At(manifest, f)
  BY DEF SaveManifest
<1>4. /\ DOMAIN manifest' = DOMAIN f
      /\ \A i \in DOMAIN f : f[i] \in DOMAIN manifest /\ manifest'[i] = manifest[f[i]]
      /\ \A k \in DOMAIN manifest \ ExpiredRows : \E i \in DOMAIN f : f[i] = k
  BY <1>3 DEF Orders, At
<1>5. Attached' /\ Writing' /\ Sealing' /\ Sweeping'
  BY <1>1, <1>2 DEF Attached, Writing, Sealing, Sweeping
<1>6. InOrder'
  BY <1>2, <1>4 DEF InOrder
<1>7. \A e \in acked : e \in OnDisk /\ e.ts >= expired => e \in OnDisk'
  <2> SUFFICES ASSUME NEW e \in acked, e \in OnDisk, e.ts >= expired
               PROVE  e \in OnDisk'
    OBVIOUS
  <2>1. CASE e \in Entries(active)
    BY <1>2, <2>1 DEF OnDisk
  <2>2. ASSUME NEW k \in DOMAIN manifest, manifest[k].file,
               e \in Entries(manifest[k].lines)
        PROVE  e \in OnDisk'
    <3>1. k \notin ExpiredRows
      BY <2>2, ExpiredRowsExpired, Numbers
    <3>2. PICK i \in DOMAIN manifest' : manifest'[i] = manifest[k]
      BY <1>4, <3>1
    <3> QED
      BY <2>2, <3>2 DEF OnDisk
  <2> QED
    BY <2>1, <2>2, OnDiskIff
<1>8. NoAckedEntryLost'
  BY <1>2, <1>7, KeepsAcked, Numbers
<1> QED
  BY <1>5, <1>6, <1>8

\* The sweep's prune finds nothing to remove.
LEMMA RetentionSweepPrune ==
    ASSUME SafeConfig, RetentionInv, SweepPrune
    PROVE  Attached' /\ InOrder' /\ Writing' /\ Sealing' /\ Sweeping'
           /\ NoAckedEntryLost'
<1> USE DEF RetentionInv, TypeInv
<1>1. Old(ret) = {}
  <2> SUFFICES ASSUME NEW i \in DOMAIN active, active[i].ts < ret PROVE FALSE
    BY DEF Old, EntryIdx
  <2>1. active[i].ts \in Nat /\ ret \in Nat
    BY LineType, Numbers DEF TypeOK
  <2>2. active[i].ts >= ret
    BY DEF SweepPrune, Sweeping
  <2> QED
    BY <2>1, <2>2
<1>2. /\ sweep = "prune" /\ sweep' = "off"
      /\ UNCHANGED << active, nl, manifest, detached, pc, pend, before, content,
                      age, ret, pruner, clock, expired, acked >>
  BY <1>1 DEF SweepPrune, PruneRead, file, inner, job, prun, ghost
<1>3. Attached' /\ Writing'
  BY <1>2 DEF Attached, Writing
<1>4. Sealing' /\ Sweeping'
  BY <1>2 DEF Sealing, Sweeping
<1> QED
  BY <1>2, <1>3, <1>4, FilesAlone

\* A crash: an entry whose write was not synced may go, no acknowledged one.
LEMMA RetentionCrash ==
    ASSUME SafeConfig, RetentionInv, TypeOK', Crash
    PROVE  Attached' /\ InOrder' /\ Writing' /\ Sealing' /\ Sweeping'
           /\ NoAckedEntryLost'
<1> USE DEF RetentionInv, TypeInv
<1>1. pc' = "free" /\ sweep' = "off" /\ detached' = FALSE
  BY DEF Crash
<1>2. UNCHANGED << manifest, age, ret, clock, expired, acked >>
  BY DEF Crash, ghost
<1>3. pruner'["sweep"] = FALSE
  BY DEF Crash, TypeOK, Pruners
<1>4. Writing' /\ Sealing' /\ Sweeping'
  BY <1>1, <1>2 DEF Writing, Sealing, Sweeping
<1>5. CASE UNCHANGED file
  <2>1. UNCHANGED << active, nl >>
    BY <1>5 DEF file
  <2>2. Attached'
    BY <1>1, <1>3, <2>1 DEF Attached
  <2> QED
    BY <1>2, <1>4, <2>1, <2>2, FilesAlone
<1>6. CASE /\ pc = "wrote" /\ active' = before
           /\ nl' = (Len(before) < Len(active))
  <2>1. /\ active = Append(before, pend) /\ before \in Seq(Line) /\ pend \in Line
        /\ \A e \in acked : e.ts < pend.ts
    BY <1>6 DEF Writing, TypeOK
  <2>2. /\ Len(before) \in Nat /\ Len(active) = Len(before) + 1
        /\ DOMAIN before = 1 .. Len(before) /\ DOMAIN active = 1 .. Len(active)
        /\ \A i \in DOMAIN before : before[i] = active[i]
        /\ active[Len(active)] = pend
    BY <2>1
  <2>3. Attached'
    <3>1. nl' = TRUE
      <4>1. Len(before) < Len(active)
        BY <2>2
      <4> QED
        BY <1>6, <4>1
    <3> QED
      BY <1>1, <1>3, <3>1 DEF Attached
  <2>4. InOrder'
    <3>1. Chronological(before, clock)
      BY <2>2 DEF InOrder, Chronological
    <3> QED
      BY <1>2, <1>6, <3>1 DEF InOrder
  <2>5. \A e \in acked : e \in OnDisk => e \in OnDisk'
    <3> SUFFICES ASSUME NEW e \in acked, e \in OnDisk PROVE e \in OnDisk'
      OBVIOUS
    <3>1. CASE e \in Entries(active)
      <4>1. PICK i \in DOMAIN active : active[i] = e /\ IsEntry(e)
        BY <3>1 DEF Entries, Lines
      <4>2. i # Len(active)
        BY <2>1, <2>2, <4>1, Numbers
      <4>3. i \in DOMAIN before /\ before[i] = e
        BY <2>2, <4>1, <4>2
      <4> QED
        BY <1>6, <4>1, <4>3 DEF OnDisk, Entries, Lines
    <3>2. CASE \E k \in DOMAIN manifest :
                 manifest[k].file /\ e \in Entries(manifest[k].lines)
      BY <1>2, <3>2 DEF OnDisk
    <3> QED
      BY <3>1, <3>2, OnDiskIff
  <2>6. NoAckedEntryLost'
    BY <1>2, <2>5, KeepsAcked, Numbers
  <2> QED
    BY <1>4, <2>3, <2>4, <2>6
<1> QED
  BY <1>5, <1>6 DEF Crash, LeaveTail, SafeConfig

\* A restart reads the files and leaves them alone.
LEMMA RetentionRestart ==
    ASSUME SafeConfig, RetentionInv, Restart
    PROVE  Attached' /\ InOrder' /\ Writing' /\ Sealing' /\ Sweeping'
           /\ NoAckedEntryLost'
<1> USE DEF RetentionInv, TypeInv
<1>1. UNCHANGED << active, nl, manifest, detached, pc, pend, before, content,
                   sweep, age, ret, pruner, clock, expired, acked >>
  BY DEF Restart, file, job, sched, prun, ghost
<1>2. Attached' /\ Writing' /\ Sealing' /\ Sweeping'
  BY <1>1 DEF Attached, Writing, Sealing, Sweeping
<1> QED
  BY <1>1, <1>2, FilesAlone

\* What a prune leaves of a chronological file: its entries from the cutoff on.
LEMMA PrunedFile ==
    ASSUME NEW s \in Seq(Line), NEW now \in Nat, Chronological(s, now),
           NEW cut \in Nat,
           NEW f \in Orders(s, DOMAIN s \ { i \in EntryIdx(s) : s[i].ts < cut })
    PROVE  /\ At(s, f) \in Seq(Line) /\ Chronological(At(s, f), now)
           /\ Entries(At(s, f)) = { e \in Entries(s) : e.ts >= cut }
<1> DEFINE T == DOMAIN s \ { i \in EntryIdx(s) : s[i].ts < cut }
           t == At(s, f)
<1>1. t \in Seq(Line)
  BY AtType
<1>2. /\ DOMAIN t = DOMAIN f /\ \A k \in DOMAIN f : t[k] = s[f[k]] /\ f[k] \in T
      /\ \A i, j \in DOMAIN f : i < j => f[i] < f[j]
      /\ \A i \in T : \E k \in DOMAIN f : f[k] = i
  BY DEF At, Orders
<1>3. \A i \in DOMAIN s : /\ i \in T <=> s[i].ts >= cut
                          /\ s[i].ts \in Nat /\ IsEntry(s[i])
  BY LineType DEF EntryIdx, Chronological
<1> HIDE DEF T
<1>4. T \subseteq DOMAIN s
  BY DEF T
<1>5. Chronological(t, now)
  BY <1>2, <1>4 DEF Chronological
<1>6. ASSUME NEW e PROVE e \in Entries(t) <=> e \in Entries(s) /\ e.ts >= cut
  <2>1. ASSUME e \in Entries(t) PROVE e \in Entries(s) /\ e.ts >= cut
    BY <1>2, <1>3, <1>4, <2>1 DEF Entries, Lines
  <2>2. ASSUME e \in Entries(s), e.ts >= cut PROVE e \in Entries(t)
    <3>1. PICK i \in DOMAIN s : e = s[i] /\ IsEntry(e)
      BY <2>2 DEF Entries, Lines
    <3>2. PICK k \in DOMAIN f : f[k] = i
      BY <1>2, <1>3, <2>2, <3>1
    <3> QED
      BY <1>2, <3>1, <3>2 DEF Entries, Lines
  <2> QED
    BY <2>1, <2>2
<1> QED
  BY <1>1, <1>5, <1>6

\* prune_log reads the log of a daemon that is down: the cutoff is passed, the
\* files are as they were.
LEMMA RetentionPruneStart ==
    ASSUME SafeConfig, RetentionInv, TypeOK', PruneStart
    PROVE  Attached' /\ InOrder' /\ Writing' /\ Sealing' /\ Sweeping'
           /\ NoAckedEntryLost'
<1> USE DEF RetentionInv, TypeInv
<1>1. UNCHANGED << active, nl, manifest, detached, pc, pend, before, content, sweep,
                   age, ret, clock, acked >>
  BY DEF PruneStart, file, inner, job, sched
<1>2. expired \in Nat /\ ret \in Nat /\ expired <= expired' /\ expired' \in Nat
  <2>1. expired \in Nat /\ clock \in Nat /\ ret \in Nat
    BY DEF TypeOK
  <2>2. PICK cut \in 1 .. (clock + 1) :
           expired' = IF cut > expired THEN cut ELSE expired
    BY DEF PruneStart
  <2> QED
    BY <2>1, <2>2
<1>3. Attached'
  <2>1. pruner'["sweep"] = pruner["sweep"]
    BY DEF PruneStart, PruneRead, prun, TypeOK, Pruners
  <2> QED
    BY <1>1, <2>1 DEF Attached
<1>4. InOrder' /\ Writing' /\ Sealing'
  BY <1>1 DEF InOrder, Writing, Sealing
<1>5. Sweeping'
  BY <1>1, <1>2 DEF Sweeping
<1>6. OnDisk' = OnDisk
  BY <1>1 DEF OnDisk
<1>7. NoAckedEntryLost'
  BY <1>1, <1>2, <1>6, KeepsAcked
<1> QED
  BY <1>3, <1>4, <1>5, <1>7

\* Its rename drops nothing but entries the cutoff has passed.
LEMMA RetentionPruneRename ==
    ASSUME SafeConfig, RetentionInv, TypeOK', NEW p \in Pruners, PruneRename(p)
    PROVE  Attached' /\ InOrder' /\ Writing' /\ Sealing' /\ Sweeping'
           /\ NoAckedEntryLost'
<1> USE DEF RetentionInv, TypeInv
<1>1. p = "admin" /\ pruner["admin"] = TRUE
  BY DEF PruneRename, Attached, TypeOK, Pruners
<1>2. /\ active' = kept["admin"] /\ nl' = TRUE /\ detached' = up
      /\ pruner' = [pruner EXCEPT !["admin"] = FALSE]
      /\ UNCHANGED << manifest, pc, pend, before, content, sweep, age, ret, clock,
                      expired, acked >>
  BY <1>1 DEF PruneRename, job, ghost
<1>3. up = FALSE /\ pc = "free" /\ sweep = "off"
  BY <1>1 DEF Pruning, Running
<1>4. PICK cut \in Nat : \E f \in Orders(active, DOMAIN active \ Old(cut)) :
         cut <= expired /\ kept["admin"] = At(active, f)
  BY <1>1 DEF Pruning
<1>5. /\ Chronological(active', clock)
      /\ Entries(active') = { e \in Entries(active) : e.ts >= cut }
  <2>1. active \in Seq(Line) /\ clock \in Nat /\ Chronological(active, clock)
    BY DEF TypeOK, InOrder
  <2> QED
    BY <1>2, <1>4, <2>1, PrunedFile DEF Old
<1>6. Attached'
  <2>1. pruner'["sweep"] = FALSE
    BY <1>2 DEF Attached, TypeOK, Pruners
  <2> QED
    BY <1>2, <1>3, <2>1 DEF Attached
<1>7. InOrder'
  BY <1>2, <1>5 DEF InOrder
<1>8. Writing' /\ Sealing' /\ Sweeping'
  BY <1>2, <1>3 DEF Writing, Sealing, Sweeping
<1>9. NoAckedEntryLost'
  <2>1. ASSUME NEW e \in acked, e \in OnDisk, e.ts >= expired PROVE e \in OnDisk'
    <3>1. e.ts \in Nat /\ expired \in Nat /\ cut <= expired
      BY <1>4, Numbers
    <3>2. e.ts >= cut
      BY <2>1, <3>1
    <3>3. CASE e \in Entries(active)
      BY <1>5, <3>2, <3>3 DEF OnDisk
    <3>4. CASE \E k \in DOMAIN manifest :
                 manifest[k].file /\ e \in Entries(manifest[k].lines)
      BY <1>2, <3>4 DEF OnDisk
    <3> QED
      BY <2>1, <3>3, <3>4, OnDiskIff
  <2> QED
    BY <1>2, <2>1, KeepsAcked, Numbers
<1> QED
  BY <1>6, <1>7, <1>8, <1>9

\* While a prune is under way the daemon is down, so nothing else moves.
LEMMA PruningStep ==
    ASSUME SafeConfig, RetentionInv, [Next]_vars
    PROVE  Running' /\ Pruning'
<1> USE DEF RetentionInv, TypeInv
<1>0. pruner \in [Pruners -> BOOLEAN] /\ up \in BOOLEAN
  BY DEF TypeOK
<1>1. ASSUME up = TRUE, up' = TRUE, pruner'["admin"] = pruner["admin"]
      PROVE  Running' /\ Pruning'
  BY <1>1 DEF Running, Pruning
<1>2. CASE AppendWrite \/ AppendSync \/ SealSegment \/ Truncate \/ Reopen
           \/ SweepStart \/ SweepRotate \/ RemoveSegments \/ SaveManifest
  <2>1. up = TRUE
    BY <1>0, <1>2 DEF AppendWrite, AppendSync, SealSegment, Truncate, Reopen, SweepStart,
       SweepRotate, RemoveSegments, SaveManifest, Running
  <2>2. UNCHANGED << up, pruner >>
    BY <1>2 DEF AppendWrite, AppendSync, SealSegment, Truncate, Reopen, SweepStart,
       SweepRotate, RemoveSegments, SaveManifest, prun
  <2> QED
    BY <1>1, <2>1, <2>2
<1>3. CASE SweepPrune
  <2>1. up = TRUE /\ up' = up
    BY <1>3 DEF SweepPrune, Running
  <2>2. pruner'["admin"] = pruner["admin"]
    BY <1>0, <1>3 DEF SweepPrune, PruneRead, prun, Pruners
  <2> QED
    BY <1>1, <2>1, <2>2
<1>4. CASE PruneStart
  <2>1. UNCHANGED << active, up, pc, sweep >> /\ up = FALSE /\ AdminPrune = "offline"
        /\ prunes' = prunes + 1 /\ pruner["admin"] = FALSE
    <3>1. pruner["admin"] \in BOOLEAN
      BY <1>0 DEF Pruners
    <3>2. AdminPrune = "offline"
      BY <1>4, AuditLogConstants DEF PruneStart, SafeConfig
    <3> QED
      BY <1>0, <1>4, <3>1, <3>2 DEF PruneStart, file, sched
  <2>2. Running'
    BY <2>1 DEF Running
  <2>3. prunes' # 0 /\ expired \in Nat /\ clock \in Nat
    <3>1. prunes \in Nat /\ expired \in Nat /\ clock \in Nat
      BY DEF TypeOK
    <3> QED
      BY <2>1, <3>1
  <2>4. PICK cut \in 1 .. (clock + 1) :
           /\ PruneRead("admin", cut)
           /\ expired' = IF cut > expired THEN cut ELSE expired
    BY <1>4 DEF PruneStart
  <2>5. cut \in Nat /\ cut <= expired'
    BY <2>3, <2>4
  <2>6. CASE Old(cut) = {}
    BY <2>1, <2>2, <2>4, <2>6 DEF PruneRead, prun, Pruning
  <2>7. CASE Old(cut) # {}
    <3>1. PICK f \in Orders(active, DOMAIN active \ Old(cut)) :
             kept' = [kept EXCEPT !["admin"] = At(active, f)]
      BY <2>4, <2>7 DEF PruneRead
    <3>2. kept'["admin"] = At(active, f)
      <4>1. kept \in [Pruners -> Seq(Line)]
        BY DEF TypeOK
      <4> QED
        BY <3>1, <4>1 DEF Pruners
    <3>3. /\ f \in Orders(active', DOMAIN active' \ Old(cut)')
          /\ kept'["admin"] = At(active', f)
      BY <2>1, <3>1, <3>2 DEF Old
    <3> QED
      BY <2>1, <2>2, <2>3, <2>5, <3>3 DEF Pruning
  <2> QED
    BY <2>6, <2>7
<1>5. ASSUME NEW p \in Pruners, PruneRename(p) PROVE Running' /\ Pruning'
  <2>1. p = "admin"
    BY <1>5 DEF PruneRename, Attached, Pruners
  <2>2. pruner' = [pruner EXCEPT !["admin"] = FALSE] /\ UNCHANGED << up, pc, sweep >>
    BY <1>5, <2>1 DEF PruneRename
  <2>3. pruner'["admin"] = FALSE
    BY <1>0, <2>2 DEF Pruners
  <2> QED
    BY <2>2, <2>3 DEF Running, Pruning
<1>6. CASE Crash
  <2>1. up = TRUE /\ pc' = "free" /\ sweep' = "off"
        /\ pruner' = [pruner EXCEPT !["sweep"] = FALSE]
    BY <1>0, <1>6 DEF Crash
  <2>2. pruner'["admin"] # TRUE
    BY <1>0, <2>1 DEF Pruning, Pruners
  <2> QED
    BY <2>1, <2>2 DEF Running, Pruning
<1>7. CASE Restart
  <2>1. up' = TRUE /\ pruner' = pruner /\ pruner["admin"] # TRUE
    BY <1>7 DEF Restart, prun, Pruning
  <2> QED
    BY <2>1 DEF Running, Pruning
<1>8. CASE UNCHANGED vars
  <2>1. UNCHANGED << active, up, pc, sweep, pruner, kept, prunes, expired >>
    BY <1>8 DEF vars
  <2>2. \A cut : Old(cut)' = Old(cut)
    BY <2>1 DEF Old
  <2> QED
    BY <2>1, <2>2 DEF Running, Pruning
<1>9. ~AppendFails /\ ~RotateFails
  BY DEF AppendFails, RotateFails, SafeConfig
<1> QED
  BY <1>2, <1>3, <1>4, <1>5, <1>6, <1>7, <1>8, <1>9 DEF Next

\* The initial state satisfies the invariant.
LEMMA RetentionInit == Init => RetentionInv
<1> SUFFICES ASSUME Init PROVE RetentionInv
  OBVIOUS
<1>1. TypeInv
  BY TypeInit
<1>2. Attached /\ Running /\ Pruning
  BY DEF Init, Attached, Running, Pruning, Pruners
<1>3. InOrder /\ Writing /\ Sealing /\ Sweeping /\ NoAckedEntryLost
  BY DEF Init, InOrder, Chronological, Writing, Sealing, Sweeping,
     NoAckedEntryLost
<1> QED
  BY <1>1, <1>2, <1>3 DEF RetentionInv

\* Every step keeps it.
LEMMA RetentionStep ==
    ASSUME SafeConfig
    PROVE  RetentionInv /\ [Next]_vars => RetentionInv'
<1> SUFFICES ASSUME RetentionInv, [Next]_vars
             PROVE  RetentionInv'
  OBVIOUS
<1>1. TypeInv'
  BY TypeStep, SealedStep DEF RetentionInv, TypeInv
<1>2. TypeOK'
  BY <1>1 DEF TypeInv
<1>3. Running' /\ Pruning'
  BY PruningStep
<1>4. CASE UNCHANGED vars
  <2>1. UNCHANGED << active, nl, manifest, detached, pc, pend, before, content,
                     sweep, age, ret, pruner, clock, expired, acked >>
    BY <1>4 DEF vars
  <2>2. Attached' /\ Writing' /\ Sealing' /\ Sweeping'
    BY <2>1 DEF RetentionInv, Attached, Writing, Sealing, Sweeping
  <2> QED
    BY <1>1, <1>3, <2>1, <2>2, FilesAlone DEF RetentionInv
<1>5. ~AppendFails /\ ~RotateFails
  BY DEF AppendFails, RotateFails, SafeConfig
<1> QED
  BY <1>1, <1>2, <1>3, <1>4, <1>5, RetentionPruneStart, RetentionPruneRename,
     RetentionAppendWrite, RetentionAppendSync,
     RetentionSealSegment, RetentionTruncate, RetentionReopen,
     RetentionSweepStart, RetentionSweepRotate, RetentionRemoveSegments,
     RetentionSaveManifest, RetentionSweepPrune, RetentionCrash,
     RetentionRestart DEF Next, RetentionInv

\* With rotation by age below the retention period, atomic writes and prunes only
\* while the daemon is down, no sequence of appends, rotations, sweeps, prunes,
\* crashes and restarts loses an acknowledged entry that has not expired: the
\* invariant of the runs, for logs of any length.
THEOREM AckedEntriesKept ==
    ASSUME SafeConfig
    PROVE  Spec => []NoAckedEntryLost
<1>1. RetentionInv => NoAckedEntryLost
  BY DEF RetentionInv
<1> QED
  BY <1>1, RetentionInit, RetentionStep, PTL DEF Spec

-----------------------------------------------------------------------------
(* One chain                                                               *)
(*                                                                         *)
(* In the same configuration the files together are one chain: sequence    *)
(* numbers grow with the stamps over all of them, the daemon's seq and     *)
(* last_hmac are those of its newest entry, and a file goes on where the   *)
(* one before it ends, or repeats some of it after a rotation that a crash *)
(* interrupted.  Only an administrator's prune can leave a gap between two *)
(* files.                                                                  *)

Final(s) == s[Len(s)]

\* The entries of the log and of every segment of the manifest, with or
\* without its file.
Written ==
    Entries(active) \cup
    UNION { Entries(manifest[k].lines) : k \in DOMAIN manifest }

\* Without the one that an append under way has written.
Settled == { e \in Written : pc = "wrote" => e # pend }

Ordered ==
    \A e, f \in Written : /\ e.ts < f.ts => e.seq < f.seq
                          /\ e.ts = f.ts => e = f

\* A file is a chain: numbered without a gap, each line with the hmac of the
\* one before.
Linked(s) ==
    \A i \in DOMAIN s : /\ s[i].seq = s[1].seq + (i - 1)
                        /\ i > 1 => s[i].prev = s[i - 1].ts
                        /\ s[i].seq = 1 => s[i].prev = GENESIS

Shares(s, t) == Entries(s) \cap Entries(t) # {}

\* A later file t is newer than s, except for what a crash made it repeat.
Later(s, t) ==
    /\ Final(s).ts <= Final(t).ts
    /\ Shares(s, t) \/ Final(s).ts < t[1].ts

\* Without prunes the file after s goes on with the entry after the last one of s.
Joins(s, t, n) ==
    n = 0 => \/ Shares(s, t)
             \/ t[1].seq = Final(s).seq + 1 /\ t[1].prev = Final(s).ts

RowsJoined ==
    \A k \in DOMAIN manifest :
        /\ Linked(manifest[k].lines)
        /\ \A j \in DOMAIN manifest : j < k =>
             /\ Later(manifest[j].lines, manifest[k].lines)
             /\ k = j + 1 => Joins(manifest[j].lines, manifest[k].lines, prunes)

\* The lines s can be what the log holds after the segments of m and n prunes.
Continues(m, s, n) ==
    s # << >> =>
        /\ \A k \in DOMAIN m : Later(m[k].lines, s)
        /\ m # << >> => Joins(m[Len(m)].lines, s, n)

LogJoined ==
    /\ Linked(active) /\ Continues(manifest, active, prunes)
    /\ pc = "wrote" =>
         /\ Continues(manifest, before, prunes)
         /\ \A k \in DOMAIN manifest : Final(manifest[k].lines).ts < pend.ts
         /\ pend.seq = seq + 1 /\ pend.prev = hmac

\* A segment whose file is gone is older than all that can be read back.
GoneIsOldest ==
    \A j \in DOMAIN manifest : ~manifest[j].file =>
        /\ \A i \in DOMAIN active : Final(manifest[j].lines).ts < active[i].ts
        /\ \A k \in DOMAIN manifest : manifest[k].file =>
             Final(manifest[j].lines).ts < Final(manifest[k].lines).ts

TailIsNewest ==
    up = TRUE =>
        /\ \A e \in Settled : e.ts <= hmac /\ e.seq <= seq
        /\ Settled # {} => \E e \in Settled : e.ts = hmac /\ e.seq = seq
        /\ seq = 0 => hmac = GENESIS

ChainInv ==
    /\ RetentionInv
    /\ Ordered /\ RowsJoined /\ LogJoined /\ GoneIsOldest
    /\ TailIsNewest

\* Where an entry of the chain is.
LEMMA WrittenIff ==
    ASSUME NEW e
    PROVE  e \in Written <=>
             \/ e \in Entries(active)
             \/ \E k \in DOMAIN manifest : e \in Entries(manifest[k].lines)
  BY DEF Written

\* The ends of a chronological file.
LEMMA FileEnds ==
    ASSUME NEW s \in Seq(Line), NEW now \in Nat, Chronological(s, now), s # << >>
    PROVE  /\ 1 \in DOMAIN s /\ Len(s) \in DOMAIN s
           /\ FirstEntry(s) = s[1] /\ LastEntry(s) = Final(s)
           /\ s[1] \in Entries(s) /\ Final(s) \in Entries(s)
           /\ \A e \in Entries(s) : s[1].ts <= e.ts /\ e.ts <= Final(s).ts
<1>1. 1 \in DOMAIN s /\ Len(s) \in DOMAIN s /\ DOMAIN s = 1 .. Len(s)
      /\ Len(s) \in Nat
  OBVIOUS
<1>2. EntryIdx(s) = DOMAIN s
  BY DEF Chronological, EntryIdx
<1>3. PICK f \in DOMAIN s : FirstEntry(s) = s[f] /\ \A j \in DOMAIN s : f <= j
  BY <1>1, <1>2, EntryIdxChosen
<1>4. PICK l \in DOMAIN s : LastEntry(s) = s[l] /\ \A j \in DOMAIN s : j <= l
  BY <1>1, <1>2, EntryIdxChosen
<1>5. f = 1 /\ l = Len(s)
  BY <1>1, <1>3, <1>4
<1>6. s[1] \in Entries(s) /\ Final(s) \in Entries(s)
  BY <1>1 DEF Entries, Lines, Final, Chronological
<1>7. \A e \in Entries(s) : s[1].ts <= e.ts /\ e.ts <= Final(s).ts
  <2> TAKE e \in Entries(s)
  <2>1. PICK i \in DOMAIN s : e = s[i]
    BY DEF Entries, Lines
  <2>2. FirstEntry(s).ts <= s[i].ts /\ s[i].ts <= LastEntry(s).ts
    BY OldestAndNewest
  <2> QED
    BY <1>3, <1>4, <1>5, <2>1, <2>2 DEF Final
<1> QED
  BY <1>1, <1>3, <1>4, <1>5, <1>6, <1>7 DEF Final

\* What the invariant says of one segment.
LEMMA RowFacts ==
    ASSUME RetentionInv, NEW k \in DOMAIN manifest
    PROVE  /\ manifest[k].lines \in Seq(Line) /\ manifest[k].lines # << >>
           /\ Chronological(manifest[k].lines, clock)
           /\ TsLast(manifest[k]) = Final(manifest[k].lines).ts
           /\ SeqEnd(manifest[k]) = Final(manifest[k].lines).seq
           /\ SeqStart(manifest[k]) = manifest[k].lines[1].seq
           /\ manifest[k].lines[1] \in Entries(manifest[k].lines)
           /\ Final(manifest[k].lines) \in Entries(manifest[k].lines)
           /\ Final(manifest[k].lines) \in Written
           /\ \A e \in Entries(manifest[k].lines) :
                /\ manifest[k].lines[1].ts <= e.ts
                /\ e.ts <= Final(manifest[k].lines).ts
<1> DEFINE s == manifest[k].lines
<1>1. s \in Seq(Line) /\ clock \in Nat
  BY RowType DEF RetentionInv, TypeInv, TypeOK
<1>2. s # << >>
  BY DEF RetentionInv, TypeInv, SealedFromEntries, EntryIdx
<1>3. Chronological(s, clock)
  BY DEF RetentionInv, InOrder
<1>4. /\ FirstEntry(s) = s[1] /\ LastEntry(s) = Final(s)
      /\ s[1] \in Entries(s) /\ Final(s) \in Entries(s)
      /\ \A e \in Entries(s) : s[1].ts <= e.ts /\ e.ts <= Final(s).ts
  BY <1>1, <1>2, <1>3, FileEnds
<1>5. Final(s) \in Written
  BY <1>4 DEF Written
<1> QED
  BY <1>1, <1>2, <1>3, <1>4, <1>5 DEF TsLast, SeqEnd, SeqStart

\* The same for the log.
LEMMA LogFacts ==
    ASSUME RetentionInv
    PROVE  /\ active \in Seq(Line) /\ Chronological(active, clock)
           /\ active # << >> =>
                /\ 1 \in DOMAIN active /\ Len(active) \in DOMAIN active
                /\ LastEntry(active) = Final(active)
                /\ active[1] \in Entries(active)
                /\ Final(active) \in Entries(active)
                /\ Final(active) \in Written
                /\ \A e \in Entries(active) : /\ active[1].ts <= e.ts
                                              /\ e.ts <= Final(active).ts
<1>1. active \in Seq(Line) /\ clock \in Nat /\ Chronological(active, clock)
  BY DEF RetentionInv, TypeInv, TypeOK, InOrder
<1> QED
  BY <1>1, FileEnds DEF Written

\* An entry of a file is one of its lines.
LEMMA EntryType ==
    ASSUME NEW s \in Seq(Line), NEW e \in Entries(s)
    PROVE  /\ e \in Line /\ e.seq \in Nat /\ e.prev \in Nat /\ e.ts \in Nat
           /\ e.seq > 0
           /\ \E i \in DOMAIN s : e = s[i]
<1>1. PICK i \in DOMAIN s : e = s[i]
  BY DEF Entries, Lines
<1> QED
  BY <1>1, LineType DEF Entries, IsEntry

\* Its stamp is not in the future.
LEMMA WrittenType ==
    ASSUME RetentionInv, NEW e \in Written
    PROVE  /\ e \in Line /\ e.seq \in Nat /\ e.prev \in Nat /\ e.ts \in Nat
           /\ e.seq > 0 /\ e.ts <= clock
<1>1. CASE e \in Entries(active)
  <2>1. active \in Seq(Line) /\ Chronological(active, clock)
    BY LogFacts
  <2> QED
    BY <1>1, <2>1, EntryType DEF Chronological
<1>2. ASSUME NEW k \in DOMAIN manifest, e \in Entries(manifest[k].lines)
      PROVE  /\ e \in Line /\ e.seq \in Nat /\ e.prev \in Nat /\ e.ts \in Nat
             /\ e.seq > 0 /\ e.ts <= clock
  <2>1. manifest[k].lines \in Seq(Line) /\ Chronological(manifest[k].lines, clock)
    BY RowFacts
  <2> QED
    BY <1>2, <2>1, EntryType DEF Chronological
<1> QED
  BY <1>1, <1>2, WrittenIff

\* While no append is under way the running daemon's seq and last_hmac are
\* those of the last line of the log, or of the last segment when the log is
\* empty.
LEMMA TailOfFiles ==
    ASSUME ChainInv, up = TRUE, pc # "wrote"
    PROVE  /\ active # << >> =>
                Final(active).ts = hmac /\ Final(active).seq = seq
           /\ active = << >> /\ manifest # << >> =>
                /\ Final(manifest[Len(manifest)].lines).ts = hmac
                /\ Final(manifest[Len(manifest)].lines).seq = seq
<1> USE DEF ChainInv
<1>1. Settled = Written
  BY DEF Settled
<1>2. hmac \in Nat /\ seq \in Nat /\ manifest \in Seq(Segment)
  BY DEF RetentionInv, TypeInv, TypeOK
<1>3. ASSUME NEW l \in Written, \A e \in Written : e.ts <= l.ts
      PROVE  l.ts = hmac /\ l.seq = seq
  <2>1. PICK t \in Written : t.ts = hmac /\ t.seq = seq
    BY <1>1 DEF TailIsNewest
  <2>2. l.ts <= hmac /\ t.ts <= l.ts /\ l.ts \in Nat
    BY <1>1, <1>3, WrittenType DEF TailIsNewest
  <2>3. l.ts = t.ts
    BY <1>2, <2>1, <2>2
  <2> QED
    BY <2>1, <2>3 DEF Ordered
<1>4. ASSUME active # << >>
      PROVE  Final(active).ts = hmac /\ Final(active).seq = seq
  <2>1. Final(active) \in Written
    BY <1>4, LogFacts
  <2>2. ASSUME NEW e \in Written PROVE e.ts <= Final(active).ts
    <3>1. CASE e \in Entries(active)
      BY <1>4, <3>1, LogFacts
    <3>2. ASSUME NEW k \in DOMAIN manifest, e \in Entries(manifest[k].lines)
          PROVE  e.ts <= Final(active).ts
      <4>1. e.ts <= Final(manifest[k].lines).ts /\ Final(manifest[k].lines) \in Written
        BY <3>2, RowFacts
      <4>2. Final(manifest[k].lines).ts <= Final(active).ts
        BY <1>4 DEF LogJoined, Continues, Later
      <4> QED
        BY <2>1, <4>1, <4>2, WrittenType
    <3> QED
      BY <3>1, <3>2, WrittenIff
  <2> QED
    BY <1>3, <2>1, <2>2
<1>5. ASSUME active = << >>, manifest # << >>
      PROVE  /\ Final(manifest[Len(manifest)].lines).ts = hmac
             /\ Final(manifest[Len(manifest)].lines).seq = seq
  <2> DEFINE n == Len(manifest)
  <2>1. n \in DOMAIN manifest /\ DOMAIN manifest = 1 .. n /\ n \in Nat
    BY <1>2, <1>5
  <2>2. Final(manifest[n].lines) \in Written
    BY <2>1, RowFacts
  <2>3. ASSUME NEW e \in Written PROVE e.ts <= Final(manifest[n].lines).ts
    <3>1. e \notin Entries(active)
      BY <1>5 DEF Entries, Lines
    <3>2. PICK k \in DOMAIN manifest : e \in Entries(manifest[k].lines)
      BY <3>1, WrittenIff
    <3>3. e.ts <= Final(manifest[k].lines).ts /\ Final(manifest[k].lines) \in Written
      BY <3>2, RowFacts
    <3>4. k = n \/ k < n
      BY <2>1
    <3>5. Final(manifest[k].lines).ts <= Final(manifest[n].lines).ts
      <4>1. CASE k < n
        BY <2>1, <4>1 DEF RowsJoined, Later
      <4>2. CASE k = n
        BY <2>2, <4>2, WrittenType
      <4> QED
        BY <3>4, <4>1, <4>2
    <3> QED
      BY <2>2, <3>3, <3>5, WrittenType
  <2> QED
    BY <1>3, <2>2, <2>3
<1> QED
  BY <1>4, <1>5

\* A chain that is continued by one line is a chain.
LEMMA LinkedAppend ==
    ASSUME NEW s \in Seq(Line), NEW e \in Line, Linked(s),
           e.seq = 1 => e.prev = GENESIS,
           s # << >> => e.seq = Final(s).seq + 1 /\ e.prev = Final(s).ts
    PROVE  Linked(Append(s, e))
<1> DEFINE t == Append(s, e)
           n == Len(s)
<1>1. /\ n \in Nat /\ DOMAIN s = 1 .. n /\ DOMAIN t = 1 .. (n + 1)
      /\ \A i \in 1 .. n : t[i] = s[i]
      /\ t[n + 1] = e /\ (s = << >> <=> n = 0)
  OBVIOUS
<1>2. e.seq \in Nat /\ \A i \in 1 .. n : s[i].seq \in Nat
  BY <1>1, LineType DEF Line
<1> HIDE DEF t, n
<1> SUFFICES ASSUME NEW i \in 1 .. (n + 1)
             PROVE  /\ t[i].seq = t[1].seq + (i - 1)
                    /\ i > 1 => t[i].prev = t[i - 1].ts
                    /\ t[i].seq = 1 => t[i].prev = GENESIS
  BY <1>1 DEF Linked, t
<1>3. CASE i \in 1 .. n
  <2>1. t[i] = s[i] /\ t[1] = s[1] /\ (i > 1 => t[i - 1] = s[i - 1])
    BY <1>1, <1>3
  <2> QED
    BY <1>1, <1>3, <2>1 DEF Linked
<1>4. CASE i = n + 1 /\ n = 0
  <2>1. t[i] = e /\ t[1] = e /\ i = 1
    BY <1>1, <1>4
  <2> QED
    BY <1>2, <2>1
<1>5. CASE i = n + 1 /\ n # 0
  <2>1. /\ n \in 1 .. n /\ 1 \in 1 .. n /\ i - 1 = n /\ i > 1
        /\ t[i] = e /\ t[1] = s[1] /\ t[i - 1] = s[n]
    BY <1>1, <1>5
  <2>2. e.seq = s[n].seq + 1 /\ e.prev = s[n].ts
    BY <1>1, <1>5 DEF Final, n
  <2>3. s[n].seq = s[1].seq + (n - 1)
    BY <1>1, <2>1 DEF Linked
  <2>4. t[i].seq = t[1].seq + (i - 1)
    <3>1. s[1].seq \in Nat /\ s[n].seq \in Nat
      BY <1>2, <2>1
    <3> QED
      BY <1>1, <1>5, <2>1, <2>2, <2>3, <3>1
  <2> QED
    BY <2>1, <2>2, <2>4
<1> QED
  BY <1>1, <1>3, <1>4, <1>5

\* append up to the write: the new entry continues the newest one.
LEMMA ChainAppendWrite ==
    ASSUME SafeConfig, ChainInv, AppendWrite
    PROVE  Ordered' /\ RowsJoined' /\ LogJoined' /\ GoneIsOldest'
           /\ TailIsNewest'
<1> USE DEF ChainInv
<1> DEFINE e == NextEntry
<1>1. /\ active' = Append(active, e) /\ before' = active /\ pend' = e
      /\ pc = "free" /\ pc' = "wrote" /\ up = TRUE
  BY DEF AppendWrite, Attached, RetentionInv
<1>2. UNCHANGED << manifest, up, seq, hmac, prunes >>
  BY DEF AppendWrite, counts
<1>3. /\ e \in Line /\ e.ts = clock + 1 /\ e.seq = seq + 1 /\ e.prev = hmac
      /\ IsEntry(e) /\ seq \in Nat /\ hmac \in Nat /\ clock \in Nat
  <2>1. /\ e.ts = clock + 1 /\ e.seq = seq + 1 /\ e.prev = hmac
        /\ seq \in Nat /\ hmac \in Nat /\ clock \in Nat /\ TypeOK
    BY DEF NextEntry, RetentionInv, TypeInv, TypeOK
  <2> QED
    BY <2>1, NextEntryType DEF IsEntry
<1> HIDE DEF e
<1>4. /\ active \in Seq(Line) /\ Len(active) \in Nat
      /\ DOMAIN active = 1 .. Len(active)
      /\ DOMAIN active' = 1 .. (Len(active) + 1)
      /\ \A i \in DOMAIN active : active'[i] = active[i]
      /\ Len(active') = Len(active) + 1
      /\ Final(active') = e /\ active' # << >>
  BY <1>1, <1>3, LogFacts DEF Final
<1>5. Entries(active') = Entries(active) \cup {e}
  <2>1. Lines(active') = Lines(active) \cup {e}
    BY <1>4 DEF Lines, Final
  <2> QED
    BY <1>3, <2>1 DEF Entries
<1>6. Written' = Written \cup {e}
  BY <1>2, <1>5 DEF Written
<1>7. \A f \in Written : /\ f.ts \in Nat /\ f.seq \in Nat
                         /\ f.ts < e.ts /\ f.seq < e.seq
  <2>1. Settled = Written
    BY <1>1 DEF Settled
  <2> TAKE f \in Written
  <2>2. f.ts <= clock /\ f.ts \in Nat /\ f.seq \in Nat /\ f.seq <= seq
    BY <1>1, <2>1, WrittenType DEF TailIsNewest
  <2> QED
    BY <1>3, <2>2
<1>8. Settled' = Written /\ Settled = Written
  <2>1. e \notin Written
    BY <1>7
  <2> QED
    BY <1>1, <1>6, <2>1 DEF Settled
<1>9. TailIsNewest'
  BY <1>2, <1>8 DEF TailIsNewest
<1>11. Ordered'
  <2> SUFFICES ASSUME NEW f \in Written \cup {e}, NEW g \in Written \cup {e}
               PROVE  (f.ts < g.ts => f.seq < g.seq) /\ (f.ts = g.ts => f = g)
    BY <1>6 DEF Ordered
  <2>1. CASE f \in Written /\ g \in Written
    BY <2>1 DEF Ordered
  <2>2. CASE f \in Written /\ g = e
    BY <1>3, <1>7, <2>2
  <2>3. CASE f = e /\ g \in Written
    BY <1>3, <1>7, <2>3
  <2>4. CASE f = e /\ g = e
    BY <1>3, <2>4
  <2> QED
    BY <2>1, <2>2, <2>3, <2>4
<1>12. RowsJoined'
  BY <1>2 DEF RowsJoined
<1>13. \A k \in DOMAIN manifest : Final(manifest[k].lines).ts < e.ts
                                  /\ Final(manifest[k].lines).ts \in Nat
  BY <1>7, RowFacts
<1>14. GoneIsOldest'
  <2> SUFFICES ASSUME NEW j \in DOMAIN manifest, ~manifest[j].file,
                      NEW i \in DOMAIN active'
               PROVE  Final(manifest[j].lines).ts < active'[i].ts
    BY <1>2 DEF GoneIsOldest
  <2>1. CASE i \in DOMAIN active
    BY <1>4, <2>1 DEF GoneIsOldest
  <2>2. CASE i = Len(active) + 1
    BY <1>4, <1>13, <2>2 DEF Final
  <2> QED
    BY <1>4, <2>1, <2>2
<1>15. Linked(active')
  <2>1. e.seq = 1 => e.prev = GENESIS
    BY <1>1, <1>3 DEF TailIsNewest
  <2>2. active # << >> => e.seq = Final(active).seq + 1 /\ e.prev = Final(active).ts
    BY <1>1, <1>3, TailOfFiles
  <2> QED
    BY <1>1, <1>3, <1>4, <2>1, <2>2, LinkedAppend DEF LogJoined
<1>16. Continues(manifest, active', prunes)
  <2>1. \A s : Shares(s, active) => Shares(s, active')
    BY <1>5 DEF Shares
  <2>2. CASE active = << >>
    <3>1. active'[1] = e
      BY <1>4, <2>2 DEF Final
    <3>2. \A k \in DOMAIN manifest : Later(manifest[k].lines, active')
      BY <1>3, <1>4, <1>13, <3>1 DEF Later
    <3>3. manifest # << >> => Joins(manifest[Len(manifest)].lines, active', prunes)
      BY <1>1, <1>3, <2>2, <3>1, TailOfFiles DEF Joins
    <3> QED
      BY <3>2, <3>3 DEF Continues
  <2>3. CASE active # << >>
    <3>1. active'[1] = active[1]
      BY <1>4, <2>3
    <3>2. \A k \in DOMAIN manifest : Later(manifest[k].lines, active')
      <4> TAKE k \in DOMAIN manifest
      <4>1. Later(manifest[k].lines, active)
        BY <2>3 DEF LogJoined, Continues
      <4> QED
        BY <1>3, <1>4, <1>13, <2>1, <3>1, <4>1 DEF Later
    <3>3. manifest # << >> => Joins(manifest[Len(manifest)].lines, active', prunes)
      BY <2>1, <2>3, <3>1 DEF LogJoined, Continues, Joins
    <3> QED
      BY <3>2, <3>3 DEF Continues
  <2> QED
    BY <2>2, <2>3
<1>17. LogJoined'
  <2>1. Continues(manifest, active, prunes)
    BY DEF LogJoined
  <2>2. Continues(manifest, active, prunes)' /\ Continues(manifest, before, prunes)'
    BY <1>1, <1>2, <1>16, <2>1
  <2> QED
    BY <1>1, <1>2, <1>3, <1>13, <1>15, <2>2 DEF LogJoined
<1> QED
  BY <1>9, <1>11, <1>12, <1>14, <1>17

\* append from the sync on: the daemon's seq and last_hmac become those of the
\* entry it wrote, the newest of all.
LEMMA ChainAppendSync ==
    ASSUME SafeConfig, ChainInv, AppendSync
    PROVE  Ordered' /\ RowsJoined' /\ LogJoined' /\ GoneIsOldest'
           /\ TailIsNewest'
<1> USE DEF ChainInv
<1>1. /\ pc = "wrote" /\ pc' # "wrote" /\ seq' = pend.seq /\ hmac' = pend.ts
      /\ up = TRUE
  BY DEF AppendSync, Running, RetentionInv
<1>2. UNCHANGED << active, manifest, up, prunes >>
  BY DEF AppendSync, file, counts
<1>3. Written' = Written
  BY <1>2 DEF Written
<1>4. Settled' = Written
  BY <1>1, <1>3 DEF Settled
<1>5. Ordered' /\ RowsJoined' /\ GoneIsOldest'
  BY <1>1, <1>2, <1>3 DEF Ordered, RowsJoined, GoneIsOldest
<1>6. LogJoined'
  BY <1>1, <1>2 DEF LogJoined
<1>7. TailIsNewest'
  <2>1. /\ pend \in Written /\ pend.seq = seq + 1 /\ pend.ts = clock
        /\ seq \in Nat /\ clock \in Nat
    <3>1. active = Append(before, pend) /\ IsEntry(pend) /\ pend.ts = clock
      BY <1>1 DEF Writing, RetentionInv
    <3>2. before \in Seq(Line) /\ pend \in Line /\ seq \in Nat /\ clock \in Nat
      BY DEF RetentionInv, TypeInv, TypeOK
    <3>3. Len(before) + 1 \in DOMAIN active /\ active[Len(before) + 1] = pend
      BY <3>1, <3>2, AppendedLast
    <3>4. pend \in Entries(active)
      BY <3>1, <3>3 DEF Entries, Lines
    <3> QED
      BY <1>1, <3>1, <3>2, <3>4 DEF LogJoined, Written
  <2>2. ASSUME NEW f \in Written PROVE f.ts <= pend.ts /\ f.seq <= pend.seq
    <3>1. f.ts <= clock /\ f.seq \in Nat
      BY WrittenType
    <3>2. CASE f = pend
      BY <2>1, <3>1, <3>2
    <3>3. CASE f # pend
      <4>1. f \in Settled
        BY <3>3 DEF Settled
      <4>2. f.seq <= seq
        BY <1>1, <4>1 DEF TailIsNewest
      <4> QED
        BY <2>1, <3>1, <4>2
    <3> QED
      BY <3>2, <3>3
  <2>3. seq' # 0
    BY <1>1, <2>1
  <2> QED
    BY <1>1, <1>4, <2>1, <2>2, <2>3 DEF TailIsNewest
<1> QED
  BY <1>5, <1>6, <1>7

\* A step that leaves the files and the daemon's seq and last_hmac alone, and
\* neither starts nor ends an append.
LEMMA ChainAlone ==
    ASSUME ChainInv, UNCHANGED << active, manifest, up, seq, hmac >>,
           prunes' = prunes \/ prunes' # 0,
           \/ UNCHANGED << pc, pend, before >>
           \/ pc # "wrote" /\ pc' # "wrote"
    PROVE  Ordered' /\ RowsJoined' /\ LogJoined' /\ GoneIsOldest' /\ TailIsNewest'
<1> USE DEF ChainInv
<1>1. Written' = Written
  BY DEF Written
<1>2. Settled' = Settled
  BY <1>1 DEF Settled
<1>3. Ordered' /\ RowsJoined' /\ GoneIsOldest'
  BY <1>1 DEF Ordered, RowsJoined, GoneIsOldest, Joins
<1>4. LogJoined'
  BY DEF LogJoined, Continues, Joins
<1>5. TailIsNewest'
  BY <1>2 DEF TailIsNewest
<1> QED
  BY <1>3, <1>4, <1>5

\* The log is sealed: the new segment holds what the log holds.
LEMMA ChainSealSegment ==
    ASSUME SafeConfig, ChainInv, SealSegment
    PROVE  Ordered' /\ RowsJoined' /\ LogJoined' /\ GoneIsOldest'
           /\ TailIsNewest'
<1> USE DEF ChainInv
<1> DEFINE row == [lines |-> content, file |-> TRUE]
           n   == Len(manifest)
<1>1. /\ pc = "seal" /\ pc' = "sealed" /\ content = active /\ active # << >>
      /\ manifest' = Append(manifest, row) /\ manifest \in Seq(Segment)
  <2>1. content = active /\ EntryIdx(content) # {}
    BY DEF SealSegment, Sealing, RetentionInv, TypeInv, SealedFromEntries
  <2> QED
    BY <2>1 DEF SealSegment, RetentionInv, TypeInv, TypeOK, EntryIdx
<1>2. UNCHANGED << active, up, seq, hmac, prunes >>
  BY DEF SealSegment, file, inner, counts
<1>3. row.lines = active /\ row.file = TRUE
  BY <1>1
<1>4. /\ n \in Nat /\ DOMAIN manifest = 1 .. n
      /\ DOMAIN manifest' = 1 .. (n + 1) /\ Len(manifest') = n + 1
      /\ \A k \in 1 .. n : manifest'[k] = manifest[k]
      /\ manifest'[n + 1] = row
  <2> HIDE DEF row
  <2> QED
    BY <1>1
<1> HIDE DEF row, n
<1>5. Written' = Written
  <2>1. ASSUME NEW e PROVE e \in Written' <=> e \in Written
    <3>1. e \in Written' <=>
             \/ e \in Entries(active)
             \/ \E k \in DOMAIN manifest' : e \in Entries(manifest'[k].lines)
      BY <1>2 DEF Written
    <3>2. ASSUME NEW k \in DOMAIN manifest', e \in Entries(manifest'[k].lines)
          PROVE  e \in Written
      BY <1>3, <1>4, <3>2 DEF Written
    <3>3. ASSUME NEW k \in DOMAIN manifest, e \in Entries(manifest[k].lines)
          PROVE  \E j \in DOMAIN manifest' : e \in Entries(manifest'[j].lines)
      <4>1. k \in DOMAIN manifest' /\ manifest'[k] = manifest[k]
        BY <1>4
      <4> QED
        BY <3>3, <4>1
    <3> QED
      BY <3>1, <3>2, <3>3, WrittenIff
  <2> QED
    BY <2>1
<1>6. Settled' = Settled
  BY <1>1, <1>5 DEF Settled
<1>7. Ordered' /\ TailIsNewest'
  <2>1. Ordered'
    BY <1>5 DEF Ordered
  <2>2. TailIsNewest'
    BY <1>2, <1>6 DEF TailIsNewest
  <2> QED
    BY <2>1, <2>2
<1>8. /\ active[1] \in Entries(active) /\ Final(active) \in Entries(active)
      /\ Final(active) \in Written /\ Final(active).ts \in Nat
      /\ Len(active) \in DOMAIN active
      /\ \A e \in Entries(active) : active[1].ts <= e.ts /\ e.ts <= Final(active).ts
  BY <1>1, LogFacts, WrittenType
<1>9. ASSUME NEW k \in 1 .. n
      PROVE  /\ Later(manifest[k].lines, active)
             /\ k = n => Joins(manifest[k].lines, active, prunes)
  <2>1. manifest # << >>
    BY <1>4
  <2> QED
    BY <1>1, <1>4, <2>1 DEF LogJoined, Continues, n
<1>10. RowsJoined'
  <2>1. ASSUME NEW k \in 1 .. (n + 1) PROVE Linked(manifest'[k].lines)
    <3>1. CASE k \in 1 .. n
      BY <1>4, <3>1 DEF RowsJoined
    <3>2. CASE k = n + 1
      BY <1>3, <1>4, <3>2 DEF LogJoined
    <3> QED
      BY <1>4, <3>1, <3>2
  <2>2. ASSUME NEW k \in 1 .. (n + 1), NEW j \in 1 .. (n + 1), j < k
        PROVE  /\ Later(manifest'[j].lines, manifest'[k].lines)
               /\ k = j + 1 => Joins(manifest'[j].lines, manifest'[k].lines, prunes)
    <3>1. CASE k \in 1 .. n
      <4>1. j \in 1 .. n
        BY <1>4, <2>2, <3>1
      <4>2. manifest'[j] = manifest[j] /\ manifest'[k] = manifest[k]
        BY <1>4, <3>1, <4>1
      <4> QED
        BY <1>4, <2>2, <3>1, <4>1, <4>2 DEF RowsJoined
    <3>2. CASE k = n + 1
      <4>1. j \in 1 .. n /\ (k = j + 1 => j = n)
        BY <1>4, <2>2, <3>2
      <4>2. manifest'[j] = manifest[j] /\ manifest'[k].lines = active
        BY <1>3, <1>4, <3>2, <4>1
      <4> QED
        BY <1>9, <4>1, <4>2
    <3> QED
      BY <1>4, <3>1, <3>2
  <2> QED
    BY <1>2, <1>4, <2>1, <2>2 DEF RowsJoined
<1>11. LogJoined'
  <2>1. Shares(active, active)
    BY <1>8 DEF Shares
  <2>2. Continues(manifest', active, prunes)
    <3>1. ASSUME NEW k \in DOMAIN manifest' PROVE Later(manifest'[k].lines, active)
      <4>1. CASE k \in 1 .. n
        BY <1>4, <1>9, <4>1
      <4>2. CASE k = n + 1
        <5>1. manifest'[k].lines = active
          BY <1>3, <1>4, <4>2
        <5> QED
          BY <1>8, <2>1, <5>1 DEF Later
      <4> QED
        BY <1>4, <4>1, <4>2
    <3>2. Joins(manifest'[Len(manifest')].lines, active, prunes)
      BY <1>3, <1>4, <2>1 DEF Joins
    <3> QED
      BY <3>1, <3>2 DEF Continues
  <2>3. Continues(manifest, active, prunes)'
    BY <1>2, <2>2
  <2> QED
    BY <1>1, <1>2, <2>3 DEF LogJoined
<1>12. GoneIsOldest'
  <2> SUFFICES ASSUME NEW j \in DOMAIN manifest', ~manifest'[j].file
               PROVE  /\ \A i \in DOMAIN active :
                           Final(manifest'[j].lines).ts < active[i].ts
                      /\ \A k \in DOMAIN manifest' : manifest'[k].file =>
                           Final(manifest'[j].lines).ts < Final(manifest'[k].lines).ts
    BY <1>2 DEF GoneIsOldest
  <2>1. j \in 1 .. n /\ manifest'[j] = manifest[j]
    BY <1>3, <1>4
  <2>2. \A i \in DOMAIN active : Final(manifest[j].lines).ts < active[i].ts
    BY <1>4, <2>1 DEF GoneIsOldest
  <2>3. ASSUME NEW k \in DOMAIN manifest', manifest'[k].file
        PROVE  Final(manifest[j].lines).ts < Final(manifest'[k].lines).ts
    <3>1. CASE k \in 1 .. n
      BY <1>4, <2>1, <2>3, <3>1 DEF GoneIsOldest
    <3>2. CASE k = n + 1
      BY <1>3, <1>4, <1>8, <2>2, <3>2 DEF Final
    <3> QED
      BY <1>4, <3>1, <3>2
  <2> QED
    BY <2>1, <2>2, <2>3
<1> QED
  BY <1>7, <1>10, <1>11, <1>12

\* The log is truncated: nothing goes, the newest segment holds it all.
LEMMA ChainTruncate ==
    ASSUME SafeConfig, ChainInv, Truncate
    PROVE  Ordered' /\ RowsJoined' /\ LogJoined' /\ GoneIsOldest'
           /\ TailIsNewest'
<1> USE DEF ChainInv
<1>1. /\ pc = "sealed" /\ pc' = "truncated" /\ active' = << >>
      /\ manifest # << >> /\ manifest[Len(manifest)].lines = active
      /\ manifest \in Seq(Segment)
  BY DEF Truncate, Sealing, RetentionInv, TypeInv, TypeOK
<1>2. UNCHANGED << manifest, up, seq, hmac, prunes >>
  BY DEF Truncate, inner, counts
<1>3. Len(manifest) \in DOMAIN manifest
  BY <1>1
<1>4. Written' = Written
  <2>1. Entries(active') = {}
    BY <1>1 DEF Entries, Lines
  <2>2. ASSUME NEW e \in Entries(active)
        PROVE  \E k \in DOMAIN manifest : e \in Entries(manifest[k].lines)
    BY <1>1, <1>3
  <2>3. ASSUME NEW e PROVE e \in Written' <=> e \in Written
    <3>1. e \in Written' <=>
             \/ e \in Entries(active')
             \/ \E k \in DOMAIN manifest : e \in Entries(manifest[k].lines)
      BY <1>2 DEF Written
    <3> QED
      BY <2>1, <2>2, <3>1, WrittenIff
  <2> QED
    BY <2>3
<1>5. Settled' = Settled
  BY <1>1, <1>4 DEF Settled
<1>6. Ordered' /\ RowsJoined'
  BY <1>1, <1>2, <1>4 DEF Ordered, RowsJoined
<1>7. LogJoined' /\ GoneIsOldest'
  BY <1>1, <1>2 DEF LogJoined, GoneIsOldest, Linked, Continues
<1>8. TailIsNewest'
  BY <1>2, <1>5 DEF TailIsNewest
<1> QED
  BY <1>6, <1>7, <1>8

\* Segment retention, first part: what goes is older than what stays.
LEMMA ChainRemoveSegments ==
    ASSUME SafeConfig, ChainInv, RemoveSegments
    PROVE  Ordered' /\ RowsJoined' /\ LogJoined' /\ GoneIsOldest'
           /\ TailIsNewest'
<1> USE DEF ChainInv
<1>1. sweep = "retain" /\ pc = "free" /\ pc' # "wrote" /\ up = TRUE
  BY DEF RemoveSegments, Running, RetentionInv
<1>2. UNCHANGED << active, up, seq, hmac, ret, prunes >>
  BY DEF RemoveSegments, file, inner, counts
<1>4. CASE ExpiredRows = {}
  <2>1. UNCHANGED manifest
    BY <1>4 DEF RemoveSegments
  <2> QED
    BY <1>1, <1>2, <2>1, ChainAlone
<1>5. CASE ExpiredRows # {}
  <2>1. manifest' = [k \in DOMAIN manifest |->
           [manifest[k] EXCEPT !.file = @ /\ k \notin ExpiredRows]]
    BY <1>5 DEF RemoveSegments
  <2>2. /\ DOMAIN manifest' = DOMAIN manifest
        /\ \A k \in DOMAIN manifest :
             /\ manifest'[k].lines = manifest[k].lines
             /\ manifest'[k].file <=> manifest[k].file /\ k \notin ExpiredRows
    <3>1. \A k \in DOMAIN manifest : manifest[k] \in Segment
      BY RowType DEF RetentionInv, TypeInv, TypeOK
    <3>2. \A k \in DOMAIN manifest :
            LET r == [manifest[k] EXCEPT !.file = @ /\ k \notin ExpiredRows]
            IN  /\ r.lines = manifest[k].lines
                /\ r.file <=> manifest[k].file /\ k \notin ExpiredRows
      BY <3>1, Zenon DEF Segment
    <3> QED
      BY <2>1, <3>2
  <2>3. Len(manifest') = Len(manifest) /\ (manifest # << >> <=> manifest' # << >>)
    <3>1. manifest \in Seq(Segment)
      BY DEF RetentionInv, TypeInv, TypeOK
    <3>2. DOMAIN manifest = 1 .. Len(manifest) /\ Len(manifest) \in Nat
      BY <3>1
    <3>3. manifest' \in Seq({ manifest'[k] : k \in DOMAIN manifest })
      BY <2>1, <2>2, <3>2
    <3>4. DOMAIN manifest' = 1 .. Len(manifest') /\ Len(manifest') \in Nat
      BY <3>3
    <3>5. Len(manifest') = Len(manifest)
      BY <2>2, <3>2, <3>4
    <3> QED
      BY <3>1, <3>3, <3>5
  <2>4. Written' = Written
    <3>1. ASSUME NEW e PROVE e \in Written' <=> e \in Written
      BY <1>2, <2>2 DEF Written
    <3> QED
      BY <3>1
  <2>5. Settled' = Settled
    BY <1>1, <2>4 DEF Settled
  <2>6. Ordered' /\ RowsJoined'
    BY <1>2, <2>2, <2>4 DEF Ordered, RowsJoined
  <2>7. LogJoined'
    <3>1. Continues(manifest, active, prunes)
      BY DEF LogJoined
    <3>2. \A k \in DOMAIN manifest' : active # << >> => Later(manifest'[k].lines, active)
      BY <2>2, <3>1 DEF Continues
    <3>3. active # << >> /\ manifest' # << >> =>
            Joins(manifest'[Len(manifest')].lines, active, prunes)
      <4> SUFFICES ASSUME active # << >>, manifest' # << >>
                   PROVE  Joins(manifest'[Len(manifest')].lines, active, prunes)
        OBVIOUS
      <4>1. Len(manifest) \in DOMAIN manifest /\ manifest # << >>
        BY <2>3 DEF RetentionInv, TypeInv, TypeOK
      <4> QED
        BY <2>2, <2>3, <3>1, <4>1 DEF Continues
    <3>4. Continues(manifest', active, prunes)
      BY <3>2, <3>3 DEF Continues
    <3>5. Continues(manifest, active, prunes)'
      BY <1>2, <3>4
    <3> QED
      BY <1>1, <1>2, <3>5 DEF LogJoined
  <2>8. TailIsNewest'
    BY <1>2, <2>5 DEF TailIsNewest
  <2>9. GoneIsOldest'
    <3> SUFFICES ASSUME NEW j \in DOMAIN manifest,
                        ~(manifest[j].file /\ j \notin ExpiredRows)
                 PROVE  /\ \A i \in DOMAIN active :
                             Final(manifest[j].lines).ts < active[i].ts
                        /\ \A k \in DOMAIN manifest :
                             manifest[k].file /\ k \notin ExpiredRows =>
                               Final(manifest[j].lines).ts
                                 < Final(manifest[k].lines).ts
      BY <1>2, <2>2 DEF GoneIsOldest
    <3>1. CASE ~manifest[j].file
      BY <3>1 DEF GoneIsOldest
    <3>2. CASE j \in ExpiredRows
      <4>1. \A k \in DOMAIN manifest :
              /\ Final(manifest[k].lines).ts = TsLast(manifest[k])
              /\ Final(manifest[k].lines).ts \in Nat
        BY RowFacts, WrittenType
      <4>2. ret \in Nat /\ \A i \in DOMAIN active : active[i].ts \in Nat
        BY LogFacts, LineType DEF RetentionInv, TypeInv, TypeOK
      <4>3. \A i \in DOMAIN active : active[i].ts >= ret
        BY <1>1 DEF RetentionInv, Sweeping
      <4>4. Final(manifest[j].lines).ts < ret
        BY <3>2, <4>1 DEF ExpiredRows
      <4>5. \A k \in DOMAIN manifest : k \notin ExpiredRows =>
              ~(Final(manifest[k].lines).ts < ret)
        BY <4>1 DEF ExpiredRows
      <4> QED
        BY <4>1, <4>2, <4>3, <4>4, <4>5
    <3> QED
      BY <3>1, <3>2
  <2> QED
    BY <2>6, <2>7, <2>8, <2>9
<1> QED
  BY <1>4, <1>5

\* Positions listed in order: the first of a gapless end of the list follow one
\* another, and the last of them is the last of all.
LEMMA OrdersSuffix ==
    ASSUME NEW S, NEW m \in Seq(S), NEW T \in SUBSET DOMAIN m, NEW f \in Orders(m, T),
           \A j, k \in DOMAIN m : j \in T /\ j < k => k \in T
    PROVE  /\ DOMAIN f = 1 .. Len(At(m, f)) /\ Len(At(m, f)) \in Nat
           /\ \A i \in DOMAIN f : f[i] \in T /\ At(m, f)[i] = m[f[i]]
           /\ \A i, j \in DOMAIN f : i < j => f[i] < f[j]
           /\ \A i, j \in DOMAIN f : j = i + 1 => f[j] = f[i] + 1
           /\ At(m, f) # << >> =>
                Len(At(m, f)) \in DOMAIN f /\ f[Len(At(m, f))] = Len(m)
           /\ \A t \in T : \E i \in DOMAIN f : f[i] = t
<1>1. PICK n \in 0 .. Len(m) : f \in [1 .. n -> T]
  BY DEF Orders
<1>2. /\ n \in Nat /\ DOMAIN f = 1 .. n /\ \A i \in 1 .. n : f[i] \in T
      /\ DOMAIN m = 1 .. Len(m) /\ Len(m) \in Nat
  BY <1>1
<1>3. /\ \A i, j \in 1 .. n : i < j => f[i] < f[j]
      /\ \A t \in T : \E i \in 1 .. n : f[i] = t
  BY <1>2 DEF Orders
<1>4. /\ At(m, f) \in Seq({ m[f[k]] : k \in 1 .. n }) /\ Len(At(m, f)) = n
      /\ \A i \in 1 .. n : At(m, f)[i] = m[f[i]]
  BY <1>2 DEF At
<1>5. \A i \in 1 .. n : f[i] \in 1 .. Len(m) /\ f[i] \in Nat
  BY <1>2
<1>6. ASSUME NEW i \in 1 .. n, NEW j \in 1 .. n, j = i + 1
      PROVE  f[j] = f[i] + 1
  <2>1. f[i] < f[j] /\ f[i] \in 1 .. Len(m) /\ f[j] \in 1 .. Len(m)
    BY <1>2, <1>3, <1>5, <1>6
  <2>2. f[i] + 1 \in 1 .. Len(m) /\ f[i] < f[i] + 1
    BY <1>2, <2>1
  <2>3. f[i] + 1 \in T
    BY <1>2, <2>2
  <2>4. PICK l \in 1 .. n : f[l] = f[i] + 1
    BY <1>3, <2>3
  <2>5. ~(l < i) /\ l # i
    <3>1. l # i
      BY <2>1, <2>4
    <3>2. ~(l < i)
      <4> SUFFICES ASSUME l < i PROVE FALSE
        OBVIOUS
      <4>1. f[l] < f[i]
        BY <1>3
      <4> QED
        BY <1>5, <2>1, <2>4, <4>1
    <3> QED
      BY <3>1, <3>2
  <2>6. ~(j < l)
    <3> SUFFICES ASSUME j < l PROVE FALSE
      OBVIOUS
    <3>1. f[j] < f[l]
      BY <1>3
    <3> QED
      BY <1>5, <2>1, <2>4, <3>1
  <2>7. l = j
    <3>1. l \in Nat /\ i \in Nat
      BY <1>2
    <3> QED
      BY <1>6, <2>5, <2>6, <3>1
  <2> QED
    BY <2>4, <2>7
<1>7. ASSUME n # 0 PROVE n \in 1 .. n /\ f[n] = Len(m)
  <2>1. n \in 1 .. n
    BY <1>2, <1>7
  <2>2. f[n] \in 1 .. Len(m) /\ f[n] \in T
    BY <1>2, <1>5, <2>1
  <2> SUFFICES ASSUME f[n] # Len(m) PROVE FALSE
    BY <2>1
  <2>3. f[n] < Len(m) /\ Len(m) \in 1 .. Len(m)
    BY <1>2, <2>2
  <2>4. Len(m) \in T
    BY <1>2, <2>2, <2>3
  <2>5. PICK l \in 1 .. n : f[l] = Len(m)
    BY <1>3, <2>4
  <2>6. l = n \/ l < n
    BY <1>2
  <2>7. f[l] = f[n] \/ f[l] < f[n]
    BY <1>3, <2>1, <2>6
  <2> QED
    BY <1>2, <2>2, <2>3, <2>5, <2>7
<1>8. At(m, f) # << >> => n # 0
  BY <1>4
<1> QED
  BY <1>2, <1>3, <1>4, <1>6, <1>7, <1>8

\* Segment retention, second part: the rows that go are the oldest ones, and if
\* anything stays the newest entry does.
LEMMA ChainSaveManifest ==
    ASSUME SafeConfig, ChainInv, SaveManifest
    PROVE  Ordered' /\ RowsJoined' /\ LogJoined' /\ GoneIsOldest'
           /\ TailIsNewest'
<1> USE DEF ChainInv
<1> DEFINE T == DOMAIN manifest \ ExpiredRows
<1>1. /\ pc = "removed" /\ pc' = "free" /\ sweep = "retaining" /\ up = TRUE
      /\ manifest \in Seq(Segment)
  BY DEF SaveManifest, Sealing, RetentionInv, TypeInv, TypeOK, Running
<1>2. UNCHANGED << active, up, seq, hmac, prunes >>
  BY DEF SaveManifest, file, inner, counts
<1>3. PICK f \in Orders(manifest, T) : manifest' = At(manifest, f)
  BY DEF SaveManifest
<1>4. \A k \in DOMAIN manifest :
        /\ Final(manifest[k].lines).ts \in Nat
        /\ k \in T <=> ~(Final(manifest[k].lines).ts < ret)
  BY RowFacts, WrittenType DEF ExpiredRows
<1>5. ret \in Nat
  BY DEF RetentionInv, TypeInv, TypeOK
<1>6. ASSUME NEW j \in DOMAIN manifest, NEW k \in DOMAIN manifest, j \in T, j < k
      PROVE  k \in T
  <2>1. Final(manifest[j].lines).ts <= Final(manifest[k].lines).ts
    BY <1>6 DEF RowsJoined, Later
  <2> QED
    BY <1>4, <1>5, <1>6, <2>1
<1> HIDE DEF T
<1>7. T \subseteq DOMAIN manifest
  BY DEF T
<1>8. /\ DOMAIN f = 1 .. Len(manifest') /\ Len(manifest') \in Nat
      /\ DOMAIN manifest' = DOMAIN f
      /\ \A i \in DOMAIN f : f[i] \in T /\ manifest'[i] = manifest[f[i]]
      /\ \A i, j \in DOMAIN f : i < j => f[i] < f[j]
      /\ \A i, j \in DOMAIN f : j = i + 1 => f[j] = f[i] + 1
      /\ manifest' # << >> =>
           Len(manifest') \in DOMAIN f /\ f[Len(manifest')] = Len(manifest)
      /\ \A t \in T : \E i \in DOMAIN f : f[i] = t
  <2>1. DOMAIN At(manifest, f) = DOMAIN f
    BY DEF At
  <2> QED
    BY <1>1, <1>3, <1>6, <1>7, <2>1, OrdersSuffix
<1>9. \A i \in DOMAIN manifest' :
        f[i] \in DOMAIN manifest /\ manifest'[i] = manifest[f[i]]
  BY <1>7, <1>8
<1>10. Written' \subseteq Written
  <2> SUFFICES ASSUME NEW e \in Written' PROVE e \in Written
    OBVIOUS
  <2>1. \/ e \in Entries(active)
        \/ \E k \in DOMAIN manifest' : e \in Entries(manifest'[k].lines)
    BY <1>2 DEF Written
  <2> QED
    BY <1>9, <2>1 DEF Written
<1>11. Ordered'
  BY <1>10 DEF Ordered
<1>12. RowsJoined'
  <2> SUFFICES ASSUME NEW k \in DOMAIN manifest'
               PROVE  /\ Linked(manifest'[k].lines)
                      /\ \A j \in DOMAIN manifest' : j < k =>
                           /\ Later(manifest'[j].lines, manifest'[k].lines)
                           /\ k = j + 1 =>
                                Joins(manifest'[j].lines, manifest'[k].lines, prunes)
    BY <1>2 DEF RowsJoined
  <2>1. Linked(manifest'[k].lines)
    BY <1>9 DEF RowsJoined
  <2>2. ASSUME NEW j \in DOMAIN manifest', j < k
        PROVE  /\ Later(manifest'[j].lines, manifest'[k].lines)
               /\ k = j + 1 => Joins(manifest'[j].lines, manifest'[k].lines, prunes)
    <3>1. f[j] < f[k] /\ (k = j + 1 => f[k] = f[j] + 1)
      BY <1>8, <2>2
    <3> QED
      BY <1>9, <3>1 DEF RowsJoined
  <2> QED
    BY <2>1, <2>2
<1>13. LogJoined'
  <2>1. Continues(manifest, active, prunes)
    BY DEF LogJoined
  <2>2. active # << >> =>
          /\ \A k \in DOMAIN manifest' : Later(manifest'[k].lines, active)
          /\ manifest' # << >> => Joins(manifest'[Len(manifest')].lines, active, prunes)
    <3> SUFFICES ASSUME active # << >>
                 PROVE  /\ \A k \in DOMAIN manifest' : Later(manifest'[k].lines, active)
                        /\ manifest' # << >> =>
                             Joins(manifest'[Len(manifest')].lines, active, prunes)
      OBVIOUS
    <3>1. \A k \in DOMAIN manifest' : Later(manifest'[k].lines, active)
      BY <1>9, <2>1 DEF Continues
    <3>2. ASSUME manifest' # << >>
          PROVE  Joins(manifest'[Len(manifest')].lines, active, prunes)
      <4>1. manifest'[Len(manifest')] = manifest[Len(manifest)] /\ manifest # << >>
        BY <1>8, <1>9, <3>2
      <4> QED
        BY <2>1, <4>1 DEF Continues
    <3> QED
      BY <3>1, <3>2
  <2>3. Continues(manifest', active, prunes)
    BY <2>2 DEF Continues
  <2>4. Continues(manifest, active, prunes)'
    BY <1>2, <2>3
  <2> QED
    BY <1>1, <1>2, <2>4 DEF LogJoined
<1>14. GoneIsOldest'
  BY <1>2, <1>9 DEF GoneIsOldest
<1>15. TailIsNewest'
  <2>1. Settled' = Written' /\ Settled = Written
    BY <1>1 DEF Settled
  <2>2. /\ \A e \in Written : e.ts <= hmac /\ e.seq <= seq
        /\ seq = 0 => hmac = GENESIS
    BY <1>1, <2>1 DEF TailIsNewest
  <2>3. ASSUME NEW x \in Written'
        PROVE  \E e \in Written' : e.ts = hmac /\ e.seq = seq
    <3>1. PICK t \in Written : t.ts = hmac /\ t.seq = seq
      BY <1>1, <1>10, <2>1, <2>3 DEF TailIsNewest
    <3>2. hmac \in Nat
      BY DEF RetentionInv, TypeInv, TypeOK
    <3>3. hmac >= ret
      <4>1. CASE x \in Entries(active)
        <5>1. PICK i \in DOMAIN active : x = active[i]
          BY <4>1, LogFacts, EntryType
        <5>2. active[i].ts >= ret
          BY <1>1 DEF RetentionInv, Sweeping
        <5>3. x \in Written /\ x.ts \in Nat
          BY <1>10, WrittenType
        <5> QED
          BY <1>5, <2>2, <3>2, <5>1, <5>2, <5>3
      <4>2. ASSUME NEW k \in DOMAIN manifest', x \in Entries(manifest'[k].lines)
            PROVE  hmac >= ret
        <5>1. f[k] \in DOMAIN manifest /\ f[k] \in T
          BY <1>8, <1>9
        <5>2. Final(manifest[f[k]].lines) \in Written
          BY <5>1, RowFacts
        <5>3. /\ Final(manifest[f[k]].lines).ts <= hmac
              /\ Final(manifest[f[k]].lines).ts \in Nat
              /\ ~(Final(manifest[f[k]].lines).ts < ret)
          BY <1>4, <2>2, <5>1, <5>2
        <5> QED
          BY <1>5, <3>2, <5>3
      <4>3. \/ x \in Entries(active)
            \/ \E k \in DOMAIN manifest' : x \in Entries(manifest'[k].lines)
        BY <1>2 DEF Written
      <4> QED
        BY <4>1, <4>2, <4>3
    <3>4. t \in Written'
      <4>1. CASE t \in Entries(active)
        BY <1>2, <4>1 DEF Written
      <4>2. ASSUME NEW k \in DOMAIN manifest, t \in Entries(manifest[k].lines)
            PROVE  t \in Written'
        <5>1. t.ts <= Final(manifest[k].lines).ts
          BY <4>2, RowFacts
        <5>2. k \in T
          BY <1>4, <1>5, <3>1, <3>2, <3>3, <5>1
        <5>3. PICK i \in DOMAIN manifest' : f[i] = k
          BY <1>8, <5>2
        <5>4. t \in Entries(manifest'[i].lines)
          BY <1>9, <4>2, <5>3
        <5> QED
          BY <5>4 DEF Written
      <4> QED
        BY <4>1, <4>2, WrittenIff
    <3> QED
      BY <3>1, <3>4
  <2> QED
    BY <1>2, <1>10, <2>1, <2>2, <2>3 DEF TailIsNewest
<1> QED
  BY <1>11, <1>12, <1>13, <1>14, <1>15

\* A crash: at most the entry that was not synced goes.
LEMMA ChainCrash ==
    ASSUME SafeConfig, ChainInv, Crash
    PROVE  Ordered' /\ RowsJoined' /\ LogJoined' /\ GoneIsOldest'
           /\ TailIsNewest'
<1> USE DEF ChainInv
<1>1. pc' = "free" /\ sweep' = "off" /\ up' = FALSE
  BY DEF Crash
<1>2. UNCHANGED << manifest, prunes >>
  BY DEF Crash
<1>3. RowsJoined' /\ TailIsNewest'
  BY <1>1, <1>2 DEF RowsJoined, TailIsNewest
<1>4. CASE UNCHANGED file
  <2>1. UNCHANGED active
    BY <1>4 DEF file
  <2>2. Ordered' /\ GoneIsOldest'
    BY <1>2, <2>1 DEF Ordered, GoneIsOldest, Written
  <2>3. LogJoined'
    BY <1>1, <1>2, <2>1 DEF LogJoined
  <2> QED
    BY <1>3, <2>2, <2>3
<1>5. CASE pc = "wrote" /\ active' = before
  <2>1. active = Append(before, pend) /\ before \in Seq(Line) /\ pend \in Line
    BY <1>5 DEF Writing, RetentionInv, TypeInv, TypeOK
  <2>2. /\ Len(before) \in Nat /\ DOMAIN before = 1 .. Len(before)
        /\ DOMAIN active = 1 .. (Len(before) + 1)
        /\ \A i \in DOMAIN before : i \in DOMAIN active /\ before[i] = active[i]
    BY <2>1
  <2>3. Entries(before) \subseteq Entries(active)
    BY <2>2 DEF Entries, Lines
  <2>4. Written' \subseteq Written
    BY <1>2, <1>5, <2>3 DEF Written
  <2>5. Ordered' /\ GoneIsOldest'
    BY <1>2, <1>5, <2>2, <2>4 DEF Ordered, GoneIsOldest
  <2>6. Linked(before)
    <3> SUFFICES ASSUME NEW i \in DOMAIN before
                 PROVE  /\ before[i].seq = before[1].seq + (i - 1)
                        /\ i > 1 => before[i].prev = before[i - 1].ts
                        /\ before[i].seq = 1 => before[i].prev = GENESIS
      BY DEF Linked
    <3>1. 1 \in DOMAIN before /\ (i > 1 => i - 1 \in DOMAIN before)
      BY <2>2
    <3> QED
      BY <2>2, <3>1 DEF LogJoined, Linked
  <2>7. Continues(manifest, before, prunes)
    BY <1>5 DEF LogJoined
  <2>8. Continues(manifest, active, prunes)'
    BY <1>2, <1>5, <2>7
  <2> QED
    BY <1>1, <1>3, <1>5, <2>5, <2>6, <2>8 DEF LogJoined
<1> QED
  BY <1>4, <1>5 DEF Crash, LeaveTail, SafeConfig

\* A restart: scan_tail finds the newest entry of all files.
LEMMA ChainRestart ==
    ASSUME SafeConfig, ChainInv, Restart
    PROVE  Ordered' /\ RowsJoined' /\ LogJoined' /\ GoneIsOldest'
           /\ TailIsNewest'
<1> USE DEF ChainInv
<1>1. /\ up = FALSE /\ up' = TRUE
      /\ seq' = scan_tail(active, manifest).seq
      /\ hmac' = scan_tail(active, manifest).hmac
  BY DEF Restart, RetentionInv, TypeInv, TypeOK
<1>2. UNCHANGED << active, manifest, pc, pend, prunes >>
  BY DEF Restart, file, job, counts
<1>3. pc = "free"
  BY <1>1 DEF Running, RetentionInv, TypeInv, TypeOK, PcStates
<1>4. Written' = Written
  BY <1>2 DEF Written
<1>5. Ordered' /\ RowsJoined' /\ GoneIsOldest'
  BY <1>1, <1>2, <1>4 DEF Ordered, RowsJoined, GoneIsOldest
<1>6. LogJoined'
  BY <1>2, <1>3 DEF LogJoined
<1>7. Settled' = Written
  BY <1>2, <1>3, <1>4 DEF Settled
<1>8. ASSUME NEW l \in Written, seq' = l.seq, hmac' = l.ts,
             \A e \in Written : e.ts <= l.ts
      PROVE  TailIsNewest'
  <2>1. ASSUME NEW e \in Written PROVE e.seq <= l.seq
    <3>1. e.ts <= l.ts /\ e.ts \in Nat /\ l.ts \in Nat /\ e.seq \in Nat
          /\ l.seq \in Nat
      BY <1>8, WrittenType
    <3>2. CASE e.ts < l.ts
      BY <3>1, <3>2 DEF Ordered
    <3>3. CASE e.ts = l.ts
      BY <3>1, <3>3 DEF Ordered
    <3> QED
      BY <3>1, <3>2, <3>3
  <2>2. seq' # 0
    BY <1>8, WrittenType
  <2> QED
    BY <1>7, <1>8, <2>1, <2>2 DEF TailIsNewest
<1>9. CASE active # << >>
  <2>1. /\ active \in Seq(Line) /\ LastEntry(active) = Final(active)
        /\ Final(active) \in Written /\ Len(active) \in DOMAIN active
        /\ \A e \in Entries(active) : e.ts <= Final(active).ts
    BY <1>9, LogFacts
  <2>2. EntryIdx(active) # {}
    BY <2>1, LogFacts DEF EntryIdx, Chronological
  <2>3. scan_tail(active, manifest) = [seq |-> Final(active).seq, hmac |-> Final(active).ts]
    BY <2>1, <2>2 DEF scan_tail
  <2>4. seq' = Final(active).seq /\ hmac' = Final(active).ts
    BY <1>1, <2>3
  <2>5. ASSUME NEW e \in Written PROVE e.ts <= Final(active).ts
    <3>1. CASE e \in Entries(active)
      BY <2>1, <3>1
    <3>2. ASSUME NEW k \in DOMAIN manifest, e \in Entries(manifest[k].lines)
          PROVE  e.ts <= Final(active).ts
      <4>1. e.ts <= Final(manifest[k].lines).ts /\ Final(manifest[k].lines) \in Written
        BY <3>2, RowFacts
      <4>2. Final(manifest[k].lines).ts <= Final(active).ts
        BY <1>9 DEF LogJoined, Continues, Later
      <4> QED
        BY <2>1, <4>1, <4>2, WrittenType
    <3> QED
      BY <3>1, <3>2, WrittenIff
  <2>6. TailIsNewest'
    BY <1>8, <2>1, <2>4, <2>5
  <2> QED
    BY <1>5, <1>6, <2>6
<1>10. CASE active = << >> /\ manifest = << >>
  <2>1. Written = {}
    BY <1>10 DEF Written, Entries, Lines
  <2>2. scan_tail(active, manifest) = [seq |-> 0, hmac |-> GENESIS]
    BY <1>10 DEF scan_tail, EntryIdx
  <2>3. TailIsNewest'
    BY <1>1, <1>7, <2>1, <2>2 DEF TailIsNewest
  <2> QED
    BY <1>5, <1>6, <2>3
<1>11. CASE active = << >> /\ manifest # << >>
  <2>1. manifest \in Seq(Segment)
        /\ \A k \in DOMAIN manifest : EntryIdx(manifest[k].lines) # {}
    BY DEF RetentionInv, TypeInv, TypeOK, SealedFromEntries
  <2>2. PICK k \in DOMAIN manifest :
          /\ recover_tail(manifest) = [seq  |-> SeqEnd(manifest[k]),
                                       hmac |-> LastEntry(manifest[k].lines).ts]
          /\ \A j \in DOMAIN manifest : SeqEnd(manifest[j]) <= SeqEnd(manifest[k])
    BY <1>11, <2>1, RecoverTailChosen
  <2> DEFINE l == Final(manifest[k].lines)
  <2>3. l \in Written /\ SeqEnd(manifest[k]) = l.seq /\ TsLast(manifest[k]) = l.ts
    BY RowFacts
  <2>4. scan_tail(active, manifest) = [seq |-> l.seq, hmac |-> l.ts]
    BY <1>11, <2>2, <2>3 DEF scan_tail, EntryIdx, TsLast
  <2>5. seq' = l.seq /\ hmac' = l.ts
    BY <1>1, <2>4
  <2>6. ASSUME NEW e \in Written PROVE e.ts <= l.ts
    <3>1. e \notin Entries(active)
      BY <1>11 DEF Entries, Lines
    <3>2. PICK j \in DOMAIN manifest : e \in Entries(manifest[j].lines)
      BY <3>1, WrittenIff
    <3> DEFINE g == Final(manifest[j].lines)
    <3>3. e.ts <= g.ts /\ g \in Written /\ SeqEnd(manifest[j]) = g.seq
      BY <3>2, RowFacts
    <3>4. g.seq <= l.seq
      BY <2>2, <2>3, <3>3
    <3>5. /\ g.seq \in Nat /\ l.seq \in Nat /\ g.ts \in Nat /\ l.ts \in Nat
          /\ e.ts \in Nat
      BY <2>3, <3>3, WrittenType
    <3>6. ~(l.ts < g.ts)
      <4> HIDE DEF l, g
      <4> QED
        BY <2>3, <3>3, <3>4, <3>5 DEF Ordered
    <3> HIDE DEF l, g
    <3> QED
      BY <3>3, <3>5, <3>6
  <2> HIDE DEF l
  <2>7. TailIsNewest'
    BY <1>8, <2>3, <2>5, <2>6
  <2> QED
    BY <1>5, <1>6, <2>7
<1> QED
  BY <1>9, <1>10, <1>11

\* What an offline prune keeps is an end of the log.
LEMMA PrunedEnd ==
    ASSUME NEW s \in Seq(Line), NEW now \in Nat, Chronological(s, now), Linked(s),
           NEW cut \in Nat,
           NEW f \in Orders(s, DOMAIN s \ { i \in EntryIdx(s) : s[i].ts < cut }),
           NEW t, t = At(s, f)
    PROVE  Linked(t) /\ (t # << >> => s # << >> /\ Final(t) = Final(s))
<1> DEFINE T == DOMAIN s \ { i \in EntryIdx(s) : s[i].ts < cut }
<1>1. \A i \in DOMAIN s : s[i].ts \in Nat /\ (i \in T <=> ~(s[i].ts < cut))
  BY LineType DEF EntryIdx, Chronological
<1>2. \A i, j \in DOMAIN s : i \in T /\ i < j => j \in T
  <2> TAKE i, j \in DOMAIN s
  <2>1. i < j => s[i].ts < s[j].ts
    BY DEF Chronological
  <2> QED
    BY <1>1, <2>1
<1>3. T \subseteq DOMAIN s
  OBVIOUS
<1> HIDE DEF T
<1>4. f \in Orders(s, T)
  BY DEF T
<1>5. /\ DOMAIN f = 1 .. Len(t) /\ Len(t) \in Nat
      /\ \A i \in DOMAIN f : f[i] \in T /\ t[i] = s[f[i]]
      /\ \A i, j \in DOMAIN f : j = i + 1 => f[j] = f[i] + 1
      /\ t # << >> => Len(t) \in DOMAIN f /\ f[Len(t)] = Len(s)
  BY <1>2, <1>3, <1>4, OrdersSuffix
<1>6. DOMAIN t = DOMAIN f
  BY DEF At
<1>7. \A i \in DOMAIN t : f[i] \in DOMAIN s /\ f[i] \in Nat /\ t[i] = s[f[i]]
  BY <1>3, <1>5, <1>6
<1>8. ASSUME NEW i \in DOMAIN t PROVE 1 \in DOMAIN t /\ f[i] = f[1] + (i - 1)
  <2> DEFINE U == { j \in DOMAIN t : f[j] # f[1] + (j - 1) }
  <2>1. 1 \in DOMAIN t
    BY <1>5, <1>6
  <2>2. U = {}
    <3> SUFFICES ASSUME U # {} PROVE FALSE
      OBVIOUS
    <3>1. U \in SUBSET Nat
      BY <1>5, <1>6
    <3>2. PICK x \in U : \A y \in U : x <= y
      BY <3>1, LeastNat
    <3>3. x \in DOMAIN t /\ f[x] # f[1] + (x - 1) /\ x \in Nat /\ f[1] \in Nat
      BY <1>7, <2>1, <3>1
    <3>4. x # 1
      BY <3>3
    <3>5. x - 1 \in DOMAIN t /\ x = (x - 1) + 1 /\ x - 1 < x
      BY <1>5, <1>6, <3>3, <3>4
    <3>6. x - 1 \notin U
      BY <3>1, <3>2, <3>5
    <3>7. f[x - 1] = f[1] + ((x - 1) - 1) /\ f[x] = f[x - 1] + 1
      BY <1>5, <1>6, <3>3, <3>5, <3>6
    <3> QED
      BY <3>3, <3>7
  <2> QED
    BY <2>1, <2>2
<1>9. Linked(t)
  <2> SUFFICES ASSUME NEW i \in DOMAIN t
               PROVE  /\ t[i].seq = t[1].seq + (i - 1)
                      /\ i > 1 => t[i].prev = t[i - 1].ts
                      /\ t[i].seq = 1 => t[i].prev = GENESIS
    BY DEF Linked
  <2>1. /\ 1 \in DOMAIN t /\ f[i] = f[1] + (i - 1) /\ i \in Nat
        /\ f[i] \in DOMAIN s /\ f[1] \in DOMAIN s /\ f[i] \in Nat /\ f[1] \in Nat
        /\ t[i] = s[f[i]] /\ t[1] = s[f[1]]
    BY <1>5, <1>6, <1>7, <1>8
  <2>2. 1 \in DOMAIN s /\ s[1].seq \in Nat
    <3>1. DOMAIN s = 1 .. Len(s) /\ Len(s) \in Nat
      OBVIOUS
    <3>2. 1 \in DOMAIN s
      BY <2>1, <3>1
    <3> QED
      BY <3>2, LineType
  <2>3. t[i].seq = s[1].seq + (f[i] - 1) /\ t[1].seq = s[1].seq + (f[1] - 1)
    BY <2>1 DEF Linked
  <2>4. t[i].seq = t[1].seq + (i - 1)
    <3> DEFINE a == s[1].seq
               b == f[1]
               d == f[i]
    <3>1. a \in Nat /\ b \in Nat /\ i \in Nat /\ d = b + (i - 1)
      BY <2>1, <2>2
    <3> HIDE DEF a, b, d
    <3>2. a + (d - 1) = (a + (b - 1)) + (i - 1)
      BY <3>1
    <3> QED
      BY <2>3, <3>2 DEF a, b, d
  <2>5. ASSUME i > 1 PROVE t[i].prev = t[i - 1].ts
    <3>1. i - 1 \in DOMAIN t /\ i = (i - 1) + 1
      <4>1. DOMAIN t = 1 .. Len(t)
        BY <1>5, <1>6
      <4>2. i \in 1 .. Len(t) /\ Len(t) \in Nat
        BY <1>5, <4>1
      <4>3. i - 1 \in 1 .. Len(t) /\ i = (i - 1) + 1
        BY <2>5, <4>2
      <4> QED
        BY <4>1, <4>3
    <3>2. f[i] = f[i - 1] + 1 /\ f[i - 1] \in Nat /\ t[i - 1] = s[f[i - 1]]
          /\ f[i - 1] \in DOMAIN s
      BY <1>5, <1>6, <1>7, <3>1
    <3>3. f[i] > 1 /\ f[i] - 1 = f[i - 1]
      <4>1. f[i - 1] \in 1 .. Len(s)
        BY <3>2
      <4> QED
        BY <3>2, <4>1
    <3>4. s[f[i]].prev = s[f[i] - 1].ts
      BY <2>1, <3>3 DEF Linked
    <3> QED
      BY <2>1, <3>2, <3>3, <3>4
  <2>6. t[i].seq = 1 => t[i].prev = GENESIS
    BY <2>1 DEF Linked
  <2> QED
    BY <2>4, <2>5, <2>6
<1>10. t # << >> => s # << >> /\ Final(t) = Final(s)
  BY <1>3, <1>5 DEF Final
<1> QED
  BY <1>9, <1>10

\* An entry whose stamp lies between those of two entries of a chain is in it.
LEMMA BetweenIsIn ==
    ASSUME NEW s \in Seq(Line), Linked(s), NEW i \in DOMAIN s, NEW l \in DOMAIN s,
           NEW W, Lines(s) \subseteq W,
           \A e, g \in W : e.seq \in Nat /\ e.ts \in Nat /\ (e.ts < g.ts => e.seq < g.seq)
                          /\ (e.ts = g.ts => e = g),
           NEW e \in W, s[i].ts <= e.ts, e.ts <= s[l].ts
    PROVE  e \in Lines(s)
<1>1. \A k \in DOMAIN s : s[k] \in W
  BY DEF Lines
<1>2. s[i].seq <= e.seq /\ e.seq <= s[l].seq
  <2>1. s[i].ts \in Nat /\ e.ts \in Nat /\ s[l].ts \in Nat
        /\ s[i].seq \in Nat /\ e.seq \in Nat /\ s[l].seq \in Nat
    BY <1>1
  <2>2. s[i].ts < e.ts \/ s[i].ts = e.ts
    BY <2>1
  <2>3. e.ts < s[l].ts \/ e.ts = s[l].ts
    BY <2>1
  <2>4. s[i].seq < e.seq \/ s[i] = e
    BY <1>1, <2>2
  <2>5. e.seq < s[l].seq \/ e = s[l]
    BY <1>1, <2>3
  <2> QED
    BY <2>1, <2>4, <2>5
<1>3. /\ DOMAIN s = 1 .. Len(s) /\ Len(s) \in Nat /\ 1 \in DOMAIN s
      /\ i \in Nat /\ l \in Nat
  OBVIOUS
<1>4. s[1].seq \in Nat /\ e.seq \in Nat
  BY <1>1, <1>3
<1>5. s[i].seq = s[1].seq + (i - 1) /\ s[l].seq = s[1].seq + (l - 1)
  BY DEF Linked
<1> DEFINE x == (e.seq - s[1].seq) + 1
<1>6. x \in 1 .. Len(s) /\ x - 1 = e.seq - s[1].seq
  <2>1. i - 1 <= e.seq - s[1].seq /\ e.seq - s[1].seq <= l - 1
    BY <1>2, <1>3, <1>4, <1>5
  <2>2. 1 <= i /\ l <= Len(s)
    BY <1>3
  <2> QED
    BY <1>3, <1>4, <2>1, <2>2
<1> HIDE DEF x
<1>7. s[x].seq = e.seq
  <2>1. s[x].seq = s[1].seq + (x - 1)
    BY <1>3, <1>6 DEF Linked
  <2> QED
    BY <1>4, <1>6, <2>1
<1>8. s[x] = e
  <2>1. s[x] \in W /\ s[x].ts \in Nat /\ e.ts \in Nat
    BY <1>1, <1>3, <1>6
  <2>2. ~(s[x].ts < e.ts) /\ ~(e.ts < s[x].ts)
    <3>1. s[x].ts < e.ts => s[x].seq < e.seq
      BY <2>1
    <3>2. e.ts < s[x].ts => e.seq < s[x].seq
      BY <2>1
    <3> QED
      BY <1>4, <1>7, <3>1, <3>2
  <2>3. s[x].ts = e.ts
    BY <2>1, <2>2
  <2> QED
    BY <2>1, <2>3
<1> QED
  BY <1>3, <1>6, <1>8 DEF Lines

\* An offline prune: the log keeps an end of its chain.  A segment that shared
\* entries with the log still does, or is older than all that is left.
LEMMA ChainPruneRename ==
    ASSUME SafeConfig, ChainInv, NEW p \in Pruners, PruneRename(p)
    PROVE  Ordered' /\ RowsJoined' /\ LogJoined' /\ GoneIsOldest'
           /\ TailIsNewest'
<1> USE DEF ChainInv
<1>0. TypeOK /\ Attached /\ Running /\ Pruning
  BY DEF RetentionInv, TypeInv
<1>1. p = "admin" /\ pruner["admin"] = TRUE
  BY <1>0 DEF PruneRename, Attached, TypeOK, Pruners
<1>2. active' = kept["admin"] /\ UNCHANGED << manifest, up, pc, prunes >>
  BY <1>1 DEF PruneRename, counts
<1>3. up = FALSE /\ pc = "free" /\ prunes # 0
  BY <1>0, <1>1 DEF Pruning, Running
<1>4. PICK cut \in Nat : \E f \in Orders(active, DOMAIN active \ Old(cut)) :
         cut <= expired /\ kept["admin"] = At(active, f)
  BY <1>0, <1>1 DEF Pruning
<1>5. active \in Seq(Line) /\ Chronological(active, clock) /\ clock \in Nat
      /\ Linked(active)
  BY <1>0, LogFacts DEF LogJoined, TypeOK
<1>6. /\ active' \in Seq(Line) /\ Chronological(active', clock)
      /\ Entries(active') = { e \in Entries(active) : e.ts >= cut }
  BY <1>2, <1>4, <1>5, PrunedFile DEF Old
<1>7. /\ Linked(active')
      /\ active' # << >> => active # << >> /\ Final(active') = Final(active)
  BY <1>2, <1>4, <1>5, PrunedEnd DEF Old
<1>8. Written' \subseteq Written
  BY <1>2, <1>6 DEF Written
<1>9. Ordered' /\ RowsJoined' /\ TailIsNewest'
  BY <1>2, <1>3, <1>8 DEF Ordered, RowsJoined, TailIsNewest
<1>10. GoneIsOldest'
  <2> SUFFICES ASSUME NEW j \in DOMAIN manifest, ~manifest[j].file, NEW i \in DOMAIN active'
               PROVE  Final(manifest[j].lines).ts < active'[i].ts
    BY <1>2 DEF GoneIsOldest
  <2>1. active'[i] \in Entries(active)
    BY <1>6 DEF Entries, Lines, Chronological
  <2>2. PICK h \in DOMAIN active : active[h] = active'[i]
    BY <1>5, <2>1, EntryType
  <2> QED
    BY <2>2 DEF GoneIsOldest
<1>11. ASSUME active' # << >>, NEW k \in DOMAIN manifest
       PROVE  Later(manifest[k].lines, active')
  <2> DEFINE s == manifest[k].lines
             e == active'[1]
  <2>1. Later(s, active) /\ active # << >> /\ Final(active') = Final(active)
    BY <1>7, <1>11 DEF LogJoined, Continues
  <2>2. e \in Entries(active') /\ e \in Entries(active) /\ e.ts >= cut /\ e \in Written
    BY <1>5, <1>6, <1>11, FileEnds DEF Written
  <2>3. /\ s \in Seq(Line) /\ s # << >> /\ Linked(s) /\ Entries(s) = Lines(s)
        /\ Final(s) \in Written /\ Lines(s) \subseteq Written
        /\ Len(s) \in DOMAIN s /\ Final(s) = s[Len(s)]
    <3>1. s \in Seq(Line) /\ s # << >> /\ Final(s) \in Written /\ Chronological(s, clock)
      BY RowFacts
    <3>2. Entries(s) = Lines(s)
      BY <3>1 DEF Chronological, Entries, Lines
    <3>3. Entries(s) \subseteq Written
      BY DEF Written
    <3>4. Len(s) \in DOMAIN s
      BY <3>1, LastIndex
    <3> QED
      BY <3>1, <3>2, <3>3, <3>4 DEF RowsJoined, Final
  <2> HIDE DEF s, e
  <2>4. Final(s).ts \in Nat /\ e.ts \in Nat /\ active[1].ts \in Nat
        /\ active[1].ts <= e.ts
    <3>1. active[1] \in Entries(active) /\ active[1].ts <= e.ts
      BY <2>1, <2>2, LogFacts
    <3> QED
      BY <1>5, <2>2, <2>3, <3>1, WrittenType, EntryType
  <2>5. Shares(s, active') \/ Final(s).ts < e.ts
    <3>1. CASE ~Shares(s, active)
      BY <2>1, <2>4, <3>1 DEF Later
    <3>2. CASE Shares(s, active) /\ ~(Final(s).ts < e.ts)
      <4>1. PICK g \in Entries(s) : g \in Entries(active)
        BY <3>2 DEF Shares
      <4>2. g.ts \in Nat
        BY <1>5, <4>1, EntryType
      <4>3. CASE g.ts >= cut
        BY <1>6, <4>1, <4>3 DEF Shares
      <4>4. CASE ~(g.ts >= cut)
        <5>1. PICK i \in DOMAIN s : s[i] = g
          BY <2>3, <4>1 DEF Lines
        <5>2. s[i].ts <= e.ts /\ e.ts <= s[Len(s)].ts
          BY <2>2, <2>3, <2>4, <3>2, <4>2, <4>4, <5>1
        <5>3. \A a, b \in Written : /\ a.seq \in Nat /\ a.ts \in Nat
                                    /\ a.ts < b.ts => a.seq < b.seq
                                    /\ a.ts = b.ts => a = b
          BY WrittenType DEF Ordered
        <5>4. e \in Lines(s)
          BY <2>2, <2>3, <5>2, <5>3, BetweenIsIn
        <5> QED
          BY <2>2, <2>3, <5>4 DEF Shares
      <4> QED
        BY <4>3, <4>4
    <3> QED
      BY <3>1, <3>2
  <2> QED
    BY <2>1, <2>5 DEF Later, s, e
<1>12. LogJoined'
  <2>1. \A a, b : Joins(a, b, prunes)
    BY <1>3 DEF Joins
  <2>2. Continues(manifest, active', prunes)
    BY <1>11, <2>1 DEF Continues
  <2>3. Continues(manifest, active, prunes)'
    BY <1>2, <2>2
  <2> QED
    BY <1>2, <1>3, <1>7, <2>3 DEF LogJoined
<1> QED
  BY <1>9, <1>10, <1>12

\* Every step keeps the chain.
LEMMA ChainStep ==
    ASSUME SafeConfig, ChainInv, [Next]_vars, RetentionInv'
    PROVE  ChainInv'
<1> SUFFICES Ordered' /\ RowsJoined' /\ LogJoined' /\ GoneIsOldest'
             /\ TailIsNewest'
  BY DEF ChainInv
<1>1. CASE UNCHANGED vars
  BY <1>1, ChainAlone DEF vars
<1>2. CASE Reopen
  BY <1>2, ChainAlone DEF Reopen, Unlock, file, counts
<1>3. CASE SweepStart
  BY <1>3, ChainAlone DEF SweepStart, file, inner, job, counts
<1>4. CASE SweepRotate
  BY <1>4, ChainAlone DEF SweepRotate, file, inner, counts
<1>5. CASE SweepPrune
  BY <1>5, ChainAlone DEF SweepPrune, file, inner, job, counts
<1>6. CASE PruneStart
  <2>1. prunes \in Nat /\ prunes' = prunes + 1
    BY <1>6 DEF PruneStart, ChainInv, RetentionInv, TypeInv, TypeOK
  <2>2. prunes' # 0
    BY <2>1
  <2> QED
    BY <1>6, <2>2, ChainAlone DEF PruneStart, file, inner, job
<1>7. ~AppendFails /\ ~RotateFails
  BY DEF AppendFails, RotateFails, SafeConfig
<1> QED
  BY <1>1, <1>2, <1>3, <1>4, <1>5, <1>6, <1>7, ChainPruneRename, ChainAppendWrite,
     ChainAppendSync, ChainSealSegment, ChainTruncate, ChainRemoveSegments,
     ChainSaveManifest, ChainCrash, ChainRestart DEF Next

\* An empty log is a chain.
LEMMA ChainInit == Init => ChainInv
<1> SUFFICES ASSUME Init PROVE ChainInv
  OBVIOUS
<1>1. RetentionInv
  BY RetentionInit
<1>2. Written = {}
  BY DEF Init, Written, Entries, Lines
<1>3. Ordered /\ RowsJoined /\ LogJoined /\ GoneIsOldest
  BY <1>2 DEF Init, Ordered, RowsJoined, LogJoined, Linked, Continues,
     GoneIsOldest
<1>4. TailIsNewest
  BY <1>2 DEF Init, TailIsNewest, Settled, GENESIS
<1> QED
  BY <1>1, <1>3, <1>4 DEF ChainInv

\* The invariant holds.
LEMMA ChainHolds ==
    ASSUME SafeConfig
    PROVE  Spec => []ChainInv
<1>1. ChainInv /\ [Next]_vars => ChainInv'
  BY RetentionStep, ChainStep DEF ChainInv
<1> QED
  BY <1>1, ChainInit, PTL DEF Spec

\* What can be read back of the completed entries ends with the one that the
\* running daemon continues from.
LEMMA DurableTail ==
    ASSUME ChainInv, up = TRUE, Durable # {}
    PROVE  \E e \in Durable :
             /\ e.ts = hmac /\ e.seq = seq
             /\ \A f \in Durable : f.ts <= e.ts /\ f.seq <= e.seq
<1> USE DEF ChainInv
<1>1. \A e : e \in Durable <=> e \in OnDisk /\ (pc = "wrote" => e # pend)
  BY DEF Durable
<1>2. OnDisk \subseteq Written
  BY DEF OnDisk, Written
<1>3. Durable \subseteq Settled
  BY <1>1, <1>2 DEF Settled
<1>4. PICK t \in Settled : t.ts = hmac /\ t.seq = seq
  BY <1>3 DEF TailIsNewest
<1>5. \A f \in Settled : f.ts <= hmac /\ f.seq <= seq
  BY DEF TailIsNewest
<1>6. t \in Written /\ (pc = "wrote" => t # pend) /\ hmac \in Nat
  BY DEF Settled, RetentionInv, TypeInv, TypeOK
<1>7. ASSUME NEW k \in DOMAIN manifest
      PROVE  /\ Final(manifest[k].lines).ts <= hmac
             /\ Final(manifest[k].lines).ts \in Nat
  <2>1. Final(manifest[k].lines) \in Written
    BY RowFacts
  <2>2. pc = "wrote" => Final(manifest[k].lines) # pend
    <3>1. pc = "wrote" => Final(manifest[k].lines).ts < pend.ts
      BY DEF LogJoined
    <3>2. pend.ts \in Nat
      BY Numbers DEF RetentionInv, TypeInv
    <3> QED
      BY <3>1, <3>2
  <2>3. Final(manifest[k].lines) \in Settled
    BY <2>1, <2>2 DEF Settled
  <2> QED
    BY <1>5, <2>1, <2>3, WrittenType
<1>8. t \in OnDisk
  <2> SUFFICES ASSUME t \notin OnDisk PROVE FALSE
    OBVIOUS
  <2>1. t \notin Entries(active)
    BY OnDiskIff
  <2>2. PICK k \in DOMAIN manifest : t \in Entries(manifest[k].lines)
    BY <1>6, <2>1, WrittenIff
  <2>3. ~manifest[k].file
    BY <2>2, OnDiskIff
  <2>4. Final(manifest[k].lines).ts = hmac
    <3>1. t.ts <= Final(manifest[k].lines).ts
      BY <2>2, RowFacts
    <3> QED
      BY <1>4, <1>6, <1>7, <3>1
  <2>5. PICK x \in Durable : TRUE
    OBVIOUS
  <2>6. x \in OnDisk /\ x \in Settled /\ x.ts <= hmac /\ x.ts \in Nat
    BY <1>1, <1>2, <1>3, <1>5, WrittenType
  <2>7. CASE x \in Entries(active)
    <3>1. PICK i \in DOMAIN active : x = active[i]
      BY <2>7, LogFacts, EntryType
    <3>2. hmac < x.ts
      BY <2>3, <2>4, <3>1 DEF GoneIsOldest
    <3> QED
      BY <1>6, <2>6, <3>2
  <2>8. ASSUME NEW j \in DOMAIN manifest, manifest[j].file PROVE FALSE
    <3>1. hmac < Final(manifest[j].lines).ts
      BY <2>3, <2>4, <2>8 DEF GoneIsOldest
    <3> QED
      BY <1>6, <1>7, <3>1
  <2> QED
    BY <2>6, <2>7, <2>8, OnDiskIff
<1>9. t \in Durable
  BY <1>1, <1>6, <1>8
<1> QED
  BY <1>3, <1>4, <1>5, <1>9

\* With rotation by age below the retention period and writes that are atomic,
\* LogInner.seq and LogInner.last_hmac are those of the newest entry that can be
\* read back whenever the mutex is free: after a rotation, after a sweep that a
\* crash interrupted between the removal of the files and the manifest, after a
\* prune while the daemon was down, and after every restart.  The next append continues the chain that is on disk.
THEOREM TailStaysInSync ==
    ASSUME SafeConfig
    PROVE  Spec => []TailInSync
<1>1. ChainInv => TailInSync
  <2> SUFFICES ASSUME ChainInv, up, pc = "free", OnDisk # {}
               PROVE  \E e \in OnDisk :
                        /\ e.seq = seq /\ e.ts = hmac
                        /\ \A f \in OnDisk : f.ts <= e.ts /\ f.seq <= e.seq
    BY DEF TailInSync, TailContinues, ChainInv, RetentionInv, TypeInv
  <2>1. Durable = OnDisk
    BY DEF Durable
  <2>2. up = TRUE
    BY DEF ChainInv, RetentionInv, TypeInv, TypeOK
  <2> QED
    BY <2>1, <2>2, DurableTail
<1> QED
  BY <1>1, ChainHolds, PTL

\* A step that completes the append under way records one entry at the end of
\* the chain.
LEMMA RecordStep ==
    ASSUME ChainInv, pc = "wrote", Durable' = OnDisk, expired' = expired
    PROVE  Trail!Record
<1> USE DEF ChainInv
<1>1. up = TRUE
  BY DEF Running, RetentionInv
<1>2. /\ pend \in Entries(active) /\ pend.ts = clock /\ pend.seq = seq + 1
      /\ pend.prev = hmac /\ seq \in Nat /\ clock \in Nat
  <2>1. active = Append(before, pend) /\ IsEntry(pend) /\ pend.ts = clock
    BY DEF Writing, RetentionInv
  <2>2. before \in Seq(Line) /\ pend \in Line /\ seq \in Nat /\ clock \in Nat
    BY DEF RetentionInv, TypeInv, TypeOK
  <2>3. Len(before) + 1 \in DOMAIN active /\ active[Len(before) + 1] = pend
    BY <2>1, <2>2, AppendedLast
  <2> QED
    BY <2>1, <2>2, <2>3 DEF Entries, Lines, LogJoined
<1>3. pend \in OnDisk /\ Durable = OnDisk \ {pend} /\ OnDisk \subseteq Written
  BY <1>2 DEF OnDisk, Durable, Written
<1>4. Durable' = Durable \cup {pend} /\ pend \in Durable' \ Durable
  BY <1>3
<1>5. ASSUME NEW f \in Durable PROVE f.ts < pend.ts /\ f.seq < pend.seq
  <2>1. f \in Written /\ f \in Settled /\ f # pend /\ pend \in Written
    BY <1>2, <1>3 DEF Settled, Written
  <2>2. f.seq <= seq /\ f.ts <= clock /\ f.ts \in Nat /\ f.seq \in Nat
    BY <1>1, <2>1, WrittenType DEF TailIsNewest
  <2>3. f.ts # pend.ts
    BY <2>1 DEF Ordered
  <2> QED
    BY <1>2, <2>2, <2>3
<1>6. ASSUME Durable # {}
      PROVE  \E f \in Durable : pend.prev = f.ts /\ pend.seq = f.seq + 1
  <2>1. PICK f \in Durable : f.ts = hmac /\ f.seq = seq
    BY <1>1, <1>6, DurableTail
  <2> QED
    BY <1>2, <2>1
<1> QED
  BY <1>4, <1>5, <1>6 DEF Trail!Record

\* A step that loses nothing but what retention has passed.
LEMMA ExpireStep ==
    ASSUME expired' >= expired, Durable' \subseteq Durable,
           \A e \in Durable : e.ts < expired' \/ e \in Durable'
    PROVE  Trail!Expire
  BY DEF Trail!Expire

\* Every step of the log is a step of the trail, or changes nothing it shows.
LEMMA TrailStep ==
    ASSUME SafeConfig, ChainInv, [Next]_vars
    PROVE  [Trail!Next]_<< Durable, expired >>
<1> USE DEF ChainInv
<1> SUFFICES Trail!Record \/ Trail!Expire \/ UNCHANGED << Durable, expired >>
  BY DEF Trail!Next
<1>1. CASE UNCHANGED << active, manifest, pc, pend, expired >>
  <2>1. UNCHANGED Durable
    BY <1>1 DEF Durable, OnDisk
  <2> QED
    BY <1>1, <2>1
<1>2. CASE UNCHANGED << active, manifest, expired >> /\ pc # "wrote" /\ pc' # "wrote"
  <2>1. UNCHANGED Durable
    BY <1>2 DEF Durable, OnDisk
  <2> QED
    BY <1>2, <2>1
<1>3. CASE AppendWrite
  <2> DEFINE e == NextEntry
  <2>1. /\ active' = Append(active, e) /\ pend' = e /\ pc = "free" /\ pc' = "wrote"
        /\ UNCHANGED << manifest, expired >>
    BY <1>3 DEF AppendWrite, Attached, RetentionInv, ghost
  <2>2. e \in Line /\ e.ts = clock + 1 /\ e.seq > 0 /\ clock \in Nat
        /\ active \in Seq(Line)
    <3>1. e.ts = clock + 1 /\ e.seq = seq + 1 /\ seq \in Nat /\ clock \in Nat /\ TypeOK
      BY DEF NextEntry, RetentionInv, TypeInv, TypeOK
    <3> QED
      BY <3>1, NextEntryType, LogFacts
  <2> HIDE DEF e
  <2>3. Entries(active') = Entries(active) \cup {e}
    <3>1. Lines(active') = Lines(active) \cup {e}
      BY <2>1, <2>2 DEF Lines
    <3> QED
      BY <2>2, <3>1 DEF Entries, IsEntry
  <2>4. OnDisk' = OnDisk \cup {e}
    BY <2>1, <2>3 DEF OnDisk
  <2>5. e \notin OnDisk
    <3>1. OnDisk \subseteq Written
      BY DEF OnDisk, Written
    <3>2. \A f \in Written : f.ts <= clock /\ f.ts \in Nat
      BY WrittenType
    <3> QED
      BY <2>2, <3>1, <3>2
  <2>6. Durable = OnDisk /\ Durable' = OnDisk' \ {e}
    BY <2>1 DEF Durable
  <2> QED
    BY <2>1, <2>4, <2>5, <2>6
<1>4. CASE AppendSync
  <2>1. pc = "wrote" /\ pc' # "wrote" /\ UNCHANGED << active, manifest, expired >>
    BY <1>4 DEF AppendSync, file
  <2>2. OnDisk' = OnDisk /\ Durable' = OnDisk'
    BY <2>1 DEF OnDisk, Durable
  <2> QED
    BY <2>1, <2>2, RecordStep
<1>5. CASE SealSegment
  <2> DEFINE row == [lines |-> content, file |-> TRUE]
             n   == Len(manifest)
  <2>1. /\ pc = "seal" /\ pc' = "sealed" /\ content = active
        /\ manifest' = Append(manifest, row) /\ manifest \in Seq(Segment)
        /\ UNCHANGED << active, expired >>
    BY <1>5 DEF SealSegment, Sealing, RetentionInv, TypeInv, TypeOK, file, ghost
  <2>2. row.lines = active /\ row.file = TRUE
    BY <2>1
  <2>3. /\ n \in Nat /\ DOMAIN manifest = 1 .. n /\ DOMAIN manifest' = 1 .. (n + 1)
        /\ \A k \in 1 .. n : manifest'[k] = manifest[k]
        /\ manifest'[n + 1] = row
    <3> HIDE DEF row
    <3> QED
      BY <2>1
  <2> HIDE DEF row, n
  <2>4. ASSUME NEW e PROVE e \in OnDisk' <=> e \in OnDisk
    <3>1. e \in OnDisk' <=>
             \/ e \in Entries(active)
             \/ \E k \in DOMAIN manifest' :
                  manifest'[k].file /\ e \in Entries(manifest'[k].lines)
      BY <2>1 DEF OnDisk
    <3>2. ASSUME NEW k \in DOMAIN manifest', manifest'[k].file,
                 e \in Entries(manifest'[k].lines)
          PROVE  e \in OnDisk
      <4>1. CASE k \in 1 .. n
        BY <2>3, <3>2, <4>1, OnDiskIff
      <4>2. CASE k = n + 1
        BY <2>2, <2>3, <3>2, <4>2, OnDiskIff
      <4> QED
        BY <2>3, <4>1, <4>2
    <3>3. ASSUME NEW k \in DOMAIN manifest, manifest[k].file,
                 e \in Entries(manifest[k].lines)
          PROVE  \E j \in DOMAIN manifest' :
                   manifest'[j].file /\ e \in Entries(manifest'[j].lines)
      <4>1. k \in DOMAIN manifest' /\ manifest'[k] = manifest[k]
        BY <2>3
      <4> QED
        BY <3>3, <4>1
    <3> QED
      BY <3>1, <3>2, <3>3, OnDiskIff
  <2>5. OnDisk' = OnDisk
    BY <2>4
  <2>6. UNCHANGED Durable
    BY <2>1, <2>5 DEF Durable
  <2> QED
    BY <2>1, <2>6
<1>6. CASE Truncate
  <2>1. /\ pc = "sealed" /\ pc' = "truncated" /\ active' = << >>
        /\ manifest # << >> /\ manifest[Len(manifest)].lines = active
        /\ manifest[Len(manifest)].file = TRUE /\ manifest \in Seq(Segment)
        /\ UNCHANGED << manifest, expired >>
    BY <1>6 DEF Truncate, Sealing, RetentionInv, TypeInv, TypeOK, ghost
  <2>2. Len(manifest) \in DOMAIN manifest
    BY <2>1
  <2>3. ASSUME NEW e PROVE e \in OnDisk' <=> e \in OnDisk
    <3>1. Entries(active') = {}
      BY <2>1 DEF Entries, Lines
    <3>2. e \in OnDisk' <=>
             \/ e \in Entries(active')
             \/ \E k \in DOMAIN manifest :
                  manifest[k].file /\ e \in Entries(manifest[k].lines)
      BY <2>1 DEF OnDisk
    <3> QED
      BY <2>1, <2>2, <3>1, <3>2, OnDiskIff
  <2>4. OnDisk' = OnDisk
    BY <2>3
  <2>5. UNCHANGED Durable
    BY <2>1, <2>4 DEF Durable
  <2> QED
    BY <2>1, <2>5
<1>7. CASE SweepStart
  <2>1. UNCHANGED << active, manifest, pc, pend >>
        /\ expired' = IF ret' > expired THEN ret' ELSE expired
    BY <1>7 DEF SweepStart, file, job
  <2>2. UNCHANGED Durable
    BY <2>1 DEF Durable, OnDisk
  <2>3. expired' >= expired
    <3>1. expired \in Nat /\ clock \in Nat /\ ret \in Nat
      BY DEF RetentionInv, TypeInv, TypeOK
    <3>2. ret' \in Nat
      BY <1>7, <3>1 DEF SweepStart
    <3> QED
      BY <2>1, <3>1, <3>2
  <2> QED
    BY <2>2, <2>3, ExpireStep
<1>8. ASSUME pc # "wrote", pc' # "wrote", expired' = expired, OnDisk' \subseteq OnDisk,
             \A e \in OnDisk : e.ts < expired \/ e \in OnDisk'
      PROVE  Trail!Expire
  <2>1. Durable = OnDisk /\ Durable' = OnDisk'
    BY <1>8 DEF Durable
  <2>2. expired' >= expired
    BY <1>8 DEF RetentionInv, TypeInv, TypeOK
  <2> QED
    BY <1>8, <2>1, <2>2, ExpireStep
<1>9. ASSUME NEW k \in ExpiredRows, NEW e \in Entries(manifest[k].lines)
      PROVE  e.ts < expired
  BY ExpiredRowsExpired DEF RetentionInv, TypeInv
<1>10. CASE RemoveSegments /\ ExpiredRows # {}
  <2>1. /\ pc = "free" /\ pc' = "removed" /\ UNCHANGED << active, expired >>
        /\ manifest' = [k \in DOMAIN manifest |->
             [manifest[k] EXCEPT !.file = @ /\ k \notin ExpiredRows]]
    BY <1>10 DEF RemoveSegments, file, ghost
  <2>2. /\ DOMAIN manifest' = DOMAIN manifest
        /\ \A k \in DOMAIN manifest :
             /\ manifest'[k].lines = manifest[k].lines
             /\ manifest'[k].file <=> manifest[k].file /\ k \notin ExpiredRows
    <3>1. \A k \in DOMAIN manifest : manifest[k] \in Segment
      BY RowType DEF RetentionInv, TypeInv, TypeOK
    <3>2. \A k \in DOMAIN manifest :
            LET r == [manifest[k] EXCEPT !.file = @ /\ k \notin ExpiredRows]
            IN  /\ r.lines = manifest[k].lines
                /\ r.file <=> manifest[k].file /\ k \notin ExpiredRows
      BY <3>1, Zenon DEF Segment
    <3> QED
      BY <2>1, <3>2
  <2>3. ASSUME NEW e
        PROVE  e \in OnDisk' <=>
                 \/ e \in Entries(active)
                 \/ \E k \in DOMAIN manifest :
                      /\ manifest[k].file /\ k \notin ExpiredRows
                      /\ e \in Entries(manifest[k].lines)
    <3>1. e \in OnDisk' <=>
             \/ e \in Entries(active)
             \/ \E k \in DOMAIN manifest' :
                  manifest'[k].file /\ e \in Entries(manifest'[k].lines)
      BY <2>1, Zenon DEF OnDisk
    <3> QED
      BY <2>2, <3>1
  <2>4. OnDisk' \subseteq OnDisk
    BY <2>3, OnDiskIff
  <2>5. \A e \in OnDisk : e.ts < expired \/ e \in OnDisk'
    BY <1>9, <2>3, OnDiskIff
  <2> QED
    BY <1>8, <2>1, <2>4, <2>5
<1>11. CASE SaveManifest
  <2>1. /\ pc = "removed" /\ pc' = "free" /\ UNCHANGED << active, expired >>
    BY <1>11 DEF SaveManifest, file, ghost
  <2>2. PICK f \in Orders(manifest, DOMAIN manifest \ ExpiredRows) :
          manifest' = At(manifest, f)
    BY <1>11 DEF SaveManifest
  <2>3. /\ DOMAIN manifest' = DOMAIN f
        /\ \A i \in DOMAIN f : f[i] \in DOMAIN manifest /\ manifest'[i] = manifest[f[i]]
        /\ \A k \in DOMAIN manifest \ ExpiredRows : \E i \in DOMAIN f : f[i] = k
    BY <2>2 DEF Orders, At
  <2>4. ASSUME NEW e
        PROVE  e \in OnDisk' <=>
                 \/ e \in Entries(active)
                 \/ \E i \in DOMAIN f :
                      /\ manifest[f[i]].file
                      /\ e \in Entries(manifest[f[i]].lines)
    BY <2>1, <2>3 DEF OnDisk
  <2>5. OnDisk' \subseteq OnDisk
    BY <2>3, <2>4, OnDiskIff
  <2>6. \A e \in OnDisk : e.ts < expired \/ e \in OnDisk'
    <3> SUFFICES ASSUME NEW e \in OnDisk, ~(e.ts < expired), e \notin Entries(active)
                 PROVE  e \in OnDisk'
      BY <2>4
    <3>1. PICK k \in DOMAIN manifest :
            manifest[k].file /\ e \in Entries(manifest[k].lines)
      BY OnDiskIff
    <3>2. k \notin ExpiredRows
      BY <1>9, <3>1
    <3>3. PICK i \in DOMAIN f : f[i] = k
      BY <2>3, <3>2
    <3> QED
      BY <2>4, <3>1, <3>3
  <2> QED
    BY <1>8, <2>1, <2>5, <2>6
<1>12. CASE Crash
  <2>1. pc' = "free" /\ UNCHANGED << manifest, expired >>
    BY <1>12 DEF Crash, ghost
  <2>2. CASE UNCHANGED file
    <3>1. OnDisk' = OnDisk /\ Durable' = OnDisk' /\ UNCHANGED active
      BY <2>1, <2>2 DEF OnDisk, Durable, file
    <3>2. CASE pc = "wrote"
      BY <2>1, <3>1, <3>2, RecordStep
    <3>3. CASE pc # "wrote"
      BY <1>2, <2>1, <3>1, <3>3
    <3> QED
      BY <3>2, <3>3
  <2>3. CASE pc = "wrote" /\ active' = before
    <3>1. /\ active = Append(before, pend) /\ IsEntry(pend) /\ pend.ts = clock
          /\ before \in Seq(Line) /\ pend \in Line /\ clock \in Nat
      BY <2>3 DEF Writing, RetentionInv, TypeInv, TypeOK
    <3>2. /\ Len(before) \in Nat /\ DOMAIN before = 1 .. Len(before)
          /\ DOMAIN active = 1 .. (Len(before) + 1)
          /\ \A i \in DOMAIN before : before[i] = active[i]
          /\ active[Len(before) + 1] = pend
      BY <3>1
    <3>3. \A i \in DOMAIN before : before[i] # pend
      <4> TAKE i \in DOMAIN before
      <4>1. /\ i \in DOMAIN active /\ Len(before) + 1 \in DOMAIN active
            /\ i < Len(before) + 1
        BY <3>2
      <4>2. active[i].ts < pend.ts /\ active[i].ts \in Nat
        BY <3>2, <4>1, LogFacts, LineType DEF Chronological
      <4> QED
        BY <3>1, <3>2, <4>2
    <3>4. Entries(before) = Entries(active) \ {pend}
      <4>1. Lines(active) = Lines(before) \cup {pend}
        BY <3>2 DEF Lines
      <4>2. pend \notin Lines(before)
        BY <3>3 DEF Lines
      <4> QED
        BY <4>1, <4>2 DEF Entries
    <3>5. \A k \in DOMAIN manifest : pend \notin Entries(manifest[k].lines)
      <4> TAKE k \in DOMAIN manifest
      <4>1. Final(manifest[k].lines).ts < pend.ts /\ Final(manifest[k].lines) \in Written
            /\ \A e \in Entries(manifest[k].lines) : e.ts <= Final(manifest[k].lines).ts
        BY <2>3, RowFacts DEF LogJoined
      <4>2. Final(manifest[k].lines).ts \in Nat
        BY <4>1, WrittenType
      <4> QED
        BY <3>1, <4>1, <4>2
    <3>6. Durable' = OnDisk'
      BY <2>1 DEF Durable
    <3>7. ASSUME NEW e PROVE e \in OnDisk' <=> e \in OnDisk /\ e # pend
      <4>1. e \in OnDisk' <=>
               \/ e \in Entries(before)
               \/ \E k \in DOMAIN manifest :
                    manifest[k].file /\ e \in Entries(manifest[k].lines)
        BY <2>1, <2>3 DEF OnDisk
      <4> QED
        BY <3>4, <3>5, <4>1, OnDiskIff
    <3>8. Durable = OnDisk \ {pend}
      BY <2>3 DEF Durable
    <3> QED
      BY <2>1, <3>6, <3>7, <3>8
  <2> QED
    BY <1>12, <2>2, <2>3 DEF Crash, LeaveTail, SafeConfig
<1>13. CASE UNCHANGED vars
  BY <1>1, <1>13 DEF vars
<1>14. CASE Reopen
  BY <1>2, <1>14 DEF Reopen, Unlock, file, ghost
<1>15. CASE SweepRotate
  BY <1>2, <1>15 DEF SweepRotate, file, ghost
<1>16. CASE RemoveSegments /\ ExpiredRows = {}
  BY <1>2, <1>16 DEF RemoveSegments, file, ghost
<1>17. CASE SweepPrune
  BY <1>1, <1>17 DEF SweepPrune, file, job, ghost
<1>18. CASE Restart
  BY <1>1, <1>18 DEF Restart, file, job, ghost
<1>19. CASE PruneStart
  <2>1. UNCHANGED << active, manifest, pc, pend >>
    BY <1>19 DEF PruneStart, file, job
  <2>2. Durable' = Durable
    BY <2>1 DEF Durable, OnDisk
  <2>3. expired' >= expired
    <3>1. expired \in Nat /\ clock \in Nat
      BY DEF RetentionInv, TypeInv, TypeOK
    <3>2. PICK cut \in 1 .. (clock + 1) :
             expired' = IF cut > expired THEN cut ELSE expired
      BY <1>19 DEF PruneStart
    <3> QED
      BY <3>1, <3>2
  <2> QED
    BY <2>2, <2>3, ExpireStep
<1>20. ASSUME NEW p \in Pruners, PruneRename(p) PROVE Trail!Expire
  <2>0. TypeOK /\ Attached /\ Running /\ Pruning
    BY DEF RetentionInv, TypeInv
  <2>1. p = "admin" /\ pruner["admin"] = TRUE
    BY <1>20, <2>0 DEF PruneRename, Attached, TypeOK, Pruners
  <2>2. active' = kept["admin"] /\ UNCHANGED << manifest, pc, expired >>
    BY <1>20, <2>1 DEF PruneRename, ghost
  <2>3. pc = "free"
    BY <2>0, <2>1 DEF Pruning, Running
  <2>4. PICK cut \in Nat : \E f \in Orders(active, DOMAIN active \ Old(cut)) :
           cut <= expired /\ kept["admin"] = At(active, f)
    BY <2>0, <2>1 DEF Pruning
  <2>5. active \in Seq(Line) /\ Chronological(active, clock) /\ clock \in Nat
        /\ expired \in Nat
    BY <2>0, LogFacts DEF TypeOK
  <2>6. Entries(active') = { e \in Entries(active) : e.ts >= cut }
    BY <2>2, <2>4, <2>5, PrunedFile DEF Old
  <2>7. Durable = OnDisk /\ Durable' = OnDisk'
    BY <2>2, <2>3 DEF Durable
  <2>8. OnDisk' \subseteq OnDisk
    BY <2>2, <2>6 DEF OnDisk
  <2>9. ASSUME NEW e \in OnDisk PROVE e.ts < expired \/ e \in OnDisk'
    <3>1. CASE e \in Entries(active)
      <4>1. e.ts \in Nat
        BY <2>5, <3>1, EntryType
      <4>2. e.ts < cut \/ e.ts >= cut
        BY <4>1
      <4>3. e.ts < cut => e.ts < expired
        BY <2>4, <2>5, <4>1
      <4>4. e.ts >= cut => e \in OnDisk'
        BY <2>6, <3>1 DEF OnDisk
      <4> QED
        BY <4>2, <4>3, <4>4
    <3>2. CASE \E k \in DOMAIN manifest :
                 manifest[k].file /\ e \in Entries(manifest[k].lines)
      BY <2>2, <3>2 DEF OnDisk
    <3> QED
      BY <3>1, <3>2, OnDiskIff
  <2>10. expired' >= expired
    BY <2>2, <2>5
  <2> QED
    BY <2>2, <2>7, <2>8, <2>9, <2>10, ExpireStep
<1>21. ~AppendFails /\ ~RotateFails
  BY DEF AppendFails, RotateFails, SafeConfig
<1> QED
  BY <1>3, <1>4, <1>5, <1>6, <1>7, <1>10, <1>11, <1>12, <1>13, <1>14, <1>15,
     <1>16, <1>17, <1>18, <1>19, <1>20, <1>21 DEF Next

\* In that configuration the files, rotation into segments, segment retention,
\* offline prunes, crashes and restarts implement AuditTrail: one chain that grows at its end,
\* each entry continuing the newest one kept, from which nothing goes before its
\* retention cutoff.  A crash in the middle of an append records the entry or
\* does not; every other interruption is invisible.
THEOREM LogImplementsTrail ==
    ASSUME SafeConfig
    PROVE  Spec => ImplementsTrail
<1>1. Init => Trail!Init
  <2> SUFFICES ASSUME Init PROVE Trail!Init
    OBVIOUS
  <2>1. OnDisk = {}
    BY DEF Init, OnDisk, Entries, Lines
  <2> QED
    BY <2>1 DEF Init, Trail!Init, Durable
<1>2. ChainInv /\ [Next]_vars => [Trail!Next]_<< Durable, expired >>
  BY TrailStep
<1> QED
  BY <1>1, <1>2, ChainHolds, PTL DEF Spec, ImplementsTrail, Trail!Spec

\* The number of positions up to n.
LEMMA IntervalSize ==
    ASSUME NEW n \in Nat
    PROVE  Cardinality(1 .. n) = n
<1>1. Cardinality(1 .. n) = IF 1 > n THEN 0 ELSE n - 1 + 1
  BY FS_Interval
<1> QED
  BY <1>1

\* Rows that start at growing sequence numbers are in the order verify_all sorts
\* them into.
LEMMA SortedAlready ==
    ASSUME NEW m \in Seq(Segment), \A k \in DOMAIN m : SeqStart(m[k]) \in Nat,
           \A j, k \in DOMAIN m : j < k => SeqStart(m[j]) < SeqStart(m[k])
    PROVE  SortedBySeqStart(m) = m
<1> DEFINE smaller(i) == { j \in DOMAIN m : \/ SeqStart(m[j]) < SeqStart(m[i])
                                            \/ /\ SeqStart(m[j]) = SeqStart(m[i])
                                               /\ j < i }
           place(n) == CHOOSE i \in DOMAIN m : Cardinality(smaller(i)) = n - 1
<1>1. DOMAIN m = 1 .. Len(m) /\ Len(m) \in Nat
  OBVIOUS
<1>2. ASSUME NEW i \in DOMAIN m PROVE Cardinality(smaller(i)) = i - 1
  <2>1. smaller(i) = 1 .. (i - 1)
    <3>1. ASSUME NEW j \in DOMAIN m
          PROVE  (\/ SeqStart(m[j]) < SeqStart(m[i])
                  \/ SeqStart(m[j]) = SeqStart(m[i]) /\ j < i) <=> j < i
      <4>1. j \in Nat /\ i \in Nat
        BY <1>1
      <4>2. SeqStart(m[j]) \in Nat /\ SeqStart(m[i]) \in Nat
        OBVIOUS
      <4>3. /\ j < i => SeqStart(m[j]) < SeqStart(m[i])
            /\ i < j => SeqStart(m[i]) < SeqStart(m[j])
        OBVIOUS
      <4>4. j = i => SeqStart(m[i]) = SeqStart(m[j])
        OBVIOUS
      <4> QED
        BY <4>1, <4>2, <4>3, <4>4
    <3>2. \A j : j \in smaller(i) <=> j \in { l \in DOMAIN m : l < i }
      BY <3>1
    <3> HIDE DEF smaller
    <3>3. { j \in 1 .. Len(m) : j < i } = 1 .. (i - 1)
      <4>1. i \in 1 .. Len(m)
        BY <1>1
      <4> QED
        BY <1>1, <4>1
    <3> QED
      BY <1>1, <3>2, <3>3
  <2>2. Cardinality(1 .. (i - 1)) = i - 1
    <3>1. i - 1 \in Nat
      BY <1>1
    <3> QED
      BY <3>1, IntervalSize
  <2> QED
    BY <2>1, <2>2
<1>3. ASSUME NEW n \in DOMAIN m PROVE place(n) = n
  <2>1. Cardinality(smaller(n)) = n - 1
    BY <1>2
  <2>2. place(n) \in DOMAIN m /\ Cardinality(smaller(place(n))) = n - 1
    <3> HIDE DEF smaller
    <3> QED
      BY <2>1
  <2>3. place(n) - 1 = n - 1
    <3> HIDE DEF smaller, place
    <3> QED
      BY <1>2, <2>2
  <2> HIDE DEF place
  <2> QED
    BY <1>1, <2>2, <2>3
<1>4. SortedBySeqStart(m) = [n \in DOMAIN m |-> m[place(n)]]
  BY DEF SortedBySeqStart
<1> HIDE DEF place
<1>5. SortedBySeqStart(m) = [n \in DOMAIN m |-> m[n]]
  BY <1>3, <1>4
<1> QED
  BY <1>5

\* A chain walks from where it starts.
LEMMA LinkedWalks ==
    ASSUME NEW s \in Seq(Line), NEW now \in Nat, Chronological(s, now), Linked(s),
           NEW cur,
           s # << >> => s[1].seq = cur.seq /\ s[1].prev = cur.hmac
    PROVE  Walks(s, cur)
<1> SUFFICES ASSUME NEW i \in DOMAIN s
             PROVE  /\ IsEntry(s[i]) /\ s[i].seq = cur.seq + (i - 1)
                    /\ s[i].prev = IF i = 1 THEN cur.hmac ELSE s[i - 1].ts
  BY DEF Walks
<1>1. s # << >> /\ i \in Nat /\ i >= 1
  OBVIOUS
<1>2. IsEntry(s[i]) /\ s[i].seq = s[1].seq + (i - 1)
      /\ (i > 1 => s[i].prev = s[i - 1].ts)
  BY DEF Chronological, Linked
<1> QED
  BY <1>1, <1>2

\* The rows and the log of an uninterrupted history verify.
LEMMA VerifiesChain ==
    ASSUME ChainInv, ~Duplicated, \A k \in DOMAIN manifest : manifest[k].file,
           prunes # 0 => manifest = << >>
    PROVE  verify_all(manifest, active) = "ok"
<1> USE DEF ChainInv
<1> DEFINE R(k) == manifest[k].lines
           n == Len(manifest)
           zero == [seq |-> 1, hmac |-> GENESIS]
<1>1. /\ manifest \in Seq(Segment) /\ DOMAIN manifest = 1 .. n /\ n \in Nat
      /\ clock \in Nat
  BY DEF RetentionInv, TypeInv, TypeOK
<1>2. active \in Seq(Line) /\ Chronological(active, clock) /\ Linked(active)
  BY LogFacts DEF LogJoined
<1>3. \A k \in DOMAIN manifest :
        /\ R(k) \in Seq(Line) /\ R(k) # << >> /\ Chronological(R(k), clock)
        /\ Linked(R(k))
        /\ SeqStart(manifest[k]) = R(k)[1].seq
        /\ R(k)[1] \in Entries(R(k)) /\ Final(R(k)) \in Entries(R(k))
        /\ R(k)[1] \in Written /\ Final(R(k)) \in Written
        /\ R(k)[1].ts <= Final(R(k)).ts
  BY RowFacts DEF RowsJoined, Written
<1>4. ASSUME NEW j \in DOMAIN manifest, NEW k \in DOMAIN manifest, j < k
      PROVE  /\ R(j)[1].seq < R(k)[1].seq
             /\ k = j + 1 => /\ R(k)[1].seq = Final(R(j)).seq + 1
                             /\ R(k)[1].prev = Final(R(j)).ts
  <2>1. ~Shares(R(j), R(k))
    <3>1. j # k
      BY <1>1, <1>4
    <3> QED
      BY <3>1 DEF Duplicated, Shares
  <2>2. prunes = 0
    BY <1>1, <1>4
  <2>3. Final(R(j)).ts < R(k)[1].ts
        /\ (k = j + 1 => R(k)[1].seq = Final(R(j)).seq + 1
                         /\ R(k)[1].prev = Final(R(j)).ts)
    BY <1>4, <2>1, <2>2 DEF RowsJoined, Later, Joins
  <2>4. R(j)[1].ts < R(k)[1].ts
    <3>1. R(j)[1].ts \in Nat /\ Final(R(j)).ts \in Nat /\ R(k)[1].ts \in Nat
      BY <1>3, WrittenType
    <3> QED
      BY <1>3, <2>3, <3>1
  <2>5. R(j)[1].seq < R(k)[1].seq
    BY <1>3, <2>4 DEF Ordered
  <2> QED
    BY <2>3, <2>5
<1>5. ASSUME active # << >>, manifest # << >>
      PROVE  active[1].seq = Final(R(n)).seq + 1 /\ active[1].prev = Final(R(n)).ts
  <2>1. n \in DOMAIN manifest
    BY <1>1, <1>5
  <2>2. ~Shares(R(n), active)
    BY <2>1 DEF Duplicated, Shares
  <2> QED
    BY <1>5, <2>2 DEF LogJoined, Continues, Joins
<1>6. ASSUME NEW s \in Seq(Line), s # << >>
      PROVE  After(s, zero) = [seq |-> Final(s).seq + 1, hmac |-> Final(s).ts]
  BY <1>6 DEF After, Final
<1>7. CASE manifest = << >>
  <2>1. active # << >> =>
          active[1].seq = anchor(active).seq /\ active[1].prev = anchor(active).hmac
    <3> SUFFICES ASSUME active # << >>
                 PROVE  /\ active[1].seq = anchor(active).seq
                        /\ active[1].prev = anchor(active).hmac
      OBVIOUS
    <3>1. 1 \in DOMAIN active /\ active[1].seq \in Nat /\ active[1].seq > 0
      BY LogFacts, EntryType
    <3>2. CASE active[1].seq > 1
      BY <3>2 DEF anchor
    <3>3. CASE active[1].seq = 1
      <4>1. active[1].prev = GENESIS
        BY <1>2, <3>1, <3>3 DEF Linked
      <4> QED
        BY <3>3, <4>1 DEF anchor
    <3> QED
      BY <3>1, <3>2, <3>3
  <2>2. Walks(active, anchor(active))
    BY <1>1, <1>2, <2>1, LinkedWalks
  <2> QED
    BY <1>7, <2>2 DEF verify_all, verify_log
<1>8. CASE manifest # << >>
  <2>1. SortedBySeqStart(manifest) = manifest
    <3>1. \A k \in DOMAIN manifest : SeqStart(manifest[k]) \in Nat
      BY <1>3, WrittenType
    <3>2. \A j, k \in DOMAIN manifest :
            j < k => SeqStart(manifest[j]) < SeqStart(manifest[k])
      BY <1>3, <1>4
    <3> QED
      BY <1>1, <3>1, <3>2, SortedAlready
  <2> DEFINE start == [seq  |-> SeqStart(manifest[1]),
                       hmac |-> IF SeqStart(manifest[1]) = 1 THEN GENESIS
                                ELSE FirstEntry(manifest[1].lines).prev]
             from(k) == IF k = 1 THEN start ELSE After(manifest[k-1].lines, zero)
  <2>2. 1 \in DOMAIN manifest /\ n \in DOMAIN manifest
    BY <1>1, <1>8
  <2>3. ASSUME NEW k \in DOMAIN manifest PROVE Walks(R(k), from(k))
    <3>1. CASE k = 1
      <4>1. FirstEntry(R(1)) = R(1)[1] /\ 1 \in DOMAIN R(1)
        BY <1>1, <1>3, <2>2, FileEnds
      <4>2. R(1)[1].seq = 1 => R(1)[1].prev = GENESIS
        BY <1>3, <2>2, <4>1 DEF Linked
      <4>3. R(1)[1].seq = start.seq /\ R(1)[1].prev = start.hmac
        BY <1>3, <2>2, <4>1, <4>2
      <4>4. Walks(R(1), start)
        <5> HIDE DEF start
        <5> QED
          BY <1>1, <1>3, <2>2, <4>3, LinkedWalks
      <4> QED
        BY <3>1, <4>4
    <3>2. CASE k # 1
      <4>1. k - 1 \in DOMAIN manifest /\ k - 1 < k /\ k = (k - 1) + 1
        BY <1>1, <3>2
      <4>2. R(k)[1].seq = Final(R(k - 1)).seq + 1 /\ R(k)[1].prev = Final(R(k - 1)).ts
        BY <1>4, <4>1
      <4>3. from(k) = [seq |-> Final(R(k - 1)).seq + 1, hmac |-> Final(R(k - 1)).ts]
        BY <1>3, <1>6, <3>2, <4>1
      <4>4. R(k)[1].seq = from(k).seq /\ R(k)[1].prev = from(k).hmac
        BY <4>2, <4>3
      <4> HIDE DEF from
      <4> QED
        BY <1>1, <1>3, <4>4, LinkedWalks
    <3> QED
      BY <3>1, <3>2
  <2>4. Walks(active, After(R(n), zero))
    <3>1. After(R(n), zero) = [seq |-> Final(R(n)).seq + 1, hmac |-> Final(R(n)).ts]
      BY <1>3, <1>6, <2>2
    <3>2. active # << >> => /\ active[1].seq = After(R(n), zero).seq
                            /\ active[1].prev = After(R(n), zero).hmac
      BY <1>5, <1>8, <3>1
    <3> QED
      BY <1>1, <1>2, <3>2, LinkedWalks
  <2>5. verify_rows(manifest, active) = "ok"
    <3>1. ~\E k \in DOMAIN manifest : ~manifest[k].file \/ ~Walks(R(k), from(k))
      BY <2>3
    <3> QED
      BY <2>4, <3>1 DEF verify_rows
  <2> QED
    BY <1>8, <2>1, <2>5 DEF verify_all
<1> QED
  BY <1>7, <1>8

\* In that configuration verify_all reports an intact chain whenever no operation
\* holds the mutex, unless a crash has interrupted a rotation (entries in two
\* files) or a segment cleanup (a row without its file), or an administrator has
\* pruned the log behind sealed segments: appends, rotations, retention, other
\* offline prunes and restarts never make an honest log look tampered with.
THEOREM HonestLogVerifies ==
    ASSUME SafeConfig
    PROVE  Spec => []VerifiesUnlessInterrupted
<1>1. ChainInv => VerifiesUnlessInterrupted
  <2> SUFFICES ASSUME ChainInv, ~Duplicated, \A k \in DOMAIN manifest : manifest[k].file,
                      prunes > 0 => manifest = << >>
               PROVE  verify_all(manifest, active) = "ok"
    BY DEF VerifiesUnlessInterrupted
  <2>1. prunes \in Nat
    BY DEF ChainInv, RetentionInv, TypeInv, TypeOK
  <2>2. prunes # 0 => manifest = << >>
    BY <2>1
  <2> QED
    BY <2>2, VerifiesChain
<1> QED
  BY <1>1, ChainHolds, PTL

-----------------------------------------------------------------------------
(* LossIsEvident.  An append that follows a torn line is acknowledged and  *)
(* cannot be read back.  What gives it away is the line it was glued to:   *)
(* from then on some file holds a line that does not parse, since rotation *)
(* seals such lines with the others and a prune keeps them.                *)

\* No sweep drops anything, and nobody prunes beside a running daemon. Torn
\* writes, failing I/O, crashes, rotations and offline prunes are possible.
FaultyConfig == ~Retention /\ AdminPrune # "online"

\* The file s has a line that does not parse.
Spoilt(s) == \E i \in DOMAIN s : ~IsEntry(s[i])

\* With the log s and the manifest m, every entry of A that is not older than x
\* can be read back, or a line does not parse.
Reports(s, m, A, x) ==
    \/ Spoilt(s)
    \/ \E k \in DOMAIN m : Spoilt(m[k].lines)
    \/ \A e \in A : e.ts >= x =>
         e \in Entries(s) \/ \E k \in DOMAIN m : e \in Entries(m[k].lines)

Unshared ==
    /\ ret = 0 /\ detached = FALSE /\ pc # "removed" /\ pruner["sweep"] = FALSE
    /\ pc # "free" \/ sweep # "off" => up = TRUE
    /\ pruner["admin"] = TRUE => up = FALSE /\ AdminPrune = "offline"
    /\ \A k \in DOMAIN manifest : manifest[k].file = TRUE

InWrite ==
    pc = "wrote" => /\ active # << >> /\ Reports(before, manifest, acked, expired)
                    /\ Spoilt(active) \/ pend \in Entries(active)

InSeal == /\ pc = "seal" => content = active
          /\ pc = "sealed" => \E k \in DOMAIN manifest : manifest[k].lines = active

\* A prune under way keeps every line but expired entries.
InPrune ==
    pruner["admin"] = TRUE =>
      \A i \in DOMAIN active :
        \/ \E j \in DOMAIN kept["admin"] : kept["admin"][j] = active[i]
        \/ IsEntry(active[i]) /\ active[i].ts < expired

LossInv ==
    /\ TypeInv /\ Unshared /\ InWrite /\ InSeal /\ InPrune
    /\ nl = FALSE => active # << >>
    /\ Reports(active, manifest, acked, expired)

\* Evidence and entries stay where every row stays and every line of the log
\* goes on in the log or in a row, or is an entry that has expired.
LEMMA ReportsKept ==
    ASSUME NEW s, NEW t, NEW m, NEW n, NEW A, NEW x \in Nat, NEW y \in Nat, x <= y,
           \A e \in A : e.ts \in Nat,
           \A k \in DOMAIN m : \E l \in DOMAIN n : n[l].lines = m[k].lines,
           \A i \in DOMAIN s :
             \/ \E j \in DOMAIN t : t[j] = s[i]
             \/ \E l \in DOMAIN n : \E j \in DOMAIN n[l].lines : n[l].lines[j] = s[i]
             \/ IsEntry(s[i]) /\ s[i].ts < y,
           Reports(s, m, A, x)
    PROVE  Reports(t, n, A, y)
<1>1. CASE Spoilt(s)
  BY <1>1 DEF Spoilt, Reports
<1>2. CASE \E k \in DOMAIN m : Spoilt(m[k].lines)
  BY <1>2 DEF Reports
<1>3. CASE \A e \in A : e.ts >= x =>
             e \in Entries(s) \/ \E k \in DOMAIN m : e \in Entries(m[k].lines)
  <2>1. ASSUME NEW e \in A, e.ts >= y
        PROVE  e \in Entries(t) \/ \E k \in DOMAIN n : e \in Entries(n[k].lines)
    <3>1. e.ts \in Nat /\ e.ts >= x
      BY <2>1
    <3>2. CASE e \in Entries(s)
      <4>1. PICK i \in DOMAIN s : e = s[i] /\ IsEntry(e)
        BY <3>2 DEF Entries, Lines
      <4>2. ~(s[i].ts < y)
        BY <2>1, <3>1, <4>1
      <4>3. \/ \E j \in DOMAIN t : t[j] = e
            \/ \E l \in DOMAIN n : \E j \in DOMAIN n[l].lines : n[l].lines[j] = e
        BY <4>1, <4>2
      <4> QED
        BY <4>1, <4>3 DEF Entries, Lines
    <3>3. CASE \E k \in DOMAIN m : e \in Entries(m[k].lines)
      <4>1. PICK k \in DOMAIN m : e \in Entries(m[k].lines)
        BY <3>3
      <4>2. PICK l \in DOMAIN n : n[l].lines = m[k].lines
        OBVIOUS
      <4> QED
        BY <4>1, <4>2
    <3> QED
      BY <1>3, <3>1, <3>2, <3>3
  <2> QED
    BY <2>1 DEF Reports
<1> QED
  BY <1>1, <1>2, <1>3 DEF Reports

\* Steps that leave the files, the rows and the acknowledged entries alone.
LEMMA LossAlone ==
    ASSUME LossInv, TypeInv', Unshared',
           UNCHANGED << active, nl, manifest, acked, expired, pruner, kept >>,
           pc' # "wrote",
           pc' = "seal" => content' = active, pc' = "sealed" => pc = "sealed"
    PROVE  LossInv'
<1>1. InWrite' /\ InSeal'
  BY DEF LossInv, InWrite, InSeal
<1>2. InPrune'
  BY DEF LossInv, InPrune
<1> QED
  BY <1>1, <1>2 DEF LossInv

\* The types that the lemmas about losses use.
LEMMA LossFacts ==
    ASSUME LossInv
    PROVE  /\ active \in Seq(Line) /\ before \in Seq(Line) /\ manifest \in Seq(Segment)
           /\ expired \in Nat /\ seq \in Nat /\ clock \in Nat
           /\ \A e \in acked : e.ts \in Nat
           /\ up \in BOOLEAN /\ pruner \in [Pruners -> BOOLEAN]
  BY Numbers DEF LossInv, TypeInv, TypeOK

\* An entry written behind a torn line is glued to it into a line that does not parse.
LEMMA LossAppendWrite ==
    ASSUME LossInv, TypeInv', AppendWrite
    PROVE  LossInv'
<1>0. /\ active \in Seq(Line) /\ expired \in Nat /\ seq \in Nat
      /\ \A e \in acked : e.ts \in Nat
      /\ Unshared /\ pruner["admin"] # TRUE
  BY LossFacts DEF LossInv, Unshared, AppendWrite
<1>1. /\ before' = active /\ nl' = TRUE /\ pc' = "wrote" /\ pend' = NextEntry
      /\ active' = IF nl THEN Append(active, NextEntry)
                   ELSE [active EXCEPT ![Len(active)] = Junk]
      /\ up = TRUE /\ UNCHANGED << manifest, up, detached, ret, pruner, kept, expired, acked >>
  BY <1>0 DEF AppendWrite, Unshared, sched, prun, ghost, LossInv, TypeInv, TypeOK
<1>2. Unshared' /\ InSeal' /\ InPrune'
  BY <1>0, <1>1 DEF Unshared, InSeal, InPrune
<1>3. Reports(active, manifest, acked, expired)
  BY DEF LossInv
<1>4. CASE nl = TRUE
  <2>1. active' = Append(active, NextEntry) /\ NextEntry \in Line /\ IsEntry(NextEntry)
    BY <1>0, <1>1, <1>4, NextEntryType DEF LossInv, TypeInv, NextEntry, IsEntry
  <2>2. /\ Len(active) + 1 \in DOMAIN active' /\ active'[Len(active) + 1] = NextEntry
        /\ \A i \in DOMAIN active : i \in DOMAIN active' /\ active'[i] = active[i]
    BY <1>0, <2>1
  <2>3. NextEntry \in Entries(active') /\ active' # << >>
    BY <2>1, <2>2 DEF Entries, Lines
  <2>4. Reports(active', manifest, acked, expired)
    <3>1. \A i \in DOMAIN active : \E j \in DOMAIN active' : active'[j] = active[i]
      BY <2>2
    <3>2. ASSUME NEW t, \A i \in DOMAIN active : \E j \in DOMAIN t : t[j] = active[i]
          PROVE  Reports(t, manifest, acked, expired)
      BY <1>0, <1>3, <3>2, ReportsKept
    <3> QED
      BY <3>1, <3>2
  <2> QED
    BY <1>1, <1>2, <1>3, <2>3, <2>4 DEF LossInv, InWrite
<1>5. CASE nl # TRUE
  <2>1. active # << >> /\ active' = [active EXCEPT ![Len(active)] = Junk]
    BY <1>1, <1>5 DEF LossInv, TypeInv, TypeOK
  <2>2. Len(active) \in DOMAIN active
    BY <1>0, <2>1, LastIndex
  <2>3. active'[Len(active)] = Junk /\ DOMAIN active' = DOMAIN active
    BY <2>1, <2>2
  <2>4. Spoilt(active') /\ active' # << >>
    BY <2>2, <2>3 DEF Spoilt, Junk, IsEntry
  <2>5. Reports(active', manifest, acked, expired)
    BY <2>4 DEF Reports
  <2> QED
    BY <1>1, <1>2, <1>3, <2>4, <2>5 DEF LossInv, InWrite
<1> QED
  BY <1>4, <1>5

\* An entry is acknowledged only where InWrite has it, or a spoilt line.
LEMMA LossAppendSync ==
    ASSUME LossInv, TypeInv', AppendSync
    PROVE  LossInv'
<1>1. /\ pc = "wrote" /\ acked' = acked \cup {pend}
      /\ pc' = "free" \/ (pc' = "seal" /\ content' = active)
      /\ UNCHANGED << active, nl, manifest, up, detached, ret, pruner, kept, expired >>
  BY DEF AppendSync, file, sched, prun
<1>2. Unshared'
  BY <1>1 DEF LossInv, Unshared
<1>3. InWrite' /\ InSeal' /\ InPrune'
  BY <1>1 DEF LossInv, InWrite, InSeal, InPrune
<1>4. Reports(active, manifest, acked \cup {pend}, expired)
  <2>1. Spoilt(active) \/ pend \in Entries(active)
    BY <1>1 DEF LossInv, InWrite
  <2>2. Reports(active, manifest, acked, expired)
    BY DEF LossInv
  <2> QED
    BY <2>1, <2>2 DEF Reports
<1> QED
  BY <1>1, <1>2, <1>3, <1>4 DEF LossInv

\* What an interrupted append leaves of the log.
LEMMA LossTail ==
    ASSUME LossInv, pc = "wrote", NEW torn, LeaveTail(torn)
    PROVE  /\ Reports(active', manifest, acked, expired)
           /\ nl' = FALSE => active' # << >>
<1>0. active \in Seq(Line) /\ before \in Seq(Line) /\ active # << >>
      /\ Reports(before, manifest, acked, expired)
      /\ Reports(active, manifest, acked, expired)
  BY LossFacts DEF LossInv, InWrite
<1>1. CASE UNCHANGED file
  BY <1>0, <1>1 DEF file
<1>2. CASE active' = before /\ nl' = (Len(before) < Len(active))
  <2>1. ASSUME before = << >> PROVE Len(before) < Len(active)
    BY <1>0, <2>1
  <2>2. nl' = FALSE => ~(Len(before) < Len(active))
    BY <1>2, Zenon
  <2> QED
    BY <1>0, <1>2, <2>1, <2>2
<1>3. CASE active' = active
  BY <1>0, <1>3
<1>4. CASE active' = [active EXCEPT ![Len(active)] = Junk]
  <2>1. Len(active) \in DOMAIN active
    BY <1>0, LastIndex
  <2>2. active'[Len(active)] = Junk /\ DOMAIN active' = DOMAIN active
    BY <1>4, <2>1
  <2>3. Spoilt(active') /\ active' # << >>
    BY <2>1, <2>2 DEF Spoilt, Junk, IsEntry
  <2> QED
    BY <2>3 DEF Reports
<1> QED
  BY <1>1, <1>2, <1>3, <1>4 DEF LeaveTail

\* A failed append acknowledges nothing and takes back no other line than its own.
LEMMA LossAppendFails ==
    ASSUME LossInv, TypeInv', AppendFails
    PROVE  LossInv'
<1>1. /\ pc = "wrote" /\ pc' = "free" /\ LeaveTail(TRUE)
      /\ UNCHANGED << manifest, up, detached, ret, pruner, kept, expired, acked >>
  BY DEF AppendFails, inner, sched, prun, ghost
<1>2. Reports(active', manifest, acked, expired) /\ (nl' = FALSE => active' # << >>)
  BY <1>1, LossTail
<1>3. Unshared' /\ pruner["admin"] # TRUE
  BY <1>1 DEF LossInv, Unshared
<1>4. InWrite' /\ InSeal' /\ InPrune'
  BY <1>1, <1>3 DEF InWrite, InSeal, InPrune
<1> QED
  BY <1>1, <1>2, <1>3, <1>4 DEF LossInv

\* A crash acknowledges nothing and may tear the line that was being written.
LEMMA LossCrash ==
    ASSUME LossInv, TypeInv', Crash
    PROVE  LossInv'
<1>0. pruner \in [Pruners -> BOOLEAN] /\ up = TRUE /\ pruner["admin"] # TRUE
  BY LossFacts DEF LossInv, Unshared, Crash
<1>1. /\ pc' = "free" /\ sweep' = "off" /\ up' = FALSE /\ detached' = FALSE
      /\ pruner' = [pruner EXCEPT !["sweep"] = FALSE]
      /\ UNCHANGED << manifest, ret, expired, acked >>
  BY DEF Crash, ghost
<1>2. pruner'["sweep"] = FALSE /\ pruner'["admin"] # TRUE
  BY <1>0, <1>1 DEF Pruners
<1>3. Unshared'
  BY <1>1, <1>2 DEF LossInv, Unshared
<1>4. InWrite' /\ InSeal' /\ InPrune'
  BY <1>1, <1>2 DEF InWrite, InSeal, InPrune
<1>5. Reports(active', manifest, acked, expired) /\ (nl' = FALSE => active' # << >>)
  <2>1. CASE pc = "wrote"
    BY <2>1, LossTail DEF Crash
  <2>2. CASE pc # "wrote"
    BY <2>2 DEF Crash, file, LossInv
  <2> QED
    BY <2>1, <2>2
<1> QED
  BY <1>1, <1>3, <1>4, <1>5 DEF LossInv

\* A sealed row gets every line of the log, spoilt ones too.
LEMMA LossSealSegment ==
    ASSUME LossInv, TypeInv', SealSegment
    PROVE  LossInv'
<1> DEFINE row == [lines |-> content, file |-> TRUE]
<1>0. /\ manifest \in Seq(Segment) /\ expired \in Nat /\ \A e \in acked : e.ts \in Nat
      /\ Reports(active, manifest, acked, expired)
  BY LossFacts DEF LossInv
<1>1. /\ pc = "seal" /\ pc' = "sealed" /\ manifest' = Append(manifest, row)
      /\ content = active
      /\ UNCHANGED << active, nl, up, detached, ret, pruner, kept, expired, acked >>
  BY DEF SealSegment, file, inner, sched, prun, ghost, LossInv, InSeal
<1>2. row.lines = active /\ row.file = TRUE
  BY <1>1
<1> HIDE DEF row
<1>3. /\ Len(manifest) + 1 \in DOMAIN manifest' /\ manifest'[Len(manifest) + 1] = row
      /\ \A k \in DOMAIN manifest : k \in DOMAIN manifest' /\ manifest'[k] = manifest[k]
      /\ \A k \in DOMAIN manifest' : k \in DOMAIN manifest \/ manifest'[k] = row
  BY <1>0, <1>1
<1>4. Unshared'
  BY <1>1, <1>2, <1>3 DEF LossInv, Unshared
<1>5. InWrite' /\ InSeal' /\ InPrune'
  BY <1>1, <1>2, <1>3 DEF LossInv, InWrite, InSeal, InPrune
<1>6. Reports(active, manifest', acked, expired)
  <2>1. ASSUME NEW n, \A k \in DOMAIN manifest : k \in DOMAIN n /\ n[k] = manifest[k]
        PROVE  Reports(active, n, acked, expired)
    <3>1. \A k \in DOMAIN manifest : \E l \in DOMAIN n : n[l].lines = manifest[k].lines
      BY <2>1
    <3>2. \A i \in DOMAIN active : \E j \in DOMAIN active : active[j] = active[i]
      OBVIOUS
    <3>3. expired <= expired
      BY <1>0
    <3> QED
      BY <1>0, <3>1, <3>2, <3>3, ReportsKept
  <2> QED
    BY <1>3, <2>1
<1> QED
  BY <1>1, <1>4, <1>5, <1>6 DEF LossInv

\* What truncation takes from the log is in the row that was sealed.
LEMMA LossTruncate ==
    ASSUME LossInv, TypeInv', Truncate
    PROVE  LossInv'
<1>0. /\ expired \in Nat /\ \A e \in acked : e.ts \in Nat
      /\ Reports(active, manifest, acked, expired)
  BY LossFacts DEF LossInv
<1>1. /\ pc = "sealed" /\ pc' = "truncated" /\ active' = << >> /\ nl' = TRUE
      /\ UNCHANGED << manifest, up, detached, ret, pruner, kept, expired, acked >>
  BY DEF Truncate, inner, sched, prun, ghost
<1>2. PICK k \in DOMAIN manifest : manifest[k].lines = active
  BY <1>1 DEF LossInv, InSeal
<1>3. Reports(<< >>, manifest, acked, expired)
  <2>1. \A i \in DOMAIN active :
          \E l \in DOMAIN manifest : \E j \in DOMAIN manifest[l].lines :
             manifest[l].lines[j] = active[i]
    BY <1>2
  <2>2. \A h \in DOMAIN manifest : \E l \in DOMAIN manifest :
           manifest[l].lines = manifest[h].lines
    OBVIOUS
  <2>3. expired <= expired
    BY <1>0
  <2>4. ASSUME NEW t PROVE Reports(t, manifest, acked, expired)
    <3>1. \A i \in DOMAIN active :
             \/ \E j \in DOMAIN t : t[j] = active[i]
             \/ \E l \in DOMAIN manifest : \E j \in DOMAIN manifest[l].lines :
                  manifest[l].lines[j] = active[i]
             \/ IsEntry(active[i]) /\ active[i].ts < expired
      BY <2>1, Zenon
    <3> QED
      BY <1>0, <2>2, <2>3, <3>1, ReportsKept, Zenon
  <2> QED
    BY <2>4
<1>4. Unshared' /\ pruner["admin"] # TRUE
  BY <1>1 DEF LossInv, Unshared
<1>5. InWrite' /\ InSeal' /\ InPrune'
  BY <1>1, <1>4 DEF InWrite, InSeal, InPrune
<1> QED
  BY <1>1, <1>3, <1>4, <1>5 DEF LossInv

\* Without retention a sweep drops no segment and prunes nothing.
LEMMA NothingExpires ==
    ASSUME LossInv
    PROVE  ExpiredRows = {} /\ Old(ret) = {}
<1>1. ret = 0 /\ TypeOK /\ SealedFromEntries
  BY DEF LossInv, Unshared, TypeInv
<1>2. ASSUME NEW k \in DOMAIN manifest PROVE ~(TsLast(manifest[k]) < ret)
  <2>1. manifest[k].lines \in Seq(Line) /\ EntryIdx(manifest[k].lines) # {}
    BY <1>1, RowType DEF TypeOK, SealedFromEntries
  <2>2. LastEntry(manifest[k].lines) \in Line
    BY <2>1, EntryTypes
  <2> QED
    BY <1>1, <2>2 DEF TsLast, Line
<1>3. ASSUME NEW i \in DOMAIN active PROVE ~(active[i].ts < ret)
  BY <1>1, LineType DEF TypeOK
<1> QED
  BY <1>2, <1>3 DEF ExpiredRows, Old, EntryIdx

\* Without a retention period the sweep removes nothing.
LEMMA LossSweep ==
    ASSUME FaultyConfig, LossInv, TypeInv',
           SweepStart \/ SweepRotate \/ RemoveSegments \/ SaveManifest \/ SweepPrune
    PROVE  LossInv'
<1>0. expired \in Nat /\ Unshared
  BY LossFacts DEF LossInv
<1>1. CASE SweepStart
  <2>1. ret' = 0 /\ expired' = expired /\ up = TRUE
    BY <1>0, <1>1, LossFacts DEF SweepStart, FaultyConfig
  <2>2. UNCHANGED << active, nl, manifest, up, detached, pc, content, before, pend,
                     pruner, kept, acked >>
    BY <1>1 DEF SweepStart, file, inner, job, prun
  <2>3. Unshared'
    BY <1>0, <2>1, <2>2 DEF Unshared
  <2>4. InWrite' /\ InSeal' /\ InPrune'
    BY <2>1, <2>2 DEF LossInv, InWrite, InSeal, InPrune
  <2> QED
    BY <2>1, <2>2, <2>3, <2>4 DEF LossInv
<1>2. CASE SweepRotate
  <2>1. /\ UNCHANGED << active, nl, manifest, up, detached, ret, pruner, kept, acked, expired >>
        /\ sweep = "rotate" /\ pc = "free"
        /\ pc' = "free" \/ (pc' = "seal" /\ content' = active)
    BY <1>2 DEF SweepRotate, file, inner, prun, ghost
  <2>2. Unshared'
    BY <1>0, <2>1 DEF Unshared
  <2> QED
    BY <2>1, <2>2, LossAlone
<1>3. CASE RemoveSegments
  <2>1. /\ UNCHANGED << active, nl, manifest, up, detached, ret, pruner, kept, acked,
                        expired, pc >>
        /\ sweep = "retain" /\ pc = "free"
    BY <1>3, NothingExpires DEF RemoveSegments, file, inner, prun, ghost
  <2>2. Unshared'
    BY <1>0, <2>1 DEF Unshared
  <2> QED
    BY <2>1, <2>2, LossAlone
<1>4. CASE SaveManifest
  BY <1>0, <1>4 DEF SaveManifest, Unshared
<1>5. CASE SweepPrune
  <2>1. /\ UNCHANGED << active, nl, manifest, up, detached, ret, pruner, kept, acked,
                        expired, pc, content, before, pend >>
        /\ sweep = "prune"
    BY <1>5, NothingExpires DEF SweepPrune, PruneRead, file, inner, job, prun, ghost
  <2>2. Unshared'
    BY <1>0, <2>1 DEF Unshared
  <2>3. InWrite' /\ InSeal' /\ InPrune'
    BY <2>1 DEF LossInv, InWrite, InSeal, InPrune
  <2> QED
    BY <2>1, <2>2, <2>3 DEF LossInv
<1> QED
  BY <1>1, <1>2, <1>3, <1>4, <1>5

\* The end of a rotation, good or bad, changes no file.
LEMMA LossRotationEnds ==
    ASSUME LossInv, TypeInv', Reopen \/ RotateFails
    PROVE  LossInv'
<1>1. /\ UNCHANGED << active, nl, manifest, up, ret, pruner, kept, acked, expired >>
      /\ detached' = FALSE \/ UNCHANGED detached
      /\ pc # "free" /\ pc' = "free"
  BY DEF Reopen, RotateFails, Unlock, file, inner, prun, ghost
<1>2. Unshared'
  BY <1>1 DEF LossInv, Unshared
<1> QED
  BY <1>1, <1>2, LossAlone

\* A restart reads the newest entry and changes no file.
LEMMA LossRestart ==
    ASSUME FaultyConfig, LossInv, TypeInv', Restart
    PROVE  LossInv'
<1>0. pruner["admin"] # TRUE
  BY DEF Restart, LossInv, Unshared
<1>1. /\ UNCHANGED << active, nl, manifest, detached, ret, pruner, kept, acked, expired,
                      pc, sweep >>
      /\ up = FALSE /\ up' = TRUE
  BY LossFacts DEF Restart, file, sched, prun, ghost
<1>2. pc = "free" /\ sweep = "off"
  BY <1>1 DEF LossInv, Unshared
<1>3. Unshared'
  BY <1>0, <1>1, <1>2 DEF LossInv, Unshared
<1> QED
  BY <1>1, <1>2, <1>3, LossAlone

\* A prune keeps every line that is not an expired entry.
LEMMA LossPruneStart ==
    ASSUME FaultyConfig, LossInv, TypeInv', PruneStart
    PROVE  LossInv'
<1>0. /\ expired \in Nat /\ clock \in Nat /\ \A e \in acked : e.ts \in Nat
      /\ active \in Seq(Line) /\ pruner \in [Pruners -> BOOLEAN]
      /\ Reports(active, manifest, acked, expired) /\ Unshared
  BY LossFacts DEF LossInv
<1>1. /\ AdminPrune = "offline" /\ up = FALSE /\ pruner["admin"] = FALSE
      /\ UNCHANGED << active, nl, manifest, up, detached, pc, content, before, pend,
                      sweep, ret, acked >>
  <2>1. up \in BOOLEAN
    BY LossFacts
  <2>2. AdminPrune = "offline"
    BY AuditLogConstants DEF PruneStart, FaultyConfig
  <2>3. pruner["admin"] \in BOOLEAN
    BY <1>0 DEF Pruners
  <2> QED
    BY <2>1, <2>2, <2>3 DEF PruneStart, file, inner, job, sched
<1>2. PICK cut \in 1 .. (clock + 1) :
         /\ PruneRead("admin", cut)
         /\ expired' = IF cut > expired THEN cut ELSE expired
  BY DEF PruneStart
<1>3. cut \in Nat /\ expired' \in Nat /\ expired <= expired' /\ cut <= expired'
  BY <1>0, <1>2
<1>4. pruner'["sweep"] = FALSE
  BY <1>0, <1>2 DEF PruneRead, prun, Pruners, Unshared
<1>5. Unshared'
  BY <1>0, <1>1, <1>4 DEF Unshared
<1>6. pc = "free"
  BY <1>0, <1>1 DEF Unshared
<1>7. InWrite' /\ InSeal'
  BY <1>1, <1>6 DEF InWrite, InSeal
<1>8. InPrune'
  <2>1. CASE Old(cut) = {}
    BY <1>1, <1>2, <2>1 DEF PruneRead, prun, InPrune
  <2>2. CASE Old(cut) # {}
    <3>1. PICK f \in Orders(active, DOMAIN active \ Old(cut)) :
             kept' = [kept EXCEPT !["admin"] = At(active, f)]
      BY <1>2, <2>2 DEF PruneRead
    <3>2. kept'["admin"] = At(active, f)
      <4>1. kept \in [Pruners -> Seq(Line)]
        BY DEF LossInv, TypeInv, TypeOK
      <4> QED
        BY <3>1, <4>1 DEF Pruners
    <3>3. ASSUME NEW i \in DOMAIN active
          PROVE  \/ \E j \in DOMAIN At(active, f) : At(active, f)[j] = active[i]
                 \/ IsEntry(active[i]) /\ active[i].ts < expired'
      <4>1. CASE i \in Old(cut)
        <5>1. IsEntry(active[i]) /\ active[i].ts < cut
          BY <4>1 DEF Old, EntryIdx
        <5>2. active[i].ts \in Nat
          BY <1>0, LineType
        <5> QED
          BY <1>3, <5>1, <5>2
      <4>2. CASE i \notin Old(cut)
        <5>1. PICK j \in DOMAIN f : f[j] = i
          BY <4>2 DEF Orders
        <5> QED
          BY <5>1 DEF At
      <4> QED
        BY <4>1, <4>2
    <3> QED
      BY <1>1, <3>2, <3>3 DEF InPrune
  <2> QED
    BY <2>1, <2>2
<1>9. Reports(active, manifest, acked, expired')
  <2>1. \A k \in DOMAIN manifest : \E l \in DOMAIN manifest :
           manifest[l].lines = manifest[k].lines
    OBVIOUS
  <2>2. \A i \in DOMAIN active : \E j \in DOMAIN active : active[j] = active[i]
    OBVIOUS
  <2> QED
    BY <1>0, <1>3, <2>1, <2>2, ReportsKept
<1> QED
  BY <1>1, <1>5, <1>7, <1>8, <1>9 DEF LossInv

\* The pruned log replaces the log nobody appends to meanwhile.
LEMMA LossPruneRename ==
    ASSUME LossInv, TypeInv', NEW p \in Pruners, PruneRename(p)
    PROVE  LossInv'
<1>0. /\ expired \in Nat /\ \A e \in acked : e.ts \in Nat
      /\ pruner \in [Pruners -> BOOLEAN]
      /\ Reports(active, manifest, acked, expired) /\ Unshared /\ InPrune
  BY LossFacts DEF LossInv
<1>1. p = "admin" /\ pruner["admin"] = TRUE
  BY <1>0 DEF PruneRename, Unshared, Pruners
<1>2. /\ active' = kept["admin"] /\ nl' = TRUE /\ detached' = up
      /\ pruner' = [pruner EXCEPT !["admin"] = FALSE]
      /\ UNCHANGED << manifest, up, pc, sweep, ret, expired, acked >>
  BY <1>1 DEF PruneRename, ghost
<1>3. up = FALSE /\ pc = "free"
  BY <1>0, <1>1 DEF Unshared
<1>4. pruner'["sweep"] = FALSE /\ pruner'["admin"] = FALSE
  BY <1>0, <1>2 DEF Pruners, Unshared
<1>5. Unshared'
  BY <1>0, <1>2, <1>3, <1>4 DEF Unshared
<1>6. InWrite' /\ InSeal' /\ InPrune'
  BY <1>2, <1>3, <1>4 DEF InWrite, InSeal, InPrune
<1>7. Reports(kept["admin"], manifest, acked, expired)
  <2>1. \A k \in DOMAIN manifest : \E l \in DOMAIN manifest :
           manifest[l].lines = manifest[k].lines
    OBVIOUS
  <2>2. \A i \in DOMAIN active :
           \/ \E j \in DOMAIN kept["admin"] : kept["admin"][j] = active[i]
           \/ IsEntry(active[i]) /\ active[i].ts < expired
    BY <1>0, <1>1 DEF InPrune
  <2>3. expired <= expired
    BY <1>0
  <2> QED
    BY <1>0, <2>1, <2>2, <2>3, ReportsKept
<1> QED
  BY <1>2, <1>5, <1>6, <1>7 DEF LossInv

\* The empty log has lost nothing.
LEMMA LossInit == Init => LossInv
<1> SUFFICES ASSUME Init PROVE LossInv
  OBVIOUS
<1>1. TypeInv
  BY TypeInit
<1>2. Unshared /\ InPrune
  BY DEF Init, Unshared, InPrune, Pruners
<1>3. InWrite /\ InSeal
  BY DEF Init, InWrite, InSeal
<1>4. Reports(active, manifest, acked, expired)
  BY DEF Init, Reports
<1>5. nl = FALSE => active # << >>
  BY DEF Init
<1> QED
  BY <1>1, <1>2, <1>3, <1>4, <1>5 DEF LossInv

\* Every step keeps LossInv, action by action.
LEMMA LossStep ==
    ASSUME FaultyConfig, LossInv, [Next]_vars
    PROVE  LossInv'
<1>0. TypeInv'
  BY TypeStep, SealedStep DEF LossInv, TypeInv
<1>1. CASE AppendWrite
  BY <1>0, <1>1, LossAppendWrite
<1>2. CASE AppendSync
  BY <1>0, <1>2, LossAppendSync
<1>3. CASE AppendFails
  BY <1>0, <1>3, LossAppendFails
<1>4. CASE SealSegment
  BY <1>0, <1>4, LossSealSegment
<1>5. CASE Truncate
  BY <1>0, <1>5, LossTruncate
<1>6. CASE Reopen \/ RotateFails
  BY <1>0, <1>6, LossRotationEnds
<1>7. CASE SweepStart \/ SweepRotate \/ RemoveSegments \/ SaveManifest \/ SweepPrune
  BY <1>0, <1>7, LossSweep
<1>8. CASE PruneStart
  BY <1>0, <1>8, LossPruneStart
<1>9. CASE \E p \in Pruners : PruneRename(p)
  BY <1>0, <1>9, LossPruneRename
<1>10. CASE Crash
  BY <1>0, <1>10, LossCrash
<1>11. CASE Restart
  BY <1>0, <1>11, LossRestart
<1>12. CASE UNCHANGED vars
  <2>1. UNCHANGED << active, nl, manifest, acked, expired, pruner, kept, pc, content, up,
                     detached, ret, sweep, before, pend >>
    BY <1>12 DEF vars
  <2>2. Unshared'
    BY <2>1 DEF LossInv, Unshared
  <2>3. InWrite' /\ InSeal' /\ InPrune'
    BY <2>1 DEF LossInv, InWrite, InSeal, InPrune
  <2> QED
    BY <1>0, <2>1, <2>2, <2>3 DEF LossInv
<1> QED
  BY <1>1, <1>2, <1>3, <1>4, <1>5, <1>6, <1>7, <1>8, <1>9, <1>10, <1>11, <1>12 DEF Next

\* Every row of the manifest is among the rows verify_all goes through, whatever
\* order and repetition of seq_start a faulty history has left.
LEMMA SortedKeepsRows ==
    ASSUME NEW m \in Seq(Segment), \A k \in DOMAIN m : SeqStart(m[k]) \in Nat,
           NEW k \in DOMAIN m
    PROVE  \E n \in DOMAIN SortedBySeqStart(m) : SortedBySeqStart(m)[n] = m[k]
<1> DEFINE first(j, i) == \/ SeqStart(m[j]) < SeqStart(m[i])
                          \/ SeqStart(m[j]) = SeqStart(m[i]) /\ j < i
           smaller(i) == { j \in DOMAIN m : first(j, i) }
           place(n) == CHOOSE i \in DOMAIN m : Cardinality(smaller(i)) = n - 1
<1>0. SortedBySeqStart(m) = [n \in DOMAIN m |-> m[place(n)]]
  BY DEF SortedBySeqStart
<1>1. DOMAIN m = 1 .. Len(m) /\ Len(m) \in Nat
  OBVIOUS
<1>2. IsFiniteSet(DOMAIN m) /\ Cardinality(DOMAIN m) = Len(m)
  BY <1>1, IntervalSize, FS_Interval
<1>3. \A i \in DOMAIN m : i \in Nat /\ SeqStart(m[i]) \in Nat
  BY <1>1
<1>4. /\ \A i, j \in DOMAIN m : i = j \/ first(i, j) \/ first(j, i)
      /\ \A i \in DOMAIN m : ~first(i, i)
      /\ \A h, i, j \in DOMAIN m : first(h, i) /\ first(i, j) => first(h, j)
  BY <1>3
<1> HIDE DEF first
<1>5. ASSUME NEW i \in DOMAIN m
      PROVE  /\ IsFiniteSet(smaller(i)) /\ smaller(i) \subseteq DOMAIN m
             /\ i \notin smaller(i)
  BY <1>2, <1>4, FS_Subset
<1>6. ASSUME NEW i \in DOMAIN m, NEW j \in DOMAIN m, first(i, j)
      PROVE  Cardinality(smaller(i)) # Cardinality(smaller(j))
  <2>1. smaller(i) \subseteq smaller(j)
    BY <1>4, <1>6
  <2>2. i \in smaller(j)
    BY <1>6
  <2>3. i \notin smaller(i) /\ IsFiniteSet(smaller(j))
    BY <1>5
  <2> HIDE DEF smaller
  <2> QED
    BY <2>1, <2>2, <2>3, FS_Subset
<1>7. Cardinality(smaller(k)) + 1 \in DOMAIN m
  <2>1. IsFiniteSet(smaller(k)) /\ smaller(k) \subseteq DOMAIN m /\ k \notin smaller(k)
    BY <1>5
  <2> HIDE DEF smaller
  <2>2. Cardinality(smaller(k)) \in Nat /\ Cardinality(smaller(k)) <= Len(m)
    BY <1>2, <2>1, FS_CardinalityType, FS_Subset
  <2>3. Cardinality(smaller(k)) # Len(m)
    <3>1. Cardinality(DOMAIN m) = Cardinality(smaller(k)) => DOMAIN m = smaller(k)
      BY <1>2, <2>1, FS_Subset
    <3> QED
      BY <1>2, <2>1, <3>1
  <2> QED
    BY <1>1, <2>2, <2>3
<1> DEFINE n == Cardinality(smaller(k)) + 1
<1>8. place(n) = k
  <2>1. Cardinality(smaller(k)) = n - 1
    <3>1. Cardinality(smaller(k)) \in Nat
      BY <1>5, FS_CardinalityType
    <3> HIDE DEF smaller
    <3> QED
      BY <3>1
  <2> HIDE DEF n, smaller
  <2>2. place(n) \in DOMAIN m /\ Cardinality(smaller(place(n))) = n - 1
    BY <2>1
  <2> HIDE DEF place
  <2> QED
    BY <1>4, <1>6, <2>1, <2>2
<1> HIDE DEF place, n
<1>9. n \in DOMAIN m
  BY <1>7 DEF n
<1> QED
  BY <1>0, <1>8, <1>9

\* A line that does not parse fails every check that reaches it, and verify_all
\* checks the log and every row.
LEMMA SpoiltIsSeen ==
    ASSUME NEW m \in Seq(Segment), NEW s \in Seq(Line),
           \A k \in DOMAIN m : EntryIdx(m[k].lines) # {},
           Spoilt(s) \/ \E k \in DOMAIN m : Spoilt(m[k].lines)
    PROVE  verify_all(m, s) # "ok"
<1>1. ASSUME NEW t, NEW cur, Spoilt(t) PROVE ~Walks(t, cur)
  BY <1>1 DEF Spoilt, Walks
<1>2. CASE m = << >>
  <2>1. Spoilt(s)
    BY <1>2
  <2> QED
    BY <1>1, <1>2, <2>1 DEF verify_all, verify_log
<1>3. CASE m # << >>
  <2>1. \A k \in DOMAIN m : SeqStart(m[k]) \in Nat
    <3> TAKE k \in DOMAIN m
    <3>1. m[k].lines \in Seq(Line) /\ EntryIdx(m[k].lines) # {}
      BY RowType
    <3>2. FirstEntry(m[k].lines) \in Line
      BY <3>1, EntryTypes
    <3> QED
      BY <3>2 DEF SeqStart, Line
  <2>2. ASSUME NEW k \in DOMAIN m, Spoilt(m[k].lines)
        PROVE  \E n \in DOMAIN SortedBySeqStart(m) : Spoilt(SortedBySeqStart(m)[n].lines)
    BY <2>1, <2>2, SortedKeepsRows
  <2>3. ASSUME NEW o, Spoilt(s) \/ \E n \in DOMAIN o : Spoilt(o[n].lines)
        PROVE  verify_rows(o, s) # "ok"
    BY <1>1, <2>3 DEF verify_rows
  <2>4. Spoilt(s) \/ \E n \in DOMAIN SortedBySeqStart(m) : Spoilt(SortedBySeqStart(m)[n].lines)
    BY <2>2
  <2>5. verify_rows(SortedBySeqStart(m), s) # "ok"
    BY <2>3, <2>4
  <2> QED
    BY <1>3, <2>5 DEF verify_all
<1> QED
  BY <1>2, <1>3

\* With LossInv a missing entry has a spoilt line, which verify_all meets.
LEMMA LossEvident == LossInv => LossIsEvident
<1> SUFFICES ASSUME LossInv, ~NoAckedEntryLost
             PROVE  verify_all(manifest, active) # "ok"
  BY DEF LossIsEvident
<1>1. /\ active \in Seq(Line) /\ manifest \in Seq(Segment)
      /\ \A k \in DOMAIN manifest : EntryIdx(manifest[k].lines) # {}
      /\ \A k \in DOMAIN manifest : manifest[k].file = TRUE
  BY LossFacts DEF LossInv, TypeInv, SealedFromEntries, Unshared
<1>2. PICK e \in acked : e.ts >= expired /\ e \notin OnDisk
  BY DEF NoAckedEntryLost
<1>3. e \notin Entries(active) /\ \A k \in DOMAIN manifest : e \notin Entries(manifest[k].lines)
  BY <1>1, <1>2 DEF OnDisk
<1>4. Reports(active, manifest, acked, expired)
  BY DEF LossInv
<1>5. Spoilt(active) \/ \E k \in DOMAIN manifest : Spoilt(manifest[k].lines)
  BY <1>2, <1>3, <1>4 DEF Reports
<1> QED
  BY <1>1, <1>5, SpoiltIsSeen

\* With torn writes, failing writes, seals and truncations, crashes at any step
\* and prunes while the daemon is down, verify_all never calls a log intact that
\* has lost an acknowledged entry which no cutoff has passed.
THEOREM LossIsReported ==
    ASSUME FaultyConfig
    PROVE  Spec => []LossIsEvident
<1>1. Init => LossInv
  BY LossInit
<1>2. LossInv /\ [Next]_vars => LossInv'
  BY LossStep
<1> QED
  BY <1>1, <1>2, LossEvident, PTL DEF Spec
=============================================================================
