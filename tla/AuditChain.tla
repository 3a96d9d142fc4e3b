----------------------------- MODULE AuditChain -----------------------------
(***************************************************************************)
(* The lines of an audit log and the checks made on them: what             *)
(* maranode-audit's summarize, oldest_ts, scan_tail, recover_tail, walk,   *)
(* anchor and verify_all compute from the content of files.                *)
(*                                                                         *)
(* An entry is its sequence number, the hmac of the entry it continues and *)
(* a stamp.  Stamps are handed out once, in the order of the appends, so a *)
(* stamp stands both for the entry's timestamp and for its hmac: two       *)
(* entries have the same hmac exactly when they are the same append.       *)
(***************************************************************************)
EXTENDS Naturals, Sequences, FiniteSets

Line == [seq: Nat, prev: Nat, ts: Nat]

\* chain::GENESIS_HMAC, the prev_hmac of the first entry ever written.
GENESIS == 0

\* A line that serde_json cannot parse as an AuditEntry: a torn write, or a
\* torn write with a later entry glued to it.
Junk == [seq |-> 0, prev |-> 0, ts |-> 0]

IsEntry(l) == l.seq > 0

Lines(s) == { s[i] : i \in DOMAIN s }

Entries(s) == { l \in Lines(s) : IsEntry(l) }

EntryIdx(s) == { i \in DOMAIN s : IsEntry(s[i]) }

\* summarize and oldest_ts skip every line that does not parse.
FirstEntry(s) == s[CHOOSE i \in EntryIdx(s) : \A j \in EntryIdx(s) : i <= j]
LastEntry(s)  == s[CHOOSE i \in EntryIdx(s) : \A j \in EntryIdx(s) : j <= i]

\* The positions T of s listed in order (there is exactly one such list), and
\* the lines at listed positions: what a loop that pushes the lines it keeps
\* to a vector builds.
Orders(s, T) ==
    { f \in UNION { [1..n -> T] : n \in 0..Len(s) } :
        /\ \A i, j \in DOMAIN f : i < j => f[i] < f[j]
        /\ \A t \in T : \E i \in DOMAIN f : f[i] = t }
At(s, f) == [k \in DOMAIN f |-> s[f[k]]]

-----------------------------------------------------------------------------
(* Segments.  A manifest row is kept as the lines it was sealed from (its  *)
(* seq_start, seq_end, last_hmac, ts_last are functions of them) and       *)
(* whether its zip file is still in the segment directory.                 *)

Segment == [lines: Seq(Line), file: BOOLEAN]

SeqStart(seg) == FirstEntry(seg.lines).seq
SeqEnd(seg)   == LastEntry(seg.lines).seq
TsLast(seg)   == LastEntry(seg.lines).ts

\* recover_tail: the row with the greatest seq_end (max_by_key keeps the last).
recover_tail(m) ==
    LET k == CHOOSE i \in DOMAIN m :
               \A j \in DOMAIN m : /\ SeqEnd(m[j]) <= SeqEnd(m[i])
                                   /\ j > i => SeqEnd(m[j]) < SeqEnd(m[i])
    IN  [seq |-> SeqEnd(m[k]), hmac |-> LastEntry(m[k].lines).ts]

\* Mutant of scan_tail: the manifest is not consulted.
ScanTailActiveOnly(content, m) ==
    IF EntryIdx(content) # {}
    THEN [seq |-> LastEntry(content).seq, hmac |-> LastEntry(content).ts]
    ELSE [seq |-> 0, hmac |-> GENESIS]

\* scan_tail: the sequence number and hmac the daemon continues from when it
\* opens a log.
scan_tail(content, m) ==
    IF EntryIdx(content) # {}
    THEN [seq |-> LastEntry(content).seq, hmac |-> LastEntry(content).ts]
    ELSE IF m # << >> THEN recover_tail(m)
    ELSE [seq |-> 0, hmac |-> GENESIS]

-----------------------------------------------------------------------------
(* Verification. *)

Cursor == [seq: Nat, hmac: Nat]

\* Mutant of Walks: lines that do not parse are skipped.
WalksSkipJunk(s, cur) ==
    \A i \in EntryIdx(s) :
        LET earlier == { j \in EntryIdx(s) : j < i } IN
        /\ s[i].seq  = cur.seq + Cardinality(earlier)
        /\ s[i].prev = IF earlier = {} THEN cur.hmac
                       ELSE s[CHOOSE j \in earlier : \A k \in earlier : k <= j].ts

\* walk finds no violation: every line parses, is the next in sequence and
\* carries the hmac of the line before it.
Walks(s, cur) ==
    \A i \in DOMAIN s :
        /\ IsEntry(s[i])
        /\ s[i].seq  = cur.seq + (i - 1)
        /\ s[i].prev = IF i = 1 THEN cur.hmac ELSE s[i-1].ts

\* The cursor after a walk without violation.
After(s, cur) ==
    IF s = << >> THEN cur
    ELSE [seq |-> s[Len(s)].seq + 1, hmac |-> s[Len(s)].ts]

\* Mutant of anchor: every log starts at the genesis.
AnchorGenesis(s) == [seq |-> 1, hmac |-> GENESIS]

\* anchor: a log whose first line is a later entry is checked from there on.
anchor(s) ==
    IF s # << >> /\ s[1].seq > 1
    THEN [seq |-> s[1].seq, hmac |-> s[1].prev]
    ELSE [seq |-> 1, hmac |-> GENESIS]

verify_log(content) == IF Walks(content, anchor(content)) THEN "ok" ELSE "bad"

\* verify_all on rows already in seq_start order.  "error" is the Err of
\* read_segment for a row whose file is gone.
verify_rows(m, content) ==
    LET from(k) == IF k = 1
                   THEN [seq  |-> SeqStart(m[1]),
                         hmac |-> IF SeqStart(m[1]) = 1 THEN GENESIS
                                  ELSE FirstEntry(m[1].lines).prev]
                   ELSE After(m[k-1].lines, [seq |-> 1, hmac |-> GENESIS])
        fails(k) == ~m[k].file \/ ~Walks(m[k].lines, from(k))
        last == m[Len(m)].lines
    IN  IF \E k \in DOMAIN m : fails(k)
        THEN LET k == CHOOSE i \in DOMAIN m :
                        fails(i) /\ \A j \in DOMAIN m : fails(j) => i <= j
             IN  IF m[k].file THEN "bad" ELSE "error"
        ELSE IF Walks(content, After(last, [seq |-> 1, hmac |-> GENESIS]))
             THEN "ok" ELSE "bad"

\* sort_by_key(seq_start), a stable sort: row i comes after the rows that
\* start earlier and, among those that start with it, after the earlier ones.
SortedBySeqStart(m) ==
    LET before(i) == { j \in DOMAIN m : \/ SeqStart(m[j]) < SeqStart(m[i])
                                        \/ /\ SeqStart(m[j]) = SeqStart(m[i])
                                           /\ j < i }
    IN  [n \in DOMAIN m |->
            m[CHOOSE i \in DOMAIN m : Cardinality(before(i)) = n - 1]]

verify_all(m, content) ==
    IF m = << >> THEN verify_log(content)
    ELSE verify_rows(SortedBySeqStart(m), content)

=============================================================================
