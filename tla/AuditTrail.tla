----------------------------- MODULE AuditTrail -----------------------------
(***************************************************************************)
(* What an audit log promises: a chain of entries that only grows at its   *)
(* end, each new entry continuing the newest one still kept, and from      *)
(* which nothing disappears before its retention cutoff.  How the entries  *)
(* are spread over files, and what a crash does to the files, is not seen. *)
(***************************************************************************)
EXTENDS Naturals

VARIABLES trail,  \* the entries that can be read back
          cutoff  \* entries older than this may be dropped

Init == trail = {} /\ cutoff = 0

\* One entry is added at the end of the chain.
Record ==
    \E e \in trail' \ trail :
        /\ trail' = trail \cup {e}
        /\ \A f \in trail : f.ts < e.ts /\ f.seq < e.seq
        /\ trail # {} =>
             \E f \in trail : e.prev = f.ts /\ e.seq = f.seq + 1
        /\ UNCHANGED cutoff

\* Retention moves on and may drop entries it has passed.
Expire ==
    /\ cutoff' >= cutoff
    /\ trail' \subseteq trail
    /\ \A e \in trail \ trail' : e.ts < cutoff'

Next == Record \/ Expire

Spec == Init /\ [][Next]_<< trail, cutoff >>
=============================================================================
