---------------------------- MODULE MCKeyCustody ----------------------------
(* The instances of KeyCustody that TLC checks. *)
EXTENDS KeyCustody, TLC

CONSTANTS k1, k2, p1, p2, l1, l2, v1, v2, w1

\* Keys, passphrases, PCR lists and platforms are only compared with each other.
KeySymmetry == Permutations({k1, k2}) \cup Permutations({p1, p2})
                 \cup Permutations({l1, l2}) \cup Permutations({v1, v2})
=============================================================================
