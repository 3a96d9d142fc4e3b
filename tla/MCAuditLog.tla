----------------------------- MODULE MCAuditLog -----------------------------
(* The instances of AuditLog that TLC checks; the cfg files choose which    *)
(* faults and which callers there are.                                      *)
EXTENDS AuditLog
=============================================================================
