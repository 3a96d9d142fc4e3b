----------------------------- MODULE MCIncident -----------------------------
(* The instances of the incident workflow and the break-glass credentials   *)
(* that TLC checks.                                                         *)
EXTENDS IncidentResponse
=============================================================================
