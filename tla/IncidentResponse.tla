-------------------------- MODULE IncidentResponse --------------------------
(***************************************************************************)
(* The incident workflow and the break-glass credentials of one daemon.    *)
(* They share no lock and no file; a crash stops both.                     *)
(***************************************************************************)
EXTENDS Incident

CONSTANTS Creds, Callers

VARIABLES bg_file, bg_at, bg_cred, bg_uses, bg_met

BG == INSTANCE BreakGlass WITH file <- bg_file, at <- bg_at,
                               cred <- bg_cred, uses <- bg_uses, met <- bg_met

bgvars == << bg_file, bg_at, bg_cred, bg_uses, bg_met >>

ResponseInit == Init /\ BG!Init

ResponseNext ==
    \/ Serve /\ UNCHANGED bgvars
    \/ up /\ BG!Serve /\ UNCHANGED vars
    \/ Crash /\ BG!Crash

ResponseSpec == ResponseInit /\ [][ResponseNext]_<< vars, bgvars >>

\* A break-glass credential is never accepted twice: not by a request that
\* follows another, and not because a crash came between the check of is_used,
\* the truncation of the file and its rewriting.  Two requests that check is_used
\* before either has saved are the exception; what they leave is a used
\* credential for whoever comes after them.
SingleUse == BG!SingleUse

\* Credentials are used once, in a daemon whose incident state is well-formed.
CredentialsSound == TypeOK /\ SingleUse
=============================================================================
