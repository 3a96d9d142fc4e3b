----------------------------- MODULE Governance -----------------------------
(***************************************************************************)
(* The administration of a daemon: legal holds and model approvals, which  *)
(* it keeps as files in its data directory, and workspaces.  Requests run  *)
(* beside each other, and one crash interrupts them all.                   *)
(***************************************************************************)
EXTENDS LegalHold, ModelRegistry, Tenancy

CONSTANTS
    MaxRequests,   \* bound: requests and commands
    MaxCrashes     \* bound: crashes

ASSUME GovernanceConstants == MaxRequests \in Nat /\ MaxCrashes \in Nat

\* What a behaviour is about: nothing connects workspaces with the other two.
Subjects == {"records", "workspaces"}

VARIABLES subject, requests, crashes

govvars == << holdvars, regvars, tenvars, subject, requests, crashes >>

GovernanceInit ==
    /\ HoldInit /\ RegistryInit /\ TenancyInit
    /\ subject \in Subjects /\ requests = 0 /\ crashes = 0

Request ==
    /\ requests < MaxRequests /\ requests' = requests + 1
    /\ \/ subject = "records" /\ HoldRequest /\ UNCHANGED << regvars, tenvars >>
       \/ subject = "records" /\ RegistryRequest /\ UNCHANGED << holdvars, tenvars >>
       \/ subject = "workspaces" /\ TenancyRequest /\ UNCHANGED << holdvars, regvars >>
    /\ UNCHANGED << subject, crashes >>

Step ==
    /\ \/ HoldStep /\ UNCHANGED << regvars, tenvars >>
       \/ RegistryStep /\ UNCHANGED << holdvars, tenvars >>
       \/ TenancyStep /\ UNCHANGED << holdvars, regvars >>
    /\ UNCHANGED << subject, requests, crashes >>

Crash ==
    /\ crashes < MaxCrashes /\ crashes' = crashes + 1
    /\ HoldCrash /\ RegistryCrash /\ TenancyCrash
    /\ UNCHANGED << subject, requests >>

GovernanceSpec == GovernanceInit /\ [][Request \/ Step \/ Crash]_govvars
=============================================================================
