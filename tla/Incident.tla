------------------------------ MODULE Incident ------------------------------
(***************************************************************************)
(* The incident workflow of maranode-api: declare, investigate and resolve *)
(* under the incident lock, the audit_frozen flag other handlers read      *)
(* without it, and incident-state.json, which a restart reads.             *)
(*                                                                         *)
(* persist_incident is tokio::fs::write: a blocking job that truncates the *)
(* file and then writes it.  The handler awaits the job; when its client   *)
(* disconnects the handler is dropped at that await, or at the webhooks    *)
(* and appends that follow, and the job goes on.                           *)
(***************************************************************************)
EXTENDS Naturals

CONSTANTS
    Cancels,    \* clients disconnect
    IOFaults,   \* a write of incident-state.json may fail
    MaxOps,     \* bound: handlers that get past their checks
    MaxCrashes  \* bound: crashes

ASSUME IncidentConstants ==
    /\ {Cancels, IOFaults} \subseteq BOOLEAN
    /\ {MaxOps, MaxCrashes} \subseteq Nat

VARIABLES
    phase,        \* the phase of the incident in memory, or "none"
    audit_frozen, \* AppState.audit_frozen
    file,         \* the phase in incident-state.json, "none" or "torn"
    up,           \* the daemon is running
    op,           \* the handler that holds the incident lock, or "none"
    failed,       \* its persist_incident returned an error
    writes,       \* write jobs that have not ended
    ops, crashes,
    acked,        \* declare answered Ok and resolve has not been called since
    spoiled       \* a handler was dropped, or a write failed or was cut short

vars == << phase, audit_frozen, file, up, op, failed, writes, ops, crashes,
           acked, spoiled >>

Active == {"declared", "investigating"}
Phases == Active \cup {"resolved"}
Write  == [n: 1..MaxOps, to: Phases, open: BOOLEAN]

\* Every variable holds a value of the kind the code gives it.
TypeOK ==
    /\ phase \in Phases \cup {"none"}
    /\ audit_frozen \in BOOLEAN
    /\ file \in Phases \cup {"none", "torn"}
    /\ up \in BOOLEAN
    /\ op \in {"none", "declare", "investigate", "resolve"}
    /\ failed \in BOOLEAN
    /\ writes \subseteq Write
    /\ ops \in 0..MaxOps /\ crashes \in 0..MaxCrashes
    /\ acked \in BOOLEAN /\ spoiled \in BOOLEAN

Init ==
    /\ phase = "none" /\ audit_frozen = FALSE /\ file = "none"
    /\ up = TRUE /\ op = "none" /\ failed = FALSE /\ writes = {}
    /\ ops = 0 /\ crashes = 0 /\ acked = FALSE /\ spoiled = FALSE

-----------------------------------------------------------------------------
\* A handler takes the lock and starts to persist phase p.
Begin(handler, p) ==
    /\ up /\ op = "none" /\ ops < MaxOps
    /\ op' = handler /\ ops' = ops + 1 /\ failed' = FALSE
    /\ writes' = writes \cup {[n |-> ops + 1, to |-> p, open |-> FALSE]}

\* The write the handler awaits has ended.
Persisted == \A w \in writes : w.n # ops

\* Mutant of Declare: the flag is not raised.
DeclareUnfrozen ==
    /\ phase \notin Active
    /\ Begin("declare", "declared")
    /\ UNCHANGED << audit_frozen, phase, file, up, crashes, acked, spoiled >>

\* declare, up to the await of persist_incident.
Declare ==
    /\ phase \notin Active
    /\ Begin("declare", "declared")
    /\ audit_frozen' = TRUE
    /\ UNCHANGED << phase, file, up, crashes, acked, spoiled >>

\* declare after it: webhooks and records, and last the incident is stored in
\* memory.  An error of persist_incident is ignored.
DeclareEnds ==
    /\ op = "declare" /\ Persisted
    /\ op' = "none" /\ phase' = "declared" /\ acked' = TRUE
    /\ UNCHANGED << audit_frozen, file, up, failed, writes, ops, crashes, spoiled >>

\* investigate: transition_phase changes the phase and then persists it.
Investigate ==
    /\ phase = "declared"
    /\ Begin("investigate", "investigating")
    /\ phase' = "investigating"
    /\ UNCHANGED << audit_frozen, file, up, crashes, acked, spoiled >>

\* With or without an error there is nothing left to change.
InvestigateEnds ==
    /\ op = "investigate" /\ Persisted
    /\ op' = "none"
    /\ UNCHANGED << phase, audit_frozen, file, up, failed, writes, ops, crashes,
                    acked, spoiled >>

\* resolve accepts any phase.
Resolve ==
    /\ phase # "none"
    /\ Begin("resolve", "resolved")
    /\ phase' = "resolved" /\ acked' = FALSE
    /\ UNCHANGED << audit_frozen, file, up, crashes, spoiled >>

\* Mutant of ResolveEnds: the flag is not cleared.
ResolveEndsFrozen ==
    /\ op = "resolve" /\ Persisted
    /\ op' = "none"
    /\ UNCHANGED << audit_frozen, phase, file, up, failed, writes, ops, crashes,
                    acked, spoiled >>

\* An error of transition_phase returns before the flag is cleared.
ResolveEnds ==
    /\ op = "resolve" /\ Persisted
    /\ op' = "none"
    /\ audit_frozen' = (audit_frozen /\ failed)
    /\ UNCHANGED << phase, file, up, failed, writes, ops, crashes, acked, spoiled >>

\* The client disconnects and the handler is dropped; the lock is free.
Disconnect ==
    /\ Cancels /\ op # "none"
    /\ op' = "none" /\ spoiled' = TRUE
    /\ UNCHANGED << phase, audit_frozen, file, up, failed, writes, ops, crashes,
                    acked >>

-----------------------------------------------------------------------------
(* persist_incident *)

\* File::create truncates.
Open(w) ==
    /\ ~w.open
    /\ file' = "torn"
    /\ writes' = (writes \ {w}) \cup {[w EXCEPT !.open = TRUE]}
    /\ UNCHANGED << phase, audit_frozen, up, op, failed, ops, crashes, acked,
                    spoiled >>

\* write_all.  Over what another job wrote meanwhile it may leave a mixture.
WriteAll(w) ==
    /\ w.open
    /\ file' \in {w.to} \cup (IF file = "torn" THEN {} ELSE {"torn"})
    /\ writes' = writes \ {w}
    /\ UNCHANGED << phase, audit_frozen, up, op, failed, ops, crashes, acked,
                    spoiled >>

WriteFails(w) ==
    /\ IOFaults
    /\ writes' = writes \ {w}
    /\ failed' = (failed \/ w.n = ops) /\ spoiled' = TRUE
    /\ UNCHANGED << phase, audit_frozen, file, up, op, ops, crashes, acked >>

-----------------------------------------------------------------------------
Crash ==
    /\ up /\ crashes < MaxCrashes
    /\ crashes' = crashes + 1
    /\ up' = FALSE /\ phase' = "none" /\ audit_frozen' = FALSE
    /\ op' = "none" /\ failed' = FALSE /\ writes' = {}
    /\ spoiled' = (spoiled \/ \E w \in writes : w.open)
    /\ UNCHANGED << file, ops, acked >>

\* Mutant of Restart: the flag is not restored.
RestartUnfrozen ==
    /\ ~up
    /\ up' = TRUE
    /\ phase' = IF file \in Phases THEN file ELSE "none"
    /\ UNCHANGED << audit_frozen, file, op, failed, writes, ops, crashes, acked,
                    spoiled >>
\* load_incident_on_start: a file that is not there or does not parse is no
\* incident.
Restart ==
    /\ ~up
    /\ up' = TRUE
    /\ phase' = IF file \in Phases THEN file ELSE "none"
    /\ audit_frozen' = (file \in Active)
    /\ UNCHANGED << file, op, failed, writes, ops, crashes, acked, spoiled >>

\* status waits for the lock and changes nothing.
Status == up /\ op = "none" /\ UNCHANGED vars

Serve ==
    \/ Status \/ Declare \/ DeclareEnds \/ Investigate
    \/ InvestigateEnds \/ Resolve \/ ResolveEnds \/ Disconnect
    \/ \E w \in writes : Open(w) \/ WriteAll(w) \/ WriteFails(w)
    \/ Restart

Next == Serve \/ Crash

Spec == Init /\ [][Next]_vars

-----------------------------------------------------------------------------
(* Properties *)

\* The flag that suspends inference is up whenever the incident in memory is
\* active: the order of the two assignments in declare and in resolve leaves
\* no gap, wherever a handler is dropped, a write fails or the daemon crashes.
ActiveIsFrozen == phase \in Active => audit_frozen

\* Between handlers inference is suspended only while an incident is active,
\* after any number of restarts, unless a handler was dropped by its client or
\* a write of the incident's file failed or was cut short.
FrozenIsActive ==
    up /\ op = "none" /\ ~spoiled /\ audit_frozen => phase \in Active

\* An incident that was declared and not resolved is still in force after any
\* number of restarts, with the same exceptions.
FreezeKeptByFile == up /\ acked /\ ~spoiled => audit_frozen
=============================================================================
