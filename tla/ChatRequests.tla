---------------------------- MODULE ChatRequests ----------------------------
(***************************************************************************)
(* The chat handler of maranode-api (routes/chat.rs, run) in front of the  *)
(* inference queue: the incident freeze, the workspace quotas, the audit   *)
(* records and the response stream.  Beside it, the callers of the engine  *)
(* that read neither the freeze nor the quotas: the baseline check         *)
(* (routes/baseline.rs) and the summaries of ingested documents            *)
(* (routes/rag.rs).                                                        *)
(*                                                                         *)
(* A handler is dropped at any await when its client disconnects.  What it *)
(* acquired of its workspace's quota is given back by a task that          *)
(* UsageGuard::drop spawns.                                                *)
(***************************************************************************)
EXTENDS InferenceQueue

CONSTANTS
    Workspaces, Models,
    Size,          \* model -> manifest.size_bytes
    Quota,         \* workspace -> its QuotaKind
    AuditFaults,   \* an append to the audit log may fail
    Incidents      \* incidents are declared and resolved

\* Workspace.max_concurrent_requests, max_models and max_memory_bytes.
QuotaKind == [concurrent: Nat, models: Nat, memory: Nat]

ASSUME ChatConstants ==
    /\ IsFiniteSet(Models) /\ Size \in [Models -> Nat]
    /\ Quota \in [Workspaces -> QuotaKind]
    /\ {AuditFaults, Incidents} \subseteq BOOLEAN

VARIABLES
    chat,         \* where each handler is
    ws, model,    \* the request's workspace and model
    recs,         \* the request's records in the audit log
    usage,        \* AppState.workspace_usage
    releasing,    \* requests whose UsageGuard has spawned its release
    audit_frozen  \* AppState.audit_frozen

cvars == << chat, ws, model, recs, usage, releasing, audit_frozen >>
vars  == << qvars, cvars >>

\* WorkspaceUsage; a model with count 0 has no entry in active_models.
Usage == [concurrent: Nat, active: [Models -> Nat]]

\* No chat has the name: it ended, or a call that is not of a chat has it.
Ended   == {"idle", "answered", "refused", "gone", "aside"}
Running == {"holding", "started", "called", "completed", "body"}

\* Every variable holds a value of the kind the code gives it.
ChatTypeOK ==
    /\ QueueTypeOK
    /\ chat \in [Requests -> Ended \cup Running \cup {"admitted"}]
    /\ ws \in [Requests -> Workspaces] /\ model \in [Requests -> Models]
    /\ recs \in [Requests -> SUBSET {"start", "complete", "receipt"}]
    /\ usage \in [Workspaces -> Usage]
    /\ releasing \subseteq Requests
    /\ audit_frozen \in BOOLEAN

ChatInit ==
    /\ QueueInit
    /\ chat = [r \in Requests |-> "idle"]
    /\ ws \in [Requests -> Workspaces] /\ model \in [Requests -> Models]
    /\ recs = [r \in Requests |-> {}]
    /\ usage = [w \in Workspaces |->
                  [concurrent |-> 0, active |-> [m \in Models |-> 0]]]
    /\ releasing = {} /\ audit_frozen = FALSE

-----------------------------------------------------------------------------
(* WorkspaceUsage *)

ActiveModels(u) == { m \in Models : u.active[m] > 0 }

\* The sum of the models' sizes: the number of bytes they have together.
memory_bytes(S) == Cardinality(UNION { {m} \X (1 .. Size[m]) : m \in S })

\* Mutant of WithinQuota: off by one at max_models.
WithinQuotaLoose(u, q, m) ==
    /\ u.concurrent < q.concurrent
    /\ m \notin ActiveModels(u) =>
         /\ Cardinality(ActiveModels(u)) <= q.models
         /\ memory_bytes(ActiveModels(u)) + Size[m] <= q.memory

\* The three quota checks of run.
WithinQuota(u, q, m) ==
    /\ u.concurrent < q.concurrent
    /\ m \notin ActiveModels(u) =>
         /\ Cardinality(ActiveModels(u)) < q.models
         /\ memory_bytes(ActiveModels(u)) + Size[m] <= q.memory

acquire(u, m) == [u EXCEPT !.concurrent = @ + 1, !.active[m] = @ + 1]

SaturatingDec(n) == IF n = 0 THEN 0 ELSE n - 1

\* Mutant of release: the entry of a model nobody uses any more is not removed.
ReleaseKeepsEntry(u, m) ==
    [u EXCEPT !.concurrent = SaturatingDec(@), !.active[m] = IF @ > 1 THEN @ - 1 ELSE @]

release(u, m) ==
    [u EXCEPT !.concurrent = SaturatingDec(@), !.active[m] = SaturatingDec(@)]

-----------------------------------------------------------------------------
(* The handler *)

\* run up to the quota checks: refused while an incident is active.
Admit(r) ==
    /\ chat[r] \in Ended /\ r \notin releasing /\ at[r] \in Over /\ ~thread[r]
    /\ ~audit_frozen
    /\ \E w \in Workspaces, m \in Models :
         /\ ws' = [ws EXCEPT ![r] = w]
         /\ model' = [model EXCEPT ![r] = m]
    /\ chat' = [chat EXCEPT ![r] = "admitted"]
    /\ recs' = [recs EXCEPT ![r] = {}]
    /\ UNCHANGED << qvars, usage, releasing, audit_frozen >>

\* The quota checks and acquire, under the workspace_usage lock.
TakeQuota(r) ==
    /\ chat[r] = "admitted"
    /\ IF WithinQuota(usage[ws[r]], Quota[ws[r]], model[r])
       THEN /\ usage' = [usage EXCEPT ![ws[r]] = acquire(@, model[r])]
            /\ chat' = [chat EXCEPT ![r] = "holding"]
       ELSE /\ chat' = [chat EXCEPT ![r] = "refused"]
            /\ UNCHANGED usage
    /\ UNCHANGED << qvars, ws, model, recs, releasing, audit_frozen >>

\* Mutant of End: the guard gives nothing back.
EndLeaks(r, how) ==
    /\ chat' = [chat EXCEPT ![r] = how]
    /\ releasing' = releasing

\* The handler ends and its UsageGuard is dropped.
End(r, how) ==
    /\ chat' = [chat EXCEPT ![r] = how]
    /\ releasing' = releasing \cup {r}

\* Retrieval fails or forbids the request, or answers it without inference.
PrepareEnds(r) ==
    /\ chat[r] = "holding"
    /\ End(r, "refused")
    /\ UNCHANGED << qvars, ws, model, recs, usage, audit_frozen >>

\* The records an attempt to append rec leaves; run ignores a failed append.
Recorded(r, rec) ==
    { recs[r] \cup {rec} } \cup (IF AuditFaults THEN {recs[r]} ELSE {})

\* The InferenceStart record.
LogStart(r) ==
    /\ chat[r] = "holding"
    /\ \E rs \in Recorded(r, "start") : recs' = [recs EXCEPT ![r] = rs]
    /\ chat' = [chat EXCEPT ![r] = "started"]
    /\ UNCHANGED << qvars, ws, model, usage, releasing, audit_frozen >>

\* engine.generate or engine.generate_stream is called.
CallEngine(r, s) ==
    /\ chat[r] = "started"
    /\ Call(r, s)
    /\ chat' = [chat EXCEPT ![r] = "called"]
    /\ UNCHANGED << ws, model, recs, usage, releasing, audit_frozen >>

\* A prompt of check_baseline, or the summary of a document: engine.generate, with
\* no look at audit_frozen and no share of a quota.  The next prompt is another call.
CallAside(r) ==
    /\ chat[r] \in Ended /\ r \notin releasing
    /\ Call(r, FALSE)
    /\ chat' = [chat EXCEPT ![r] = "aside"]
    /\ recs' = [recs EXCEPT ![r] = {}]
    /\ UNCHANGED << ws, model, usage, releasing, audit_frozen >>

InEngine(r) ==
    /\ chat[r] \in {"called", "aside"}
    /\ QueueStep(r)
    /\ UNCHANGED cvars

\* engine.generate returned: an error is answered with an error, a result
\* gets its InferenceComplete record.
Complete(r) ==
    /\ chat[r] = "called" /\ ~stream[r]
    /\ \/ /\ at[r] \in {"busy", "failed"}
          /\ End(r, "refused")
          /\ UNCHANGED recs
       \/ /\ at[r] = "served"
          /\ \E rs \in Recorded(r, "complete") : recs' = [recs EXCEPT ![r] = rs]
          /\ chat' = [chat EXCEPT ![r] = "completed"]
          /\ UNCHANGED releasing
    /\ UNCHANGED << qvars, ws, model, usage, audit_frozen >>

\* The InferenceReceipt record, and the response.
Answer(r) ==
    /\ chat[r] = "completed"
    /\ \E rs \in Recorded(r, "receipt") : recs' = [recs EXCEPT ![r] = rs]
    /\ End(r, "answered")
    /\ UNCHANGED << qvars, ws, model, usage, audit_frozen >>

\* engine.generate_stream returned, with or without a thread: the guard moves
\* into the response stream.
StartBody(r) ==
    /\ chat[r] = "called" /\ stream[r] /\ at[r] \in Over
    /\ chat' = [chat EXCEPT ![r] = "body"]
    /\ UNCHANGED << qvars, ws, model, recs, usage, releasing, audit_frozen >>

\* The sender is gone and every token has been sent.
BodyEnds(r) ==
    /\ chat[r] = "body" /\ ~thread[r]
    /\ End(r, IF at[r] = "served" THEN "answered" ELSE "refused")
    /\ UNCHANGED << qvars, ws, model, recs, usage, audit_frozen >>

\* The client disconnects; the handler is dropped at one of its awaits, or the
\* response stream is dropped.
Disconnect(r) ==
    /\ Cancels
    /\ \/ /\ chat[r] = "admitted"
          /\ chat' = [chat EXCEPT ![r] = "gone"]
          /\ UNCHANGED << qvars, releasing >>
       \/ /\ \/ chat[r] \in {"holding", "started", "completed", "body"}
             \/ chat[r] = "called" /\ at[r] = "served" /\ ~stream[r]
          /\ End(r, "gone")
          /\ UNCHANGED qvars
       \/ /\ chat[r] = "called"
          /\ Cancel(r)
          /\ End(r, "gone")
       \/ /\ chat[r] = "aside"
          /\ Cancel(r)
          /\ UNCHANGED << chat, releasing >>
    /\ UNCHANGED << ws, model, recs, usage, audit_frozen >>

\* The task spawned by UsageGuard::drop.
Release(r) ==
    /\ r \in releasing
    /\ usage' = [usage EXCEPT ![ws[r]] = release(@, model[r])]
    /\ releasing' = releasing \ {r}
    /\ UNCHANGED << qvars, chat, ws, model, recs, audit_frozen >>

GenerationEnds(r) == ThreadEnds(r) /\ UNCHANGED cvars

\* declare and resolve of the incident routes.
SetFrozen ==
    /\ Incidents
    /\ audit_frozen' = ~audit_frozen
    /\ UNCHANGED << qvars, chat, ws, model, recs, usage, releasing >>

Reload == (\E n \in Limits : set_max_waiting(n)) /\ UNCHANGED cvars

HandlerStep(r) ==
    \/ TakeQuota(r) \/ LogStart(r) \/ (\E s \in BOOLEAN : CallEngine(r, s))
    \/ InEngine(r) \/ Complete(r) \/ Answer(r) \/ StartBody(r) \/ BodyEnds(r)

ChatNext ==
    \/ \E r \in Requests : \/ Admit(r) \/ HandlerStep(r) \/ PrepareEnds(r) \/ CallAside(r)
                           \/ Disconnect(r) \/ Release(r) \/ GenerationEnds(r)
    \/ SetFrozen \/ Reload

\* As in InferenceQueue; spawned tasks run.
ChatFairness ==
    \A r \in Requests : /\ WF_vars(HandlerStep(r)) /\ WF_vars(Release(r))
                        /\ WF_vars(~stream[r] /\ GenerationEnds(r))

ChatSpec == ChatInit /\ [][ChatNext]_vars /\ ChatFairness

-----------------------------------------------------------------------------
(* Properties *)

\* The requests of w that hold a share of its quota.
InFlight(w) ==
    { r \in Requests : ws[r] = w /\ chat[r] \in Running }

\* Quota is given back late, never early or twice: the requests of a workspace
\* between admission and the end of their response, streams included, never
\* exceed its max_concurrent_requests, their models never its max_models or
\* its max_memory_bytes, whichever way earlier requests ended.
QuotaRespected ==
    \A w \in Workspaces :
        LET ms == { model[r] : r \in InFlight(w) } IN
        /\ Cardinality(InFlight(w)) <= Quota[w].concurrent
        /\ Cardinality(ms) <= Quota[w].models
        /\ memory_bytes(ms) <= Quota[w].memory

\* While an incident lasts, chat comes to rest, whatever the other callers of the
\* engine do, which the incident does not stop: every generation of a chat ends
\* but those of streams whose clients do not read, and of the quota of every
\* workspace only what open response streams hold is not free again.
FreezeDrains ==
    <>[]audit_frozen =>
        <>[](/\ \A r \in Threads : stream[r] \/ chat[r] = "aside"
             /\ \A w \in Workspaces :
                  usage[w].concurrent =
                    Cardinality({ r \in InFlight(w) : chat[r] = "body" }
                                \cup { r \in releasing : ws[r] = w }))

\* Where a request is in the ledger of its workspace.  A share is held until the
\* task that gives it back has run.
Place(r) ==
    IF chat[r] = "admitted" THEN "asking"
    ELSE IF chat[r] \in Running \/ r \in releasing THEN "holding"
    ELSE IF chat[r] = "refused" THEN "refused" ELSE "out"

Ledger == INSTANCE QuotaLedger WITH place <- [r \in Requests |-> Place(r)]

\* The counters of WorkspaceUsage, their checks and the tasks of the guards together
\* implement that ledger: a request is let in only when its share keeps the workspace
\* within its limits, and turned away only when it would not, so that no share is ever
\* lost to a request that failed or whose client went away.
ImplementsLedger == Ledger!Spec

\* The accounts of usage are well-formed, with no count below zero, and the
\* quotas hold.
QuotasHold == ChatTypeOK /\ QuotaRespected
=============================================================================
