--------------------------- MODULE ModelRegistry ----------------------------
(***************************************************************************)
(* The approval registry of models (maranode-api/src/routes/registry.rs,   *)
(* changemgmt.rs, maranode-common/src/approval.rs, `maranode registry`):   *)
(* one JSON file per submitted SHA-256, one token file per approval, the   *)
(* signing key, and tickets in ServiceNow or Jira that spawned tasks open  *)
(* and close. No handler takes a lock; every file is written in place.     *)
(***************************************************************************)
EXTENDS Integers, FiniteSets

CONSTANTS
    NoSub, TornFile,
    Shas,          \* submitted digests
    TicketIds,     \* ticket numbers of the change management system
    Handlers       \* concurrent requests, each with the task it spawns

\* SubmissionRecord: status and cm_ticket_id
Sub == [status: {"pending", "approved", "revoked"}, ticket: TicketIds \cup {NoSub}]

\* A request and its spawned task: where it is, and the record it has loaded.
Work == [at: {"submit", "open", "jira", "reload", "store", "key", "token", "grant",
              "close", "unlink", "revoke"},
         sha: Shas, rec: Sub, ticket: TicketIds \cup {NoSub}, alone: BOOLEAN]

ASSUME RegistryConstants ==
    /\ NoSub \notin Shas \cup TicketIds \cup Sub \cup Work
    /\ TornFile \notin Sub /\ NoSub # TornFile

VARIABLES
    subs,      \* registry/pending/<sha>.json
    tokens,    \* approval-tokens/<sha>.mrn-token: "none", "ours", "imported", "torn",
               \* or "left": one that a revocation failed to remove
    signing,   \* approval_signing.key: "none", "whole", "torn"
    tickets,   \* ticket -> sha, of the tickets that are open
    issued,    \* tickets ever opened
    work,      \* what each request is doing
    told,      \* the last change of each sha that was answered with 200
    doubt,     \* shas whose requests overlapped or were interrupted, until one
               \* that nothing disturbed has set them right
    astray     \* shas that may have lost track of a ticket

regvars == << subs, tokens, signing, tickets, issued, work, told, doubt, astray >>

RegistryTypeOK ==
    /\ subs \in [Shas -> Sub \cup {NoSub, TornFile}]
    /\ tokens \in [Shas -> {"none", "ours", "imported", "torn", "left"}]
    /\ signing \in {"none", "whole", "torn"}
    /\ issued \subseteq TicketIds /\ tickets \in [TicketIds -> Shas \cup {NoSub}]
    /\ \A t \in TicketIds : tickets[t] # NoSub => t \in issued
    /\ work \in [Handlers -> Work \cup {NoSub}]
    /\ told \in [Shas -> {"nothing", "submitted", "approved", "revoked", "imported"}]
    /\ doubt \subseteq Shas /\ astray \subseteq Shas

RegistryInit ==
    /\ subs = [s \in Shas |-> NoSub] /\ tokens = [s \in Shas |-> "none"]
    /\ signing = "none" /\ issued = {}
    /\ tickets = [t \in TicketIds |-> NoSub]
    /\ work = [h \in Handlers |-> NoSub] /\ told = [s \in Shas |-> "nothing"]
    /\ doubt = {} /\ astray = {}

\* load_submission succeeds
Loaded(s) == subs[s] \in Sub

At(h, at) == work[h] # NoSub /\ work[h].at = at
Busy(s)   == {h \in Handlers : work[h] # NoSub /\ work[h].sha = s}

\* A request on s begins at step at, with the record it has loaded. It is alone
\* as long as no other request works on s.
Takes(h, at, s, rec) ==
    /\ work[h] = NoSub
    /\ work' = [x \in Handlers |->
                 IF x = h THEN [at |-> at, sha |-> s, rec |-> rec, ticket |-> NoSub,
                                alone |-> Busy(s) = {}]
                 ELSE IF x \in Busy(s) THEN [work[x] EXCEPT !.alone = FALSE] ELSE work[x]]
    /\ IF Busy(s) = {} THEN UNCHANGED << doubt, astray >>
       ELSE doubt' = doubt \cup {s} /\ astray' = astray \cup {s}

Moves(h, at) == work' = [work EXCEPT ![h].at = at]
Ends(h)      == work' = [work EXCEPT ![h] = NoSub]

\* save_submission
save_submission(s, r) == subs' = [subs EXCEPT ![s] = r]

\* The answer of h: what was changed.
Says(h, what) ==
    /\ told' = [told EXCEPT ![work[h].sha] = what]
    /\ doubt' = IF work[h].alone THEN doubt \ {work[h].sha} ELSE doubt

(***************************************************************************)
(* submit, and its task                                                    *)
(***************************************************************************)

submit(h, s) ==
    /\ Takes(h, "submit", s, [status |-> "pending", ticket |-> NoSub])
    /\ UNCHANGED << subs, tokens, signing, tickets, issued, told >>

\* The new record takes the place of whatever was there. When change management
\* is configured a task goes on after the answer.
SubmitSave(h) ==
    /\ At(h, "submit")
    /\ LET s == work[h].sha
       IN /\ save_submission(s, work[h].rec) /\ Says(h, "submitted")
          /\ astray' = IF Loaded(s) /\ subs[s].ticket # NoSub THEN astray \cup {s} ELSE astray
    /\ Moves(h, "open") \/ Ends(h)
    /\ UNCHANGED << tokens, signing, tickets, issued >>

\* Without a ticket number from ServiceNow the task asks Jira, if there is one.
AsksOn(h) == Ends(h) \/ (At(h, "open") /\ Moves(h, "jira"))

\* open_ticket, one system at a time: the number of a new ticket comes back, the
\* ticket is made and its answer lost or not understood, or none is made.
open_ticket(h) ==
    /\ At(h, "open") \/ At(h, "jira")
    /\ \/ \E t \in TicketIds \ issued :
             /\ issued' = issued \cup {t}
             /\ tickets' = [tickets EXCEPT ![t] = work[h].sha]
             /\ \/ /\ work' = [work EXCEPT ![h].at = "reload", ![h].ticket = t]
                   /\ UNCHANGED astray
                \/ AsksOn(h) /\ astray' = astray \cup {work[h].sha}
       \/ AsksOn(h) /\ UNCHANGED << issued, tickets, astray >>
    /\ UNCHANGED << subs, tokens, signing, told, doubt >>

\* The task reads the record again; when that fails the ticket is forgotten.
TicketReload(h) ==
    /\ At(h, "reload")
    /\ IF Loaded(work[h].sha)
       THEN work' = [work EXCEPT ![h].at = "store",
                       ![h].rec = [subs[work[h].sha] EXCEPT !.ticket = work[h].ticket]]
       ELSE Ends(h)
    /\ UNCHANGED << subs, tokens, signing, tickets, issued, told, doubt, astray >>

TicketStore(h) ==
    /\ At(h, "store") /\ save_submission(work[h].sha, work[h].rec) /\ Ends(h)
    /\ UNCHANGED << tokens, signing, tickets, issued, told, doubt, astray >>

(***************************************************************************)
(* approve                                                                 *)
(***************************************************************************)

\* 404 without a record, 400 for one that is revoked.
approve(h, s) ==
    /\ Loaded(s) /\ subs[s].status # "revoked"
    /\ Takes(h, "key", s, subs[s])
    /\ UNCHANGED << subs, tokens, signing, tickets, issued, told >>

\* A key of the wrong length fails every approval.
load_or_create_signing_key(h) ==
    /\ At(h, "key")
    /\ IF signing = "torn" THEN Ends(h) /\ UNCHANGED signing
       ELSE Moves(h, "token") /\ signing' = "whole"
    /\ UNCHANGED << subs, tokens, tickets, issued, told, doubt, astray >>

\* sign, and save the token before the record
ApproveToken(h) ==
    /\ At(h, "token") /\ tokens' = [tokens EXCEPT ![work[h].sha] = "ours"]
    /\ Moves(h, "grant")
    /\ UNCHANGED << subs, signing, tickets, issued, told, doubt, astray >>

\* The record loaded at the start is saved as approved; the ticket it names is
\* closed by a task of its own.
ApproveSave(h) ==
    /\ At(h, "grant")
    /\ save_submission(work[h].sha, [work[h].rec EXCEPT !.status = "approved"])
    /\ Says(h, "approved")
    /\ IF work[h].rec.ticket = NoSub THEN Ends(h) ELSE Moves(h, "close")
    /\ UNCHANGED << tokens, signing, tickets, issued, astray >>

\* close_ticket: sent once, an error is logged.
close_ticket(h) ==
    /\ At(h, "close") /\ Ends(h)
    /\ \/ tickets' = [tickets EXCEPT ![work[h].rec.ticket] = NoSub] /\ UNCHANGED astray
       \/ astray' = astray \cup {work[h].sha} /\ UNCHANGED tickets
    /\ UNCHANGED << subs, tokens, signing, issued, told, doubt >>

(***************************************************************************)
(* revoke                                                                  *)
(***************************************************************************)

revoke(h, s) ==
    /\ Loaded(s) /\ Takes(h, "unlink", s, subs[s])
    /\ UNCHANGED << subs, tokens, signing, tickets, issued, told >>

\* Mutant of RevokeUnlink: only a token that still parses is removed.
RevokeUnlinkParsed(h) ==
    /\ At(h, "unlink") /\ Moves(h, "revoke")
    /\ tokens' = [tokens EXCEPT ![work[h].sha] = IF @ = "torn" THEN @ ELSE "none"]
    /\ UNCHANGED << subs, signing, tickets, issued, told, doubt, astray >>

\* A remove_file that fails is ignored, and the token stays.
RevokeUnlink(h) ==
    /\ At(h, "unlink") /\ Moves(h, "revoke")
    /\ \E left \in IF tokens[work[h].sha] = "none" THEN {"none"} ELSE {"none", "left"} :
          tokens' = [tokens EXCEPT ![work[h].sha] = left]
    /\ UNCHANGED << subs, signing, tickets, issued, told, doubt, astray >>

RevokeSave(h) ==
    /\ At(h, "revoke") /\ Says(h, "revoked") /\ Ends(h)
    /\ save_submission(work[h].sha, [work[h].rec EXCEPT !.status = "revoked"])
    /\ UNCHANGED << tokens, signing, tickets, issued, astray >>

-----------------------------------------------------------------------------
\* `maranode registry import-token` verifies the token with the key inside it
\* and writes it, whatever the registry says of the model.
ImportToken(s) ==
    /\ tokens' = [tokens EXCEPT ![s] = "imported"]
    /\ told' = [told EXCEPT ![s] = "imported"]
    /\ work' = [h \in Handlers |-> IF h \in Busy(s) THEN [work[h] EXCEPT !.alone = FALSE]
                                   ELSE work[h]]
    /\ doubt' = IF Busy(s) = {} THEN doubt ELSE doubt \cup {s}
    /\ UNCHANGED << subs, signing, tickets, issued, astray >>

\* The file that h is writing is cut short.
Cut(h) ==
    \/ /\ \E at \in {"submit", "store", "grant", "revoke"} : At(h, at)
       /\ save_submission(work[h].sha, TornFile) /\ UNCHANGED << tokens, signing >>
    \/ /\ At(h, "token") /\ tokens' = [tokens EXCEPT ![work[h].sha] = "torn"]
       /\ UNCHANGED << subs, signing >>
    \/ /\ At(h, "key") /\ signing = "none" /\ signing' = "torn"
       /\ UNCHANGED << subs, tokens >>

\* A write fails, before or after it has emptied the file: a request answers 500,
\* a ticket task ends without a word.
WriteFails(h) ==
    /\ \E at \in {"submit", "store", "key", "token", "grant", "revoke"} : At(h, at)
    /\ Cut(h) \/ UNCHANGED << subs, tokens, signing >>
    /\ Ends(h)
    /\ doubt' = doubt \cup {work[h].sha} /\ astray' = astray \cup {work[h].sha}
    /\ UNCHANGED << tickets, issued, told >>

\* The process dies; the file a request is writing may be cut short.
RegistryCrash ==
    /\ work' = [h \in Handlers |-> NoSub]
    /\ doubt' = doubt \cup {s \in Shas : Busy(s) # {}}
    /\ astray' = astray \cup {s \in Shas : Busy(s) # {}}
    /\ (\E h \in Handlers : Cut(h)) \/ UNCHANGED << subs, tokens, signing >>
    /\ UNCHANGED << tickets, issued, told >>

RegistryRequest ==
    \/ \E h \in Handlers, s \in Shas : submit(h, s) \/ approve(h, s) \/ revoke(h, s)
    \/ \E s \in Shas : ImportToken(s)

RegistryStep ==
    \E h \in Handlers :
        \/ SubmitSave(h) \/ open_ticket(h) \/ TicketReload(h) \/ TicketStore(h)
        \/ load_or_create_signing_key(h) \/ ApproveToken(h) \/ ApproveSave(h)
        \/ close_ticket(h) \/ RevokeUnlink(h) \/ RevokeSave(h) \/ WriteFails(h)
-----------------------------------------------------------------------------
\* What the last answer said of a model holds: after a revocation the record
\* says so and there is no token but one whose removal failed (revoke answers ok
\* all the same), after an approval there are both. Requests on one digest that
\* overlap, the ticket task of a submission included, and a crash or failed write
\* inside a request void it, until a request that nothing disturbs has set the
\* digest right.
AnswersStand ==
    \A s \in Shas \ doubt : Busy(s) = {} =>
        /\ told[s] = "revoked" =>
             Loaded(s) /\ subs[s].status = "revoked" /\ tokens[s] \in {"none", "left"}
        /\ told[s] = "approved" => Loaded(s) /\ subs[s].status = "approved" /\ tokens[s] = "ours"

\* No ticket is forgotten: an open ticket is one a request still works on, or
\* the one that the record of its model names, and then the model is not
\* approved. Overlapping requests, a failed close, a lost answer of the ticket
\* system, a failed write or crash, and a submission that replaces a record which
\* names a ticket, lose tickets.
TicketsTracked ==
    \A t \in TicketIds :
        LET s == tickets[t]
        IN s # NoSub /\ s \notin astray /\ Busy(s) = {} =>
              Loaded(s) /\ subs[s].ticket = t /\ subs[s].status # "approved"

\* Record, token and ticket of a model agree with what requests were answered.
RegistrySound == RegistryTypeOK /\ AnswersStand /\ TicketsTracked
=============================================================================
