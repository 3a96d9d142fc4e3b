---------------------------- MODULE QuotaLedger -----------------------------
(***************************************************************************)
(* What a workspace's quota promises: a request that asks for a share gets *)
(* it exactly when the shares of its workspace, this one included, keep to *)
(* the three limits.  How shares are counted, and how a share comes back   *)
(* after an answer, an error or a disconnect, is not seen.                 *)
(***************************************************************************)
EXTENDS Naturals, FiniteSets

CONSTANTS Requests, Workspaces, Models, Size, Quota

VARIABLES place,     \* request -> has it a share, or asked for one
          ws, model  \* what each request is for

Init ==
    /\ place = [r \in Requests |-> "out"]
    /\ ws \in [Requests -> Workspaces] /\ model \in [Requests -> Models]

Shares(w) == { r \in Requests : place[r] = "holding" /\ ws[r] = w }

\* The bytes of the models S together.
Memory(S) == Cardinality(UNION { {m} \X (1 .. Size[m]) : m \in S })

\* With a share for model m more, w is still within its limits.
Room(w, m) ==
    LET ms == { model[r] : r \in Shares(w) } \cup {m}
    IN /\ Cardinality(Shares(w)) + 1 <= Quota[w].concurrent
       /\ Cardinality(ms) <= Quota[w].models
       /\ Memory(ms) <= Quota[w].memory

Ask(r, w, m) ==
    /\ place[r] \in {"out", "refused"}
    /\ place' = [place EXCEPT ![r] = "asking"]
    /\ ws' = [ws EXCEPT ![r] = w] /\ model' = [model EXCEPT ![r] = m]

Grant(r) ==
    /\ place[r] = "asking" /\ Room(ws[r], model[r])
    /\ place' = [place EXCEPT ![r] = "holding"]
    /\ UNCHANGED << ws, model >>

Refuse(r) ==
    /\ place[r] = "asking" /\ ~Room(ws[r], model[r])
    /\ place' = [place EXCEPT ![r] = "refused"]
    /\ UNCHANGED << ws, model >>

\* The client goes before it has an answer.
GiveUp(r) ==
    /\ place[r] = "asking"
    /\ place' = [place EXCEPT ![r] = "out"]
    /\ UNCHANGED << ws, model >>

\* A share is given back, whatever became of the request.
GiveBack(r) ==
    /\ place[r] = "holding"
    /\ \E p \in {"out", "refused"} : place' = [place EXCEPT ![r] = p]
    /\ UNCHANGED << ws, model >>

\* A request that was turned away is forgotten.
Forget(r) ==
    /\ place[r] = "refused"
    /\ place' = [place EXCEPT ![r] = "out"]
    /\ UNCHANGED << ws, model >>

Next ==
    \E r \in Requests :
        \/ \E w \in Workspaces, m \in Models : Ask(r, w, m)
        \/ Grant(r) \/ Refuse(r) \/ GiveUp(r) \/ GiveBack(r) \/ Forget(r)

Spec == Init /\ [][Next]_<< place, ws, model >>
=============================================================================
