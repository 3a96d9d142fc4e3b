--------------------------- MODULE Classification ---------------------------
(***************************************************************************)
(* The classification policy: labels of collections, clearances of         *)
(* workspaces.  The policy in memory is changed under its write lock and   *)
(* then written over policy.json in place; a start that cannot parse the   *)
(* file goes on with an empty policy.  A collection or workspace without   *)
(* an entry is as good as a public one.  Labels have the order of the      *)
(* code, PUBLIC < RESTRICTED < CONFIDENTIAL < PII < PHI.                   *)
(***************************************************************************)
EXTENDS Integers

CONSTANTS Collections, Workspaces,
          TopLabel,     \* labels are DataLabel::level(), 0 (public) .. TopLabel
          TornPolicy    \* content of a file whose writing was cut

VARIABLES
    policy,       \* ClassificationPolicy in memory
    policyFile,   \* policy.json
    told,         \* history: the policy as its changes were acknowledged
    lapse         \* history: the names whose entry was not saved when it changed
                  \* last, or was lost with the file

classvars == << policy, policyFile, told, lapse >>

Labels == 0 .. TopLabel

CollectionPolicy == [label : Labels, block : BOOLEAN]

ClassificationPolicy == [collections : [Collections -> CollectionPolicy],
                         workspaces  : [Workspaces -> Labels]]

ASSUME ClassificationConstants ==
    /\ TopLabel \in Nat /\ TornPolicy \notin ClassificationPolicy
    /\ Collections \cap Workspaces = {}   \* keys of two maps

\* A collection without an entry; an entry that says PUBLIC has block set here,
\* since nothing looks at the flag of such an entry.
NoEntry == [label |-> 0, block |-> FALSE]

EmptyPolicy == [collections |-> [c \in Collections |-> NoEntry],
                workspaces  |-> [w \in Workspaces |-> 0]]

----------------------------------------------------------------------------
set_collection_label(p, c, l, b) ==
    [p EXCEPT !.collections[c] = [label |-> l, block |-> b \/ l = 0]]

remove_label(p, c) == [p EXCEPT !.collections[c] = NoEntry]

set_clearance(p, w, l) == [p EXCEPT !.workspaces[w] = l]

Exceeds(p, w, c) == p.collections[c].label > p.workspaces[w]

\* The violations that stop a request of workspace w.
check_access(p, w, c) == {v \in {c} : Exceeds(p, w, v) /\ p.collections[v].block}

check_all_collections(p, w) ==
    {v \in Collections : Exceeds(p, w, v) /\ p.collections[v].block}

\* A parse error of policy.json is turned into the default policy.
load_policy(f) == IF f = TornPolicy THEN EmptyPolicy ELSE f

----------------------------------------------------------------------------
ClassificationInit ==
    /\ policy = EmptyPolicy /\ policyFile = EmptyPolicy
    /\ told = EmptyPolicy /\ lapse = {}

\* save, after the entry of n has changed: the whole policy is written, or the file
\* stays or is cut. Memory is changed either way.
save(n, new) ==
    /\ policy' = new
    /\ \/ policyFile' = new /\ lapse' = lapse \ {n}
       \/ policyFile' \in {policyFile, TornPolicy} /\ lapse' = lapse \cup {n}

\* The answer of a handler that passes a failed save on.
Acknowledges(n, new) == told' = IF n \in lapse' THEN told ELSE new

set_collection ==
    \E c \in Collections, l \in Labels, b \in BOOLEAN :
      /\ save(c, set_collection_label(policy, c, l, b))
      /\ Acknowledges(c, set_collection_label(told, c, l, b))

\* Without an entry nothing is saved.
remove_collection ==
    \E c \in Collections :
      /\ policy.collections[c] # NoEntry
      /\ save(c, remove_label(policy, c)) /\ Acknowledges(c, remove_label(told, c))

set_workspace ==
    \E w \in Workspaces, l \in Labels :
      /\ save(w, set_clearance(policy, w, l)) /\ Acknowledges(w, set_clearance(told, w, l))

\* A DLP sync is acknowledged whether or not its labels were saved.
dlp_sync ==
    \E c \in Collections, l \in Labels :
      /\ save(c, set_collection_label(policy, c, l, TRUE))
      /\ told' = set_collection_label(told, c, l, TRUE)

ClassificationRequest ==
    set_collection \/ remove_collection \/ set_workspace \/ dlp_sync

\* A file that does not parse takes every entry with it.
ClassificationStart ==
    /\ policy' = load_policy(policyFile)
    /\ lapse' = IF policyFile = TornPolicy THEN Collections \cup Workspaces ELSE lapse
    /\ UNCHANGED << policyFile, told >>

\* The process dies, perhaps inside a save.
ClassificationCrash ==
    /\ policyFile' \in {policyFile, TornPolicy}
    /\ UNCHANGED << policy, told, lapse >>

ClassificationTypeOK ==
    /\ policy \in ClassificationPolicy /\ told \in ClassificationPolicy
    /\ policyFile \in ClassificationPolicy \cup {TornPolicy}
    /\ lapse \subseteq Collections \cup Workspaces
=============================================================================
