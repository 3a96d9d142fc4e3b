------------------------------ MODULE Tenancy ------------------------------
(***************************************************************************)
(* Workspaces and their network namespaces.  A row of workspaces.db says   *)
(* whether its workspace has a namespace; the kernel keeps the namespace.  *)
(* The handlers hold the database's lock for one statement at a time (an   *)
(* update for its reading and its writing), run `ip netns` outside of it,  *)
(* and are dropped at an await when their client goes away.                *)
(***************************************************************************)
EXTENDS FiniteSets

CONSTANTS
    Slugs, DefaultSlug,
    ApiKeys,     \* hashes of workspace keys
    NoKey,       \* an open workspace
    Admins,      \* requests that manage workspaces
    NoRow, NoTask

VARIABLES
    workspaces,  \* workspaces.db
    netns,       \* slugs that have a namespace in the kernel
    tasks,       \* what each request is doing
    tangled      \* history: slugs whose handlers met, failed or were cut short

tenvars == << workspaces, netns, tasks, tangled >>

Workspace == [key : ApiKeys \cup {NoKey}, net_namespace : BOOLEAN]

Task == [op : {"create"}, slug : Slugs, row : Workspace, at : {"insert"}]
          \cup [op : {"delete"}, slug : Slugs, row : Workspace, at : {"netns", "row"}]

ASSUME TenancyConstants ==
    /\ DefaultSlug \in Slugs /\ NoKey \notin ApiKeys
    /\ NoRow \notin Workspace /\ NoTask \notin Task

TenancyTypeOK ==
    /\ workspaces \in [Slugs -> Workspace \cup {NoRow}]
    /\ workspaces[DefaultSlug] # NoRow
    /\ netns \subseteq Slugs /\ tangled \subseteq Slugs
    /\ tasks \in [Admins -> Task \cup {NoTask}]

\* The migration makes the default workspace.
TenancyInit ==
    /\ workspaces = [s \in Slugs |->
                       IF s = DefaultSlug THEN [key |-> NoKey, net_namespace |-> FALSE]
                       ELSE NoRow]
    /\ netns = {} /\ tangled = {}
    /\ tasks = [a \in Admins |-> NoTask]

\* The requests that create, or delete, workspace s.
Handlings(op, s) == {a \in Admins : tasks[a] # NoTask /\ tasks[a].op = op /\ tasks[a].slug = s}

Starts(a, task) == tasks[a] = NoTask /\ tasks' = [tasks EXCEPT ![a] = task]
TaskEnds(a)     == tasks' = [tasks EXCEPT ![a] = NoTask]
TaskAt(a, at)   == tasks[a] # NoTask /\ tasks[a].at = at

\* History: creations and deletions of s overlap.
Meets(op, s) == tangled' = tangled \cup (IF Handlings(op, s) # {} THEN {s} ELSE {})

----------------------------------------------------------------------------
(* The database and the kernel. *)

get_by_slug(s) == workspaces[s]

UpdateRow(s, row) == workspaces' = [workspaces EXCEPT ![s] = row]

\* `ip netns add` refuses a name that is taken.
NetnsAdd(s) == s \notin netns /\ netns' = netns \cup {s}

\* `ip netns del`
NetnsDel(s) ==
    \/ netns' = netns \ {s} /\ UNCHANGED tangled
    \/ tangled' = tangled \cup {s} /\ UNCHANGED netns

----------------------------------------------------------------------------
\* The namespace comes first.
create_workspace(a, s, row) ==
    /\ IF row.net_namespace THEN NetnsAdd(s) ELSE UNCHANGED netns
    /\ Starts(a, [op |-> "create", slug |-> s, row |-> row, at |-> "insert"])
    /\ Meets("delete", s)
    /\ UNCHANGED workspaces

\* A slug that is taken leaves the new namespace behind.
CreateInsert(a) ==
    /\ TaskAt(a, "insert")
    /\ LET s == tasks[a].slug
           taken == get_by_slug(s) # NoRow
       IN /\ workspaces' = IF taken THEN workspaces
                           ELSE [workspaces EXCEPT ![s] = tasks[a].row]
          /\ tangled' = IF taken /\ tasks[a].row.net_namespace
                          THEN tangled \cup {s} ELSE tangled
    /\ TaskEnds(a)
    /\ UNCHANGED netns

\* Mutant: a patch may ask for a namespace.
UpdateNamespace(s, key) ==
    /\ get_by_slug(s) # NoRow
    /\ UpdateRow(s, [key |-> key, net_namespace |-> TRUE])
    /\ UNCHANGED << netns, tasks, tangled >>

\* One step under the lock; the namespace is written back as it was read.
update_workspace(s, key) ==
    /\ get_by_slug(s) # NoRow
    /\ UpdateRow(s, [get_by_slug(s) EXCEPT !.key = key])
    /\ UNCHANGED << netns, tasks, tangled >>

del_workspace(a, s) ==
    /\ get_by_slug(s) # NoRow
    /\ Starts(a, [op |-> "delete", slug |-> s, row |-> get_by_slug(s), at |-> "netns"])
    /\ Meets("create", s)
    /\ UNCHANGED << workspaces, netns >>

\* A failure is only logged.
DeleteNetns(a) ==
    /\ TaskAt(a, "netns")
    /\ tasks' = [tasks EXCEPT ![a].at = "row"]
    /\ LET s == tasks[a].slug
       IN IF tasks[a].row.net_namespace /\ s \in netns
          THEN NetnsDel(s)
          ELSE UNCHANGED << netns, tangled >>
    /\ UNCHANGED workspaces

\* Whichever row the slug has by now; the default workspace is refused.
DeleteRow(a) ==
    /\ TaskAt(a, "row")
    /\ workspaces' = IF tasks[a].slug = DefaultSlug THEN workspaces
                     ELSE [workspaces EXCEPT ![tasks[a].slug] = NoRow]
    /\ TaskEnds(a)
    /\ UNCHANGED << netns, tangled >>

\* The client goes away while its handler waits for the database.
DropTask(a) ==
    /\ TaskAt(a, "insert") \/ TaskAt(a, "row")
    /\ TaskEnds(a) /\ tangled' = tangled \cup {tasks[a].slug}
    /\ UNCHANGED << workspaces, netns >>

----------------------------------------------------------------------------
TenancyRequest ==
    \/ \E a \in Admins, s \in Slugs :
         del_workspace(a, s) \/ \E row \in Workspace : create_workspace(a, s, row)
    \/ \E s \in Slugs, key \in ApiKeys \cup {NoKey} : update_workspace(s, key)

TenancyStep ==
    \E a \in Admins : CreateInsert(a) \/ DeleteNetns(a) \/ DeleteRow(a) \/ DropTask(a)

\* The daemon dies; the kernel and the database keep what they have.
TenancyCrash ==
    /\ tangled' = tangled \cup {s \in Slugs : Handlings("create", s) \cup Handlings("delete", s) # {}}
    /\ tasks' = [a \in Admins |-> NoTask]
    /\ UNCHANGED << workspaces, netns >>

----------------------------------------------------------------------------
\* Rows and namespaces agree although they are changed one after the other: a
\* workspace that asks for a namespace has it, and a namespace belongs to such a
\* workspace, unless a handler is at work on the slug, was cut short, was refused
\* or met the opposite one.
NamespacesMatchRows ==
    \A s \in Slugs \ tangled :
      LET wanted == workspaces[s] # NoRow /\ workspaces[s].net_namespace
      IN /\ wanted => s \in netns \/ Handlings("delete", s) # {}
         /\ s \in netns => wanted \/ Handlings("create", s) # {}

\* Rows and namespaces are well-formed and agree.
TenancySound == TenancyTypeOK /\ NamespacesMatchRows
=============================================================================
