-------------------------- MODULE GovernanceProofs --------------------------
(***************************************************************************)
(* Proofs about Governance, for any workspaces, keys, holds, models,       *)
(* tickets and numbers of requests and crashes.                            *)
(***************************************************************************)
EXTENDS Governance, TLAPS

GovernanceNext == Request \/ Step \/ Crash

-----------------------------------------------------------------------------
(* Workspaces. *)

\* What a step of the daemon is to its workspaces.
TenancyNext == TenancyRequest \/ TenancyStep \/ TenancyCrash

\* A step of the daemon is one of the workspace routes, or leaves them alone.
LEMMA StepOfTenancy == [GovernanceNext]_govvars => [TenancyNext]_tenvars
BY DEF GovernanceNext, govvars, TenancyNext, Request, Step, Crash

Creates(a, s) == tasks[a] # NoTask /\ tasks[a].op = "create" /\ tasks[a].slug = s
Deletes(a, s) == tasks[a] # NoTask /\ tasks[a].op = "delete" /\ tasks[a].slug = s

\* The row of s asks for a namespace; a creation has made one for s.
Wanted(s)  == workspaces[s] # NoRow /\ workspaces[s].net_namespace
Makes(a, s) == Creates(a, s) /\ tasks[a].row.net_namespace

\* Creations and deletions of s exclude each other.
Apart(s) == \A a, b \in Admins : ~(Creates(a, s) /\ Deletes(b, s))

\* A creation that made the namespace is the only one, and no row asks for it.
MakesAlone(s) ==
    \A a \in Admins : Makes(a, s) =>
        /\ s \in netns /\ ~Wanted(s)
        /\ \A b \in Admins : Makes(b, s) => b = a

\* Whoever has a namespace, or asks for one.
Matched(s) ==
    /\ s \in netns => Wanted(s) \/ \E a \in Admins : Makes(a, s)
    /\ Wanted(s) => s \in netns \/ \E a \in Admins : Deletes(a, s)

\* A deletion knows whether its row asks for a namespace, and has removed it
\* before it removes the row.
DeletesInOrder(s) ==
    \A a \in Admins : Deletes(a, s) =>
        /\ workspaces[s] # NoRow => workspaces[s].net_namespace = tasks[a].row.net_namespace
        /\ tasks[a].at = "row" => s \notin netns

SlugInv(s) == Apart(s) /\ MakesAlone(s) /\ Matched(s) /\ DeletesInOrder(s)

TenancyInv ==
    /\ TenancyTypeOK
    /\ ~workspaces[DefaultSlug].net_namespace
    /\ \A s \in Slugs \ tangled : SlugInv(s)

\* What a task's type says of its fields.
LEMMA TaskFields ==
  ASSUME NEW t \in Task
  PROVE  /\ t # NoTask /\ t.slug \in Slugs /\ t.row \in Workspace
         /\ t.op \in {"create", "delete"}
         /\ t.op = "create" <=> t.at = "insert"
         /\ t.at \in {"insert", "netns", "row"}
         /\ t.op = "delete" => [t EXCEPT !.at = "row"] \in Task
BY TenancyConstants DEF Task

\* What a workspace row's type says of its fields, a new key included.
LEMMA RowFields ==
  ASSUME NEW w \in Workspace
  PROVE  /\ w # NoRow /\ w.net_namespace \in BOOLEAN
         /\ \A key \in ApiKeys \cup {NoKey} :
              /\ [w EXCEPT !.key = key] \in Workspace
              /\ [w EXCEPT !.key = key].net_namespace = w.net_namespace
BY TenancyConstants DEF Workspace

\* There is only the default workspace, which asks for no namespace.
LEMMA TenancyStart == TenancyInit => TenancyInv
<1> SUFFICES ASSUME TenancyInit PROVE TenancyInv
  OBVIOUS
<1>1. [key |-> NoKey, net_namespace |-> FALSE] \in Workspace
  BY DEF Workspace
<1>2. TenancyTypeOK
  BY <1>1, TenancyConstants DEF TenancyTypeOK, TenancyInit
<1>3. /\ ~workspaces[DefaultSlug].net_namespace
      /\ \A s \in Slugs : ~Wanted(s)
      /\ \A a \in Admins : tasks[a] = NoTask
      /\ netns = {}
  BY TenancyConstants DEF TenancyInit, Wanted
<1>4. ASSUME NEW s \in Slugs PROVE SlugInv(s)
  BY <1>3 DEF SlugInv, Apart, MakesAlone, Matched, DeletesInOrder, Makes, Creates, Deletes
<1> QED
  BY <1>2, <1>3, <1>4 DEF TenancyInv

\* A step that touches neither s nor a request on s.
LEMMA Elsewhere ==
  ASSUME NEW s \in Slugs, SlugInv(s), workspaces'[s] = workspaces[s],
         s \in netns' <=> s \in netns,
         \A b \in Admins : /\ Creates(b, s)' = Creates(b, s) /\ Deletes(b, s)' = Deletes(b, s)
                           /\ Creates(b, s) \/ Deletes(b, s) => tasks'[b] = tasks[b]
  PROVE  SlugInv(s)'
<1>1. Wanted(s)' = Wanted(s)
  BY DEF Wanted
<1>2. \A b \in Admins : Makes(b, s)' = Makes(b, s)
  BY Zenon DEF Makes
<1>3. Apart(s)' /\ MakesAlone(s)' /\ Matched(s)'
  BY <1>1, <1>2 DEF SlugInv, Apart, MakesAlone, Matched
<1>4. DeletesInOrder(s)'
  BY DEF SlugInv, DeletesInOrder
<1> QED
  BY <1>3, <1>4 DEF SlugInv

\* A step that starts, moves on or ends the request of a, which works on t.
LEMMA OtherSlugs ==
  ASSUME NEW a \in Admins, NEW t \in Slugs, NEW s \in Slugs, s # t,
         TenancyTypeOK, SlugInv(s), workspaces'[s] = workspaces[s],
         s \in netns' <=> s \in netns,
         \A b \in Admins : b # a => tasks'[b] = tasks[b],
         tasks[a] # NoTask => tasks[a].slug = t,
         tasks'[a] # NoTask => tasks'[a].slug = t
  PROVE  SlugInv(s)'
<1>1. ASSUME NEW b \in Admins
      PROVE  /\ Creates(b, s)' = Creates(b, s) /\ Deletes(b, s)' = Deletes(b, s)
             /\ Creates(b, s) \/ Deletes(b, s) => tasks'[b] = tasks[b]
  <2>1. CASE b = a
    <3>1. ~Creates(b, s) /\ ~Deletes(b, s) /\ ~Creates(b, s)' /\ ~Deletes(b, s)'
      BY <2>1 DEF Creates, Deletes
    <3> QED
      BY <3>1 DEF Creates, Deletes
  <2>2. CASE b # a
    BY <2>2 DEF Creates, Deletes
  <2> QED
    BY <2>1, <2>2
<1> QED
  BY <1>1, Elsewhere

\* The routes keep the types of rows, namespaces and tasks.
LEMMA TenancyTyped == TenancyInv /\ [TenancyNext]_tenvars => TenancyTypeOK'
<1> SUFFICES ASSUME TenancyInv, [TenancyNext]_tenvars PROVE TenancyTypeOK'
  OBVIOUS
<1> USE DEF TenancyTypeOK
<1>0. TenancyTypeOK
  BY DEF TenancyInv
<1>1. ASSUME NEW a \in Admins, NEW s \in Slugs, NEW row \in Workspace, create_workspace(a, s, row)
      PROVE  TenancyTypeOK'
  <2>1. [op |-> "create", slug |-> s, row |-> row, at |-> "insert"] \in Task
    BY DEF Task
  <2> QED
    BY <1>0, <1>1, <2>1 DEF create_workspace, Starts, NetnsAdd, Meets
<1>2. ASSUME NEW a \in Admins, NEW s \in Slugs, del_workspace(a, s)
      PROVE  TenancyTypeOK'
  <2>1. [op |-> "delete", slug |-> s, row |-> get_by_slug(s), at |-> "netns"] \in Task
    BY <1>0, <1>2 DEF Task, del_workspace, get_by_slug
  <2> QED
    BY <1>0, <1>2, <2>1 DEF del_workspace, Starts, Meets
<1>3. ASSUME NEW s \in Slugs, NEW key \in ApiKeys \cup {NoKey}, update_workspace(s, key)
      PROVE  TenancyTypeOK'
  <2>1. [workspaces[s] EXCEPT !.key = key] \in Workspace
    BY <1>0, <1>3, RowFields DEF update_workspace, get_by_slug
  <2> QED
    BY <1>0, <1>3, <2>1, RowFields DEF update_workspace, UpdateRow, get_by_slug
<1>4. ASSUME NEW a \in Admins, CreateInsert(a)
      PROVE  TenancyTypeOK'
  <2>1. tasks[a] \in Task
    BY <1>0, <1>4 DEF CreateInsert, TaskAt
  <2>2. tasks[a].slug \in Slugs /\ tasks[a].row \in Workspace /\ tasks[a].row # NoRow
    BY <2>1, TaskFields, RowFields
  <2> QED
    BY <1>0, <1>4, <2>2 DEF CreateInsert, TaskEnds, get_by_slug
<1>5. ASSUME NEW a \in Admins, DeleteNetns(a)
      PROVE  TenancyTypeOK'
  <2>1. tasks[a] \in Task /\ tasks[a].at = "netns"
    BY <1>0, <1>5 DEF DeleteNetns, TaskAt
  <2>2. tasks[a].slug \in Slugs /\ [tasks[a] EXCEPT !.at = "row"] \in Task
    BY <2>1, TaskFields
  <2> QED
    BY <1>0, <1>5, <2>2 DEF DeleteNetns, NetnsDel
<1>6. ASSUME NEW a \in Admins, DeleteRow(a) \/ DropTask(a)
      PROVE  TenancyTypeOK'
  <2>1. tasks[a] \in Task
    BY <1>0, <1>6 DEF DeleteRow, DropTask, TaskAt
  <2>2. tasks[a].slug \in Slugs
    BY <2>1, TaskFields
  <2>3. CASE DeleteRow(a)
    <3>1. tasks' = [tasks EXCEPT ![a] = NoTask] /\ netns' = netns /\ tangled' = tangled
      BY <2>3 DEF DeleteRow, TaskEnds
    <3>2. /\ workspaces' \in [Slugs -> Workspace \cup {NoRow}]
          /\ workspaces'[DefaultSlug] # NoRow
      BY <1>0, <2>2, <2>3, TenancyConstants DEF DeleteRow
    <3> QED
      BY <1>0, <3>1, <3>2
  <2>4. CASE DropTask(a)
    BY <1>0, <2>2, <2>4 DEF DropTask, TaskEnds
  <2> QED
    BY <1>6, <2>3, <2>4
<1>7. CASE TenancyCrash
  BY <1>0, <1>7 DEF TenancyCrash
<1>8. CASE UNCHANGED tenvars
  BY <1>0, <1>8 DEF tenvars
<1> QED
  BY <1>1, <1>2, <1>3, <1>4, <1>5, <1>6, <1>7, <1>8 DEF TenancyNext, TenancyRequest, TenancyStep

\* The default workspace has no namespace: its row is never replaced.
LEMMA DefaultKept ==
  TenancyInv /\ [TenancyNext]_tenvars => ~workspaces'[DefaultSlug].net_namespace
<1> SUFFICES ASSUME TenancyInv, [TenancyNext]_tenvars
             PROVE  ~workspaces'[DefaultSlug].net_namespace
  OBVIOUS
<1>0. /\ DefaultSlug \in Slugs /\ workspaces \in [Slugs -> Workspace \cup {NoRow}]
      /\ workspaces[DefaultSlug] # NoRow /\ ~workspaces[DefaultSlug].net_namespace
  BY TenancyConstants DEF TenancyInv, TenancyTypeOK
<1>1. ASSUME NEW s \in Slugs, NEW key \in ApiKeys \cup {NoKey}, update_workspace(s, key)
      PROVE  ~workspaces'[DefaultSlug].net_namespace
  BY <1>0, <1>1, RowFields DEF update_workspace, UpdateRow, get_by_slug
<1>2. ASSUME NEW a \in Admins, CreateInsert(a)
      PROVE  ~workspaces'[DefaultSlug].net_namespace
  BY <1>0, <1>2 DEF CreateInsert, get_by_slug
<1>3. ASSUME NEW a \in Admins, DeleteRow(a)
      PROVE  ~workspaces'[DefaultSlug].net_namespace
  BY <1>0, <1>3 DEF DeleteRow
<1>4. ASSUME UNCHANGED workspaces
      PROVE  ~workspaces'[DefaultSlug].net_namespace
  BY <1>0, <1>4
<1> QED
  BY <1>1, <1>2, <1>3, <1>4 DEF TenancyNext, TenancyRequest, TenancyStep, TenancyCrash, tenvars,
     create_workspace, del_workspace, DeleteNetns, DropTask

\* A creation makes a namespace where there is none; beside a deletion it tangles the slug.
LEMMA CreateKeeps ==
  ASSUME TenancyInv, NEW a \in Admins, NEW s \in Slugs, NEW row \in Workspace,
         create_workspace(a, s, row), NEW t \in Slugs \ tangled'
  PROVE  SlugInv(t)'
<1> DEFINE task == [op |-> "create", slug |-> s, row |-> row, at |-> "insert"]
<1>1. /\ tasks \in [Admins -> Task \cup {NoTask}] /\ tasks[a] = NoTask
      /\ tasks' = [tasks EXCEPT ![a] = task]
      /\ workspaces' = workspaces /\ tangled \subseteq tangled'
      /\ IF row.net_namespace THEN s \notin netns /\ netns' = netns \cup {s} ELSE netns' = netns
  BY DEF create_workspace, Starts, NetnsAdd, Meets, TenancyInv, TenancyTypeOK
<1>2. SlugInv(t)
  BY <1>1 DEF TenancyInv
<1>3. /\ tasks'[a] = task /\ task.op = "create" /\ task.slug = s /\ task.row = row
      /\ \A b \in Admins : b # a => tasks'[b] = tasks[b]
  BY <1>1
<1>4. task # NoTask
  <2>1. task \in Task
    BY DEF Task
  <2> QED
    BY <2>1, TaskFields
<1> HIDE DEF task
<1>5. CASE t # s
  <2>1. t \in netns' <=> t \in netns
    BY <1>1, <1>5
  <2> QED
    BY <1>1, <1>2, <1>3, <1>5, <2>1, OtherSlugs DEF TenancyInv
<1>6. CASE t = s
  <2>1. \A b \in Admins : ~Deletes(b, s)
    BY <1>6 DEF create_workspace, Meets, Handlings, Deletes
  <2>2. \A b \in Admins : b # a => /\ Creates(b, s)' = Creates(b, s) /\ Makes(b, s)' = Makes(b, s)
                                   /\ ~Deletes(b, s)'
    BY <1>3, <2>1 DEF Creates, Deletes, Makes
  <2>3. Creates(a, s)' /\ ~Deletes(a, s)' /\ ~Creates(a, s) /\ ~Makes(a, s)
    BY <1>1, <1>3, <1>4 DEF Creates, Deletes, Makes
  <2>4. Makes(a, s)' = row.net_namespace
    BY <1>3, <2>3, RowFields DEF Makes
  <2>5. Wanted(s)' = Wanted(s)
    BY <1>1 DEF Wanted
  <2>6. /\ MakesAlone(s) /\ Matched(s)
    BY <1>2, <1>6 DEF SlugInv
  <2>7. Apart(s)' /\ DeletesInOrder(s)'
    BY <2>2, <2>3 DEF Apart, DeletesInOrder
  <2>8. MakesAlone(s)' /\ Matched(s)'
    <3>1. CASE row.net_namespace
      <4>1. s \notin netns /\ s \in netns'
        BY <1>1, <3>1
      <4>2. ~Wanted(s) /\ \A b \in Admins : ~Makes(b, s)
        BY <2>1, <2>6, <4>1 DEF MakesAlone, Matched
      <4> QED
        BY <2>2, <2>4, <2>5, <3>1, <4>1, <4>2 DEF MakesAlone, Matched
    <3>2. CASE ~row.net_namespace
      <4>1. \A b \in Admins : Makes(b, s)' = Makes(b, s)
        BY <2>2, <2>3, <2>4, <3>2 DEF Makes
      <4>2. netns' = netns
        BY <1>1, <3>2
      <4> QED
        BY <2>1, <2>2, <2>5, <2>6, <4>1, <4>2 DEF MakesAlone, Matched
    <3> QED
      BY <3>1, <3>2
  <2> QED
    BY <1>6, <2>7, <2>8 DEF SlugInv
<1> QED
  BY <1>5, <1>6

\* A row is inserted with the namespace made for it; a refused one that made it tangles.
LEMMA InsertKeeps ==
  ASSUME TenancyInv, NEW a \in Admins, CreateInsert(a), NEW t \in Slugs \ tangled'
  PROVE  SlugInv(t)'
<1>1. PICK s \in Slugs : s = tasks[a].slug
  BY TaskFields DEF TenancyInv, TenancyTypeOK, CreateInsert, TaskAt
<1>2. PICK row \in Workspace : row = tasks[a].row
  BY TaskFields DEF TenancyInv, TenancyTypeOK, CreateInsert, TaskAt
<1>3. /\ tasks \in [Admins -> Task \cup {NoTask}] /\ tasks[a] # NoTask
      /\ tasks[a].op = "create" /\ tasks[a].slug = s /\ tasks[a].row = row
  BY <1>1, <1>2, TaskFields DEF TenancyInv, TenancyTypeOK, CreateInsert, TaskAt
<1>4. /\ tasks'[a] = NoTask /\ netns' = netns /\ tangled \subseteq tangled'
      /\ \A b \in Admins : b # a => tasks'[b] = tasks[b]
      /\ workspaces \in [Slugs -> Workspace \cup {NoRow}]
      /\ workspaces' = IF workspaces[s] # NoRow THEN workspaces
                       ELSE [workspaces EXCEPT ![s] = row]
      /\ workspaces[s] # NoRow /\ row.net_namespace => s \in tangled'
  BY <1>1, <1>2, <1>3 DEF CreateInsert, TaskEnds, get_by_slug, TenancyInv, TenancyTypeOK
<1>5. SlugInv(t)
  BY <1>4 DEF TenancyInv
<1>6. CASE t # s
  <2>1. workspaces'[t] = workspaces[t]
    BY <1>4, <1>6
  <2> QED
    BY <1>3, <1>4, <1>5, <1>6, <2>1, OtherSlugs DEF TenancyInv
<1>7. CASE t = s
  <2>1. Creates(a, s) /\ Makes(a, s) = row.net_namespace /\ ~Creates(a, s)' /\ ~Deletes(a, s)'
        /\ ~Makes(a, s)'
    BY <1>3, <1>4, RowFields DEF Creates, Deletes, Makes
  <2>2. \A b \in Admins : ~Deletes(b, s)
    BY <1>5, <1>7, <2>1 DEF SlugInv, Apart
  <2>3. \A b \in Admins : b # a => /\ Creates(b, s)' = Creates(b, s) /\ Makes(b, s)' = Makes(b, s)
                                   /\ ~Deletes(b, s)'
    BY <1>4, <2>2 DEF Creates, Deletes, Makes
  <2>4. MakesAlone(s) /\ Matched(s)
    BY <1>5, <1>7 DEF SlugInv
  <2>5. Apart(s)' /\ DeletesInOrder(s)'
    BY <2>1, <2>3 DEF Apart, DeletesInOrder
  <2>6. MakesAlone(s)' /\ Matched(s)'
    <3>1. CASE workspaces[s] # NoRow
      <4>1. ~row.net_namespace /\ Wanted(s)' = Wanted(s)
        BY <1>4, <1>7, <3>1 DEF Wanted
      <4> QED
        BY <1>4, <2>1, <2>2, <2>3, <2>4, <4>1 DEF MakesAlone, Matched
    <3>2. CASE workspaces[s] = NoRow
      <4>1. workspaces'[s] = row
        BY <1>4, <3>2
      <4>2. ~Wanted(s) /\ Wanted(s)' = row.net_namespace
        BY <3>2, <4>1, RowFields DEF Wanted
      <4> QED
        BY <1>4, <2>1, <2>2, <2>3, <2>4, <4>2 DEF MakesAlone, Matched
    <3> QED
      BY <3>1, <3>2
  <2> QED
    BY <1>7, <2>5, <2>6 DEF SlugInv
<1> QED
  BY <1>6, <1>7

\* An update changes the key of a row and not whether it asks for a namespace.
LEMMA UpdateKeeps ==
  ASSUME TenancyInv, NEW s \in Slugs, NEW key \in ApiKeys \cup {NoKey},
         update_workspace(s, key), NEW t \in Slugs \ tangled'
  PROVE  SlugInv(t)'
<1>1. /\ workspaces \in [Slugs -> Workspace \cup {NoRow}] /\ workspaces[s] # NoRow
      /\ workspaces' = [workspaces EXCEPT ![s] = [workspaces[s] EXCEPT !.key = key]]
      /\ netns' = netns /\ tasks' = tasks /\ tangled' = tangled
  BY DEF update_workspace, UpdateRow, get_by_slug, TenancyInv, TenancyTypeOK
<1>2. /\ workspaces'[t] # NoRow <=> workspaces[t] # NoRow
      /\ workspaces[t] # NoRow => workspaces'[t].net_namespace = workspaces[t].net_namespace
  BY <1>1, RowFields
<1>3. SlugInv(t)
  BY <1>1 DEF TenancyInv
<1>4. Wanted(t)' = Wanted(t)
  BY <1>2 DEF Wanted
<1>5. \A b \in Admins : /\ Creates(b, t)' = Creates(b, t) /\ Deletes(b, t)' = Deletes(b, t)
                        /\ Makes(b, t)' = Makes(b, t)
  BY <1>1, Zenon DEF Creates, Deletes, Makes
<1>6. DeletesInOrder(t)'
  BY <1>1, <1>2, <1>3, <1>5 DEF SlugInv, DeletesInOrder
<1> QED
  BY <1>1, <1>3, <1>4, <1>5, <1>6 DEF SlugInv, Apart, MakesAlone, Matched

\* A deletion that begins beside a creation tangles the slug.
LEMMA DeleteKeeps ==
  ASSUME TenancyInv, NEW a \in Admins, NEW s \in Slugs, del_workspace(a, s),
         NEW t \in Slugs \ tangled'
  PROVE  SlugInv(t)'
<1> DEFINE task == [op |-> "delete", slug |-> s, row |-> workspaces[s], at |-> "netns"]
<1>1. /\ tasks \in [Admins -> Task \cup {NoTask}] /\ tasks[a] = NoTask
      /\ tasks' = [tasks EXCEPT ![a] = task]
      /\ workspaces' = workspaces /\ netns' = netns /\ tangled \subseteq tangled'
  BY DEF del_workspace, Starts, Meets, get_by_slug, TenancyInv, TenancyTypeOK
<1>2. SlugInv(t)
  BY <1>1 DEF TenancyInv
<1>3. /\ tasks'[a] = task /\ task.op = "delete" /\ task.slug = s
      /\ task.row = workspaces[s] /\ task.at = "netns"
      /\ \A b \in Admins : b # a => tasks'[b] = tasks[b]
  BY <1>1
<1>4. task # NoTask
  <2>1. task \in Task
    BY DEF Task, del_workspace, get_by_slug, TenancyInv, TenancyTypeOK
  <2> QED
    BY <2>1, TaskFields
<1> HIDE DEF task
<1>5. CASE t # s
  BY <1>1, <1>2, <1>3, <1>5, OtherSlugs DEF TenancyInv
<1>6. CASE t = s
  <2>1. \A b \in Admins : ~Creates(b, s)
    BY <1>6 DEF del_workspace, Meets, Handlings, Creates
  <2>2. \A b \in Admins : b # a => /\ Deletes(b, s)' = Deletes(b, s) /\ ~Creates(b, s)'
    BY <1>3, <2>1 DEF Creates, Deletes
  <2>3. ~Creates(a, s)' /\ Deletes(a, s)' /\ ~Deletes(a, s)
    BY <1>1, <1>3, <1>4 DEF Creates, Deletes
  <2>4. Apart(s)' /\ MakesAlone(s)'
    BY <2>2, <2>3 DEF Apart, MakesAlone, Makes
  <2>5. Matched(s)'
    BY <1>1, <1>2, <1>6, <2>1, <2>3 DEF SlugInv, Matched, Wanted, Makes
  <2>6. DeletesInOrder(s)'
    BY <1>1, <1>2, <1>3, <1>6, <2>2 DEF SlugInv, DeletesInOrder
  <2> QED
    BY <1>6, <2>4, <2>5, <2>6 DEF SlugInv
<1> QED
  BY <1>5, <1>6

\* The namespace goes while its deletion is still to remove the row.
LEMMA NetnsKeeps ==
  ASSUME TenancyInv, NEW a \in Admins, DeleteNetns(a), NEW t \in Slugs \ tangled'
  PROVE  SlugInv(t)'
<1>1. PICK s \in Slugs : s = tasks[a].slug
  BY TaskFields DEF TenancyInv, TenancyTypeOK, DeleteNetns, TaskAt
<1>2. /\ tasks \in [Admins -> Task \cup {NoTask}] /\ tasks[a] # NoTask /\ tasks[a] \in Task
      /\ tasks[a].op = "delete" /\ tasks[a].slug = s /\ tasks[a].row \in Workspace
  BY <1>1, TaskFields DEF TenancyInv, TenancyTypeOK, DeleteNetns, TaskAt
<1>3. /\ tasks'[a] = [tasks[a] EXCEPT !.at = "row"]
      /\ \A b \in Admins : b # a => tasks'[b] = tasks[b]
      /\ workspaces' = workspaces /\ tangled \subseteq tangled'
  BY <1>2 DEF DeleteNetns, NetnsDel
<1>4. /\ tasks'[a] # NoTask /\ tasks'[a].op = "delete" /\ tasks'[a].slug = s
      /\ tasks'[a].row = tasks[a].row
  <2>1. [tasks[a] EXCEPT !.at = "row"] \in Task
    BY <1>2, TaskFields
  <2>2. tasks'[a] # NoTask
    BY <1>3, <2>1, TaskFields
  <2> QED
    BY <1>2, <1>3, <2>2 DEF Task
<1>5. /\ netns' \in {netns, netns \ {s}}
      /\ s \notin tangled' => IF tasks[a].row.net_namespace THEN s \notin netns' ELSE netns' = netns
  BY <1>1 DEF DeleteNetns, NetnsDel
<1>6. SlugInv(t)
  BY <1>3 DEF TenancyInv
<1>7. CASE t # s
  <2>1. t \in netns' <=> t \in netns
    BY <1>5, <1>7
  <2> QED
    BY <1>2, <1>3, <1>4, <1>6, <1>7, <2>1, OtherSlugs DEF TenancyInv
<1>8. CASE t = s
  <2>1. Deletes(a, s) /\ Deletes(a, s)' /\ ~Creates(a, s)'
    BY <1>2, <1>4 DEF Deletes, Creates
  <2>2. \A b \in Admins : ~Creates(b, s)
    BY <1>6, <1>8, <2>1 DEF SlugInv, Apart
  <2>3. \A b \in Admins : b # a => Deletes(b, s)' = Deletes(b, s) /\ ~Creates(b, s)'
    BY <1>3, <2>2 DEF Creates, Deletes
  <2>4. s \notin netns'
    <3>1. CASE tasks[a].row.net_namespace
      BY <1>5, <1>8, <3>1
    <3>2. CASE ~tasks[a].row.net_namespace
      <4>1. ~Wanted(s)
        BY <1>6, <1>8, <2>1, <3>2 DEF SlugInv, DeletesInOrder, Wanted
      <4> QED
        BY <1>5, <1>6, <1>8, <2>2, <3>2, <4>1 DEF SlugInv, Matched, Makes
    <3> QED
      BY <3>1, <3>2
  <2>5. Apart(s)' /\ MakesAlone(s)' /\ Matched(s)'
    BY <2>1, <2>3, <2>4 DEF Apart, MakesAlone, Makes, Matched
  <2>6. DeletesInOrder(s)'
    <3>1. ASSUME NEW b \in Admins, Deletes(b, s)'
          PROVE  workspaces[s] # NoRow => workspaces[s].net_namespace = tasks'[b].row.net_namespace
      <4>1. Deletes(b, s) /\ tasks'[b].row = tasks[b].row
        BY <1>3, <1>4, <2>1, <2>3, <3>1
      <4> QED
        BY <1>6, <1>8, <4>1 DEF SlugInv, DeletesInOrder
    <3> QED
      BY <1>3, <2>4, <3>1 DEF DeletesInOrder
  <2> QED
    BY <1>8, <2>5, <2>6 DEF SlugInv
<1> QED
  BY <1>7, <1>8

\* The row goes after its namespace.
LEMMA RowKeeps ==
  ASSUME TenancyInv, NEW a \in Admins, DeleteRow(a), NEW t \in Slugs \ tangled'
  PROVE  SlugInv(t)'
<1>1. PICK s \in Slugs : s = tasks[a].slug
  BY TaskFields DEF TenancyInv, TenancyTypeOK, DeleteRow, TaskAt
<1>2. /\ tasks \in [Admins -> Task \cup {NoTask}] /\ tasks[a] # NoTask
      /\ tasks[a].op = "delete" /\ tasks[a].slug = s /\ tasks[a].at = "row"
  BY <1>1, TaskFields DEF TenancyInv, TenancyTypeOK, DeleteRow, TaskAt
<1>3. /\ tasks'[a] = NoTask /\ netns' = netns /\ tangled' = tangled
      /\ \A b \in Admins : b # a => tasks'[b] = tasks[b]
      /\ workspaces \in [Slugs -> Workspace \cup {NoRow}]
      /\ workspaces' = IF s = DefaultSlug THEN workspaces ELSE [workspaces EXCEPT ![s] = NoRow]
  BY <1>1, <1>2 DEF DeleteRow, TaskEnds, TenancyInv, TenancyTypeOK
<1>4. SlugInv(t)
  BY <1>3 DEF TenancyInv
<1>5. CASE t # s
  <2>1. workspaces'[t] = workspaces[t]
    BY <1>3, <1>5
  <2> QED
    BY <1>2, <1>3, <1>4, <1>5, <2>1, OtherSlugs DEF TenancyInv
<1>6. CASE t = s
  <2>1. Deletes(a, s) /\ ~Creates(a, s)' /\ ~Deletes(a, s)'
    BY <1>2, <1>3 DEF Deletes, Creates
  <2>2. \A b \in Admins : ~Creates(b, s)
    BY <1>4, <1>6, <2>1 DEF SlugInv, Apart
  <2>3. \A b \in Admins : b # a => Deletes(b, s)' = Deletes(b, s) /\ ~Creates(b, s)'
    BY <1>3, <2>2 DEF Creates, Deletes
  <2>4. s \notin netns'
    BY <1>2, <1>3, <1>4, <1>6, <2>1 DEF SlugInv, DeletesInOrder
  <2>5. ~Wanted(s)'
    BY <1>3 DEF Wanted, TenancyInv
  <2>6. Apart(s)' /\ MakesAlone(s)' /\ Matched(s)'
    BY <2>1, <2>3, <2>4, <2>5 DEF Apart, MakesAlone, Makes, Matched
  <2>7. DeletesInOrder(s)'
    <3>1. workspaces'[s] # NoRow => workspaces'[s] = workspaces[s]
      BY <1>3
    <3> QED
      BY <1>3, <1>4, <1>6, <2>1, <2>3, <2>4, <3>1 DEF SlugInv, DeletesInOrder
  <2> QED
    BY <1>6, <2>6, <2>7 DEF SlugInv
<1> QED
  BY <1>5, <1>6

\* A handler that is dropped before its last statement tangles the slug.
LEMMA DropKeeps ==
  ASSUME TenancyInv, NEW a \in Admins, DropTask(a), NEW t \in Slugs \ tangled'
  PROVE  SlugInv(t)'
<1>1. PICK s \in Slugs : s = tasks[a].slug
  BY TaskFields DEF TenancyInv, TenancyTypeOK, DropTask, TaskAt
<1>2. /\ tasks \in [Admins -> Task \cup {NoTask}] /\ tasks'[a] = NoTask
      /\ \A b \in Admins : b # a => tasks'[b] = tasks[b]
      /\ workspaces' = workspaces /\ netns' = netns /\ tangled' = tangled \cup {s}
  BY <1>1 DEF DropTask, TaskEnds, TaskAt, TenancyInv, TenancyTypeOK
<1>3. SlugInv(t) /\ t # s
  BY <1>2 DEF TenancyInv
<1> QED
  BY <1>1, <1>2, <1>3, OtherSlugs DEF TenancyInv

\* A crash tangles the slugs that were being worked on.
LEMMA TenancyCrashKeeps ==
  ASSUME TenancyInv, TenancyCrash, NEW t \in Slugs \ tangled'
  PROVE  SlugInv(t)'
<1>1. /\ workspaces' = workspaces /\ netns' = netns
      /\ \A a \in Admins : tasks'[a] = NoTask
      /\ SlugInv(t)
  BY DEF TenancyCrash, TenancyInv
<1>2. Handlings("create", t) \cup Handlings("delete", t) = {}
  BY DEF TenancyCrash
<1>3. \A a \in Admins : ~Creates(a, t) /\ ~Deletes(a, t) /\ ~Creates(a, t)' /\ ~Deletes(a, t)'
  BY <1>1, <1>2 DEF Handlings, Creates, Deletes
<1>4. \A a \in Admins : Creates(a, t)' = Creates(a, t) /\ Deletes(a, t)' = Deletes(a, t)
  BY <1>3 DEF Creates, Deletes
<1> QED
  BY <1>1, <1>3, <1>4, Elsewhere

\* Every step keeps TenancyInv, action by action.
LEMMA TenancyKept == TenancyInv /\ [TenancyNext]_tenvars => TenancyInv'
<1> SUFFICES ASSUME TenancyInv, [TenancyNext]_tenvars PROVE TenancyInv'
  OBVIOUS
<1>1. TenancyTypeOK' /\ ~workspaces'[DefaultSlug].net_namespace
  BY TenancyTyped, DefaultKept
<1>2. ASSUME NEW t \in Slugs \ tangled' PROVE SlugInv(t)'
  <2>1. CASE TenancyRequest
    BY <2>1, CreateKeeps, DeleteKeeps, UpdateKeeps DEF TenancyRequest
  <2>2. CASE TenancyStep
    BY <2>2, InsertKeeps, NetnsKeeps, RowKeeps, DropKeeps DEF TenancyStep
  <2>3. CASE TenancyCrash
    BY <2>3, TenancyCrashKeeps
  <2>4. CASE UNCHANGED tenvars
    BY <2>4 DEF tenvars, TenancyInv, SlugInv, Apart, MakesAlone, Matched, DeletesInOrder,
       Creates, Deletes, Makes, Wanted
  <2> QED
    BY <2>1, <2>2, <2>3, <2>4 DEF TenancyNext
<1> QED
  BY <1>1, <1>2 DEF TenancyInv

\* With nobody at work on a slug, Matched is what TenancySound says.
LEMMA TenancyInvSound == TenancyInv => TenancySound
<1> SUFFICES ASSUME TenancyInv, NEW s \in Slugs \ tangled
             PROVE  /\ Wanted(s) => s \in netns \/ Handlings("delete", s) # {}
                    /\ s \in netns => Wanted(s) \/ Handlings("create", s) # {}
  BY DEF TenancyInv, TenancySound, NamespacesMatchRows, Wanted
<1>1. Matched(s)
  BY DEF TenancyInv, SlugInv
<1> QED
  BY <1>1 DEF Matched, Makes, Creates, Deletes, Handlings

\* Every workspace that asks for a namespace has one and every namespace belongs
\* to such a workspace, however creations, updates, deletions and crashes
\* interleave, for every slug whose handlers were not cut short, refused or met
\* by the opposite one (create_workspace and del_workspace change the kernel and
\* workspaces.db one after the other, without a lock over both).
THEOREM NamespacesStayMatched == GovernanceSpec => []TenancySound
<1>1. GovernanceInit => TenancyInv
  BY TenancyStart DEF GovernanceInit
<1>2. TenancyInv /\ [GovernanceNext]_govvars => TenancyInv'
  BY StepOfTenancy, TenancyKept
<1> QED
  BY <1>1, <1>2, TenancyInvSound, PTL DEF GovernanceSpec, GovernanceNext

-----------------------------------------------------------------------------
(* Model approvals. *)

\* What a step of the daemon is to its registry.
RegistryNext == RegistryRequest \/ RegistryStep \/ RegistryCrash

\* A step of the daemon is one of the model registry, or leaves it alone.
LEMMA StepOfRegistry == [GovernanceNext]_govvars => [RegistryNext]_regvars
BY DEF GovernanceNext, govvars, RegistryNext, Request, Step, Crash

On(h, s) == work[h] # NoSub /\ work[h].sha = s

\* The last answer about s is true.
Stands(s) ==
    /\ told[s] = "revoked" =>
         Loaded(s) /\ subs[s].status = "revoked" /\ tokens[s] \in {"none", "left"}
    /\ told[s] = "approved" => Loaded(s) /\ subs[s].status = "approved" /\ tokens[s] = "ours"

\* A request that another one disturbs leaves a doubt; one that is alone finds
\* the token as it left it, and the answer of the submission it belongs to.
LoneOn(s) ==
    \A h \in Handlers : On(h, s) =>
        /\ ~work[h].alone => s \in doubt
        /\ work[h].alone =>
             /\ \A g \in Handlers : On(g, s) => g = h
             /\ work[h].at = "grant" => tokens[s] = "ours"
             /\ work[h].at = "revoke" => tokens[s] \in {"none", "left"}
             /\ work[h].at \in {"open", "jira", "reload", "store"} => told[s] = "submitted"

\* Between the change of a token and that of its record no answer stands.
Answered(s) ==
    s \notin doubt /\ (\A h \in Handlers : On(h, s) => work[h].at \notin {"grant", "revoke"})
      => Stands(s)

Opened(s) == {t \in TicketIds : tickets[t] = s}

\* The record of s names its open ticket.
Tracked(s) ==
    \A t \in Opened(s) : Loaded(s) /\ subs[s].ticket = t /\ subs[s].status # "approved"

\* What a request on s has in hand.
InHand(h, s) ==
    /\ work[h].at = "submit" => work[h].rec = [status |-> "pending", ticket |-> NoSub]
    /\ work[h].at \in {"open", "jira"} =>
         Opened(s) = {} /\ Loaded(s) /\ subs[s].status # "approved"
    /\ work[h].at = "reload" =>
         Opened(s) \subseteq {work[h].ticket} /\ Loaded(s) /\ subs[s].status # "approved"
    /\ work[h].at = "store" =>
         /\ Opened(s) \subseteq {work[h].ticket} /\ work[h].rec.ticket = work[h].ticket
         /\ work[h].rec.status # "approved"
    /\ work[h].at \in {"key", "token", "grant", "unlink", "revoke"} => work[h].rec = subs[s]
    /\ work[h].at = "close" => Opened(s) \subseteq {work[h].rec.ticket}

\* The steps between the opening or closing of a ticket and the record.
Ticketing == {"open", "jira", "reload", "store", "close"}

\* Requests on s come one at a time, and its ticket is on record or in hand.
Followed(s) ==
    s \notin astray =>
        /\ \A g, h \in Handlers : On(g, s) /\ On(h, s) => g = h
        /\ (\A h \in Handlers : On(h, s) => work[h].at \notin Ticketing) => Tracked(s)
        /\ \A h \in Handlers : On(h, s) => InHand(h, s)

ShaInv(s) == LoneOn(s) /\ Answered(s) /\ Followed(s)

RegistryInv == RegistryTypeOK /\ \A s \in Shas : ShaInv(s)

\* Nothing was submitted and nobody is at work.
LEMMA RegistryStart == RegistryInit => RegistryInv
<1> SUFFICES ASSUME RegistryInit PROVE RegistryInv
  OBVIOUS
<1>1. RegistryTypeOK
  BY DEF RegistryTypeOK, RegistryInit
<1>2. ASSUME NEW s \in Shas PROVE ShaInv(s)
  <2>1. /\ \A h \in Handlers : ~On(h, s)
        /\ told[s] = "nothing" /\ Opened(s) = {}
    BY RegistryConstants DEF RegistryInit, On, Opened
  <2> QED
    BY <2>1 DEF ShaInv, LoneOn, Answered, Stands, Followed, Tracked
<1> QED
  BY <1>1, <1>2 DEF RegistryInv

\* A step that touches neither s nor a request on s.
LEMMA ShaElsewhere ==
  ASSUME NEW s \in Shas, ShaInv(s), subs'[s] = subs[s], tokens'[s] = tokens[s],
         told'[s] = told[s], s \in doubt' <=> s \in doubt, s \in astray' <=> s \in astray,
         \A t \in TicketIds : tickets'[t] = s => tickets[t] = s,
         \A h \in Handlers : /\ On(h, s)' = On(h, s)
                             /\ On(h, s) => work'[h] = work[h]
  PROVE  ShaInv(s)'
<1>1. Opened(s)' \subseteq Opened(s) /\ Loaded(s)' = Loaded(s) /\ Stands(s)' = Stands(s)
  BY DEF Opened, Loaded, Stands
<1>2. Tracked(s) => Tracked(s)'
  BY <1>1 DEF Tracked
<1>3. LoneOn(s)' /\ Answered(s)'
  BY <1>1 DEF ShaInv, LoneOn, Answered
<1>4. ASSUME NEW h \in Handlers, On(h, s), InHand(h, s) PROVE InHand(h, s)'
  <2>1. work'[h] = work[h]
    BY <1>4
  <2> QED
    BY <1>1, <1>4, <2>1 DEF InHand
<1>5. Followed(s)'
  BY <1>2, <1>4 DEF ShaInv, Followed
<1> QED
  BY <1>3, <1>5 DEF ShaInv

\* A step of the request h, which works on u.
LEMMA OtherShas ==
  ASSUME NEW h \in Handlers, NEW u \in Shas, NEW s \in Shas, s # u, ShaInv(s),
         subs'[s] = subs[s], tokens'[s] = tokens[s], told'[s] = told[s],
         s \in doubt' <=> s \in doubt, s \in astray' <=> s \in astray,
         \A t \in TicketIds : tickets'[t] = s => tickets[t] = s,
         \A g \in Handlers : g # h => work'[g] = work[g],
         work[h] # NoSub => work[h].sha = u,
         work'[h] # NoSub => work'[h].sha = u
  PROVE  ShaInv(s)'
<1>1. ASSUME NEW g \in Handlers
      PROVE  /\ On(g, s)' = On(g, s)
             /\ On(g, s) => work'[g] = work[g]
  <2>1. CASE g = h
    <3>1. ~On(g, s) /\ ~On(g, s)'
      BY <2>1 DEF On
    <3> QED
      BY <3>1 DEF On
  <2>2. CASE g # h
    BY <2>2 DEF On
  <2> QED
    BY <2>1, <2>2
<1> QED
  BY <1>1, ShaElsewhere

\* The step of one handler keeps LoneOn if it does for that handler.
LEMMA LoneFrame ==
  ASSUME NEW h \in Handlers, NEW s \in Shas, On(h, s), LoneOn(s),
         \A g \in Handlers : g # h => work'[g] = work[g],
         s \in doubt => s \in doubt' \/ work[h].alone,
         On(h, s)' =>
             /\ work'[h].alone = work[h].alone
             /\ work[h].alone =>
                  /\ work'[h].at = "grant" => tokens'[s] = "ours"
                  /\ work'[h].at = "revoke" => tokens'[s] \in {"none", "left"}
                  /\ work'[h].at \in {"open", "jira", "reload", "store"} => told'[s] = "submitted"
  PROVE  LoneOn(s)'
<1>1. \A g \in Handlers : g # h => On(g, s)' = On(g, s)
  BY DEF On
<1>2. ASSUME NEW g \in Handlers, g # h, On(g, s)
      PROVE  ~work'[g].alone /\ s \in doubt'
  BY <1>2 DEF LoneOn
<1>3. ASSUME work[h].alone, NEW g \in Handlers, On(g, s)' PROVE g = h
  BY <1>1, <1>3 DEF LoneOn
<1>4. On(h, s)' /\ ~work[h].alone => s \in doubt'
  BY DEF LoneOn
<1> QED
  BY <1>1, <1>2, <1>3, <1>4 DEF LoneOn

\* The step of one handler keeps Followed if it does for that handler.
LEMMA FollowedFrame ==
  ASSUME NEW h \in Handlers, NEW s \in Shas, On(h, s), Followed(s),
         \A g \in Handlers : g # h => work'[g] = work[g],
         s \in astray => s \in astray',
         s \notin astray' /\ InHand(h, s) /\ (work[h].at \notin Ticketing => Tracked(s)) =>
             /\ On(h, s)' => InHand(h, s)'
             /\ (On(h, s)' => work'[h].at \notin Ticketing) => Tracked(s)'
  PROVE  Followed(s)'
<1> SUFFICES ASSUME s \notin astray'
             PROVE  /\ \A g, k \in Handlers : On(g, s)' /\ On(k, s)' => g = k
                    /\ (\A k \in Handlers : On(k, s)' => work'[k].at \notin Ticketing)
                         => Tracked(s)'
                    /\ \A k \in Handlers : On(k, s)' => InHand(k, s)'
  BY DEF Followed
<1>1. \A g \in Handlers : On(g, s) => g = h
  BY DEF Followed
<1>2. \A g \in Handlers : On(g, s)' => g = h
  BY <1>1 DEF On
<1>3. InHand(h, s) /\ (work[h].at \notin Ticketing => Tracked(s))
  BY <1>1 DEF Followed
<1> QED
  BY <1>2, <1>3

Steps == {"submit", "open", "jira", "reload", "store", "key", "token", "grant", "close", "unlink",
          "revoke"}

\* What the type of a request under way says of its fields.
LEMMA WorkFields ==
  ASSUME NEW w \in Work
  PROVE  /\ w # NoSub /\ w.at \in Steps /\ w.sha \in Shas /\ w.rec \in Sub
         /\ w.ticket \in TicketIds \cup {NoSub} /\ w.alone \in BOOLEAN
BY RegistryConstants DEF Work, Steps

\* A request that goes on to its next step keeps what it has.
LEMMA Moved ==
  ASSUME NEW w \in Work, NEW at \in Steps
  PROVE  /\ [w EXCEPT !.at = at] \in Work
         /\ [w EXCEPT !.at = at].at = at /\ [w EXCEPT !.at = at].sha = w.sha
         /\ [w EXCEPT !.at = at].rec = w.rec /\ [w EXCEPT !.at = at].ticket = w.ticket
         /\ [w EXCEPT !.at = at].alone = w.alone
BY DEF Work, Steps

\* A request that is not alone any more.
LEMMA Disturbed ==
  ASSUME NEW w \in Work
  PROVE  /\ [w EXCEPT !.alone = FALSE] \in Work
         /\ [w EXCEPT !.alone = FALSE].at = w.at /\ [w EXCEPT !.alone = FALSE].sha = w.sha
         /\ [w EXCEPT !.alone = FALSE].rec = w.rec
         /\ [w EXCEPT !.alone = FALSE].ticket = w.ticket
         /\ ~[w EXCEPT !.alone = FALSE].alone
BY DEF Work

\* What a record's type says of its fields, a new ticket or status included.
LEMMA SubFields ==
  ASSUME NEW r \in Sub
  PROVE  /\ r # NoSub /\ r.status \in {"pending", "approved", "revoked"}
         /\ r.ticket \in TicketIds \cup {NoSub}
         /\ \A t \in TicketIds \cup {NoSub} : /\ [r EXCEPT !.ticket = t] \in Sub
                                              /\ [r EXCEPT !.ticket = t].ticket = t
                                              /\ [r EXCEPT !.ticket = t].status = r.status
         /\ \A st \in {"approved", "revoked"} : /\ [r EXCEPT !.status = st] \in Sub
                                                /\ [r EXCEPT !.status = st].ticket = r.ticket
                                                /\ [r EXCEPT !.status = st].status = st
BY RegistryConstants DEF Sub

\* The request h is at the step at, on s, with the record r.
LEMMA AtWork ==
  ASSUME RegistryTypeOK, NEW h \in Handlers, NEW at, At(h, at)
  PROVE  /\ work[h] \in Work /\ work[h] # NoSub /\ work[h].at = at
         /\ work[h].sha \in Shas /\ work[h].rec \in Sub
         /\ On(h, work[h].sha)
BY WorkFields DEF RegistryTypeOK, At, On

\* A handler that goes on changes the place it is at and nothing else.
LEMMA MovesWork ==
  ASSUME RegistryTypeOK, NEW h \in Handlers, work[h] \in Work, NEW at \in Steps, Moves(h, at)
  PROVE  /\ work' \in [Handlers -> Work \cup {NoSub}]
         /\ work'[h] \in Work /\ work'[h].at = at /\ work'[h].sha = work[h].sha
         /\ work'[h].rec = work[h].rec /\ work'[h].ticket = work[h].ticket
         /\ work'[h].alone = work[h].alone
         /\ \A g \in Handlers : g # h => work'[g] = work[g]
<1>1. /\ work'[h] = [work[h] EXCEPT !.at = at]
      /\ \A g \in Handlers : g # h => work'[g] = work[g]
      /\ work' \in [Handlers -> Work \cup {NoSub}]
  <2>1. [work[h] EXCEPT !.at = at] \in Work
    BY Moved
  <2> QED
    BY <2>1 DEF RegistryTypeOK, Moves
<1> QED
  BY <1>1, Moved

\* A handler that ends leaves the others alone.
LEMMA EndsWork ==
  ASSUME RegistryTypeOK, NEW h \in Handlers, Ends(h)
  PROVE  /\ work' \in [Handlers -> Work \cup {NoSub}] /\ work'[h] = NoSub
         /\ \A g \in Handlers : g # h => work'[g] = work[g]
BY DEF RegistryTypeOK, Ends

\* A request is alone if nobody is at work on its digest.
LEMMA TakesWork ==
  ASSUME RegistryTypeOK, NEW h \in Handlers, NEW s \in Shas, NEW at \in Steps, NEW rec \in Sub,
         Takes(h, at, s, rec)
  PROVE  /\ work' \in [Handlers -> Work \cup {NoSub}] /\ work[h] = NoSub
         /\ work'[h] \in Work /\ work'[h].at = at /\ work'[h].sha = s /\ work'[h].rec = rec
         /\ work'[h].alone = (Busy(s) = {})
         /\ \A g \in Handlers : g # h /\ ~On(g, s) => work'[g] = work[g]
         /\ \A g \in Handlers : On(g, s) => work'[g] = [work[g] EXCEPT !.alone = FALSE]
         /\ doubt \subseteq doubt' /\ astray \subseteq astray'
         /\ doubt' \subseteq doubt \cup {s} /\ astray' \subseteq astray \cup {s}
         /\ Busy(s) # {} => s \in doubt' /\ s \in astray'
<1> DEFINE new == [at |-> at, sha |-> s, rec |-> rec, ticket |-> NoSub, alone |-> Busy(s) = {}]
<1>1. new \in Work
  BY DEF Work, Steps
<1>2. \A g \in Handlers : g \in Busy(s) <=> On(g, s)
  BY DEF Busy, On
<1>3. \A g \in Handlers : work[g] \in Work \cup {NoSub}
  BY DEF RegistryTypeOK
<1>4. \A g \in Handlers : On(g, s) => [work[g] EXCEPT !.alone = FALSE] \in Work
  BY <1>3, Disturbed DEF On
<1>5. /\ work[h] = NoSub /\ work'[h] = new
      /\ \A g \in Handlers : g # h /\ ~On(g, s) => work'[g] = work[g]
      /\ \A g \in Handlers : On(g, s) => work'[g] = [work[g] EXCEPT !.alone = FALSE]
  BY <1>2 DEF Takes, On
<1>6. work' = [g \in Handlers |-> work'[g]]
  BY DEF Takes
<1>7. \A g \in Handlers : work'[g] \in Work \cup {NoSub}
  BY <1>1, <1>3, <1>4, <1>5 DEF On
<1>8. work' \in [Handlers -> Work \cup {NoSub}]
  BY <1>6, <1>7
<1>9. /\ doubt \subseteq doubt' /\ astray \subseteq astray'
      /\ doubt' \subseteq doubt \cup {s} /\ astray' \subseteq astray \cup {s}
      /\ Busy(s) # {} => s \in doubt' /\ s \in astray'
  BY DEF Takes
<1> QED
  BY <1>1, <1>5, <1>8, <1>9

\* A request begins with a record that is as it should be.
LEMMA TakesKeeps ==
  ASSUME RegistryInv, NEW h \in Handlers, NEW s \in Shas, NEW rec \in Sub,
         NEW at \in {"submit", "key", "unlink"}, Takes(h, at, s, rec),
         IF at = "submit" THEN rec = [status |-> "pending", ticket |-> NoSub]
         ELSE rec = subs[s],
         UNCHANGED << subs, tokens, signing, tickets, issued, told >>
  PROVE  RegistryInv'
<1>1. at \in Steps
  BY DEF Steps
<1>2. /\ work' \in [Handlers -> Work \cup {NoSub}] /\ work[h] = NoSub
      /\ work'[h] \in Work /\ work'[h].at = at /\ work'[h].sha = s /\ work'[h].rec = rec
      /\ work'[h].alone = (Busy(s) = {})
      /\ \A g \in Handlers : g # h /\ ~On(g, s) => work'[g] = work[g]
      /\ \A g \in Handlers : On(g, s) => work'[g] = [work[g] EXCEPT !.alone = FALSE]
      /\ doubt \subseteq doubt' /\ astray \subseteq astray'
      /\ doubt' \subseteq doubt \cup {s} /\ astray' \subseteq astray \cup {s}
      /\ Busy(s) # {} => s \in doubt' /\ s \in astray'
  BY <1>1, TakesWork DEF RegistryInv
<1>3. RegistryTypeOK'
  BY <1>2 DEF RegistryInv, RegistryTypeOK
<1>4. /\ work'[h] # NoSub /\ ~On(h, s)
      /\ \A g \in Handlers : g \in Busy(s) <=> On(g, s)
  BY <1>2, WorkFields DEF On, Busy
<1>5. ASSUME NEW g \in Handlers, On(g, s)
      PROVE  work'[g].at = work[g].at /\ work'[g].sha = s /\ ~work'[g].alone /\ work'[g] # NoSub
  <2>1. work[g] \in Work
    BY <1>5 DEF On, RegistryInv, RegistryTypeOK
  <2>2. [work[g] EXCEPT !.alone = FALSE] \in Work
    BY <2>1, Disturbed
  <2>3. work'[g] = [work[g] EXCEPT !.alone = FALSE] /\ work[g].sha = s
    BY <1>2, <1>5 DEF On
  <2>4. work'[g] \in Work /\ work'[g] # NoSub
    BY <2>2, <2>3, WorkFields
  <2> QED
    BY <2>1, <2>3, <2>4, Disturbed
<1>6. ASSUME NEW u \in Shas, u # s PROVE ShaInv(u)'
  <2>1. ASSUME NEW g \in Handlers
        PROVE  On(g, u)' = On(g, u) /\ (On(g, u) => work'[g] = work[g])
    <3>1. CASE g = h
      BY <1>2, <1>6, <3>1 DEF On
    <3>2. CASE g # h /\ ~On(g, s)
      BY <1>2, <3>2 DEF On
    <3>3. CASE On(g, s)
      <4>1. ~On(g, u) /\ ~On(g, u)'
        BY <1>5, <1>6, <3>3 DEF On
      <4> QED
        BY <4>1 DEF On
    <3> QED
      BY <3>1, <3>2, <3>3
  <2>2. (u \in doubt' <=> u \in doubt) /\ (u \in astray' <=> u \in astray) /\ ShaInv(u)
    BY <1>2, <1>6 DEF RegistryInv
  <2> QED
    BY <2>1, <2>2, ShaElsewhere
<1>7. ShaInv(s)'
  <2>0. ShaInv(s)
    BY DEF RegistryInv
  <2>1. CASE Busy(s) = {}
    <3>1. \A g \in Handlers : ~On(g, s) /\ (On(g, s)' => g = h)
      BY <1>2, <1>4, <2>1 DEF On
    <3>2. work'[h].alone
      BY <1>2, <2>1
    <3>3. LoneOn(s)'
      BY <1>2, <3>1, <3>2 DEF LoneOn
    <3>4. Stands(s)' = Stands(s) /\ Tracked(s)' = Tracked(s) /\ Opened(s)' = Opened(s)
      BY DEF Stands, Tracked, Loaded, Opened
    <3>5. Answered(s)'
      BY <1>2, <2>0, <3>1, <3>4 DEF ShaInv, Answered
    <3>6. InHand(h, s)'
      BY <1>2 DEF InHand
    <3>7. Followed(s)'
      BY <1>2, <2>0, <3>1, <3>4, <3>6 DEF ShaInv, Followed
    <3> QED
      BY <3>3, <3>5, <3>7 DEF ShaInv
  <2>2. CASE Busy(s) # {}
    <3>1. \A g \in Handlers : On(g, s)' => ~work'[g].alone
      BY <1>2, <1>5, <2>2 DEF On
    <3> QED
      BY <1>2, <2>2, <3>1 DEF ShaInv, LoneOn, Answered, Followed
  <2> QED
    BY <2>1, <2>2
<1> QED
  BY <1>3, <1>6, <1>7 DEF RegistryInv

\* A request that begins changes no file, and marks the ones it overlaps.
LEMMA RegistryRequestKeeps ==
  ASSUME RegistryInv, NEW h \in Handlers, NEW s \in Shas,
         submit(h, s) \/ approve(h, s) \/ revoke(h, s)
  PROVE  RegistryInv'
<1>1. [status |-> "pending", ticket |-> NoSub] \in Sub
  BY DEF Sub
<1>2. CASE submit(h, s)
  BY <1>1, <1>2, TakesKeeps DEF submit
<1>3. CASE approve(h, s)
  BY <1>3, TakesKeeps DEF approve, Loaded
<1>4. CASE revoke(h, s)
  BY <1>4, TakesKeeps DEF revoke, Loaded
<1> QED
  BY <1>2, <1>3, <1>4

\* An imported token is the last answer of its digest, in doubt beside a request.
LEMMA ImportKeeps ==
  ASSUME RegistryInv, NEW s \in Shas, ImportToken(s)
  PROVE  RegistryInv'
<1>1. \A g \in Handlers : g \in Busy(s) <=> On(g, s)
  BY DEF On, Busy
<1>2. /\ \A g \in Handlers : ~On(g, s) => work'[g] = work[g]
      /\ \A g \in Handlers : On(g, s) => work'[g] = [work[g] EXCEPT !.alone = FALSE]
      /\ subs' = subs /\ tickets' = tickets /\ astray' = astray
      /\ told'[s] = "imported"
      /\ \A u \in Shas : u # s => tokens'[u] = tokens[u] /\ told'[u] = told[u]
      /\ doubt \subseteq doubt' /\ doubt' \subseteq doubt \cup {s}
      /\ Busy(s) # {} => s \in doubt'
  BY <1>1 DEF ImportToken, RegistryInv, RegistryTypeOK
<1>3. ASSUME NEW g \in Handlers, On(g, s)
      PROVE  /\ work'[g].at = work[g].at /\ work'[g].sha = s /\ ~work'[g].alone
             /\ work'[g].rec = work[g].rec /\ work'[g].ticket = work[g].ticket
             /\ work'[g] # NoSub /\ work'[g] \in Work
  <2>1. work[g] \in Work
    BY <1>3 DEF On, RegistryInv, RegistryTypeOK
  <2>2. [work[g] EXCEPT !.alone = FALSE] \in Work
    BY <2>1, Disturbed
  <2>3. work'[g] = [work[g] EXCEPT !.alone = FALSE] /\ work[g].sha = s
    BY <1>2, <1>3 DEF On
  <2>4. work'[g] \in Work /\ work'[g] # NoSub
    BY <2>2, <2>3, WorkFields
  <2> QED
    BY <2>1, <2>3, <2>4, Disturbed
<1>4. RegistryTypeOK'
  <2>1. \A g \in Handlers : work'[g] \in Work \cup {NoSub}
    BY <1>2, <1>3 DEF RegistryInv, RegistryTypeOK
  <2>2. work' = [g \in Handlers |-> work'[g]]
    BY DEF ImportToken
  <2>3. work' \in [Handlers -> Work \cup {NoSub}]
    BY <2>1, <2>2
  <2> QED
    BY <1>2, <2>3 DEF ImportToken, RegistryInv, RegistryTypeOK
<1>5. ASSUME NEW u \in Shas, u # s PROVE ShaInv(u)'
  <2>1. ASSUME NEW g \in Handlers
        PROVE  On(g, u)' = On(g, u) /\ (On(g, u) => work'[g] = work[g])
    <3>1. CASE ~On(g, s)
      BY <1>2, <3>1 DEF On
    <3>2. CASE On(g, s)
      <4>1. ~On(g, u) /\ ~On(g, u)'
        BY <1>3, <1>5, <3>2 DEF On
      <4> QED
        BY <4>1 DEF On
    <3> QED
      BY <3>1, <3>2
  <2>2. (u \in doubt' <=> u \in doubt) /\ ShaInv(u)
    BY <1>2, <1>5 DEF RegistryInv
  <2> QED
    BY <1>2, <1>5, <2>1, <2>2, ShaElsewhere
<1>6. ShaInv(s)'
  <2>1. ShaInv(s) /\ Stands(s)'
    BY <1>2 DEF RegistryInv, Stands
  <2>2. \A g \in Handlers : On(g, s)' = On(g, s)
    BY <1>2, <1>3 DEF On
  <2>3. \A g \in Handlers : On(g, s) => ~work'[g].alone /\ s \in doubt'
    BY <1>1, <1>2, <1>3
  <2>4. Tracked(s)' = Tracked(s) /\ Opened(s)' = Opened(s) /\ Loaded(s)' = Loaded(s)
    BY <1>2 DEF Tracked, Opened, Loaded
  <2>5. ASSUME NEW g \in Handlers, On(g, s), InHand(g, s) PROVE InHand(g, s)'
    BY <1>2, <1>3, <2>4, <2>5 DEF InHand
  <2>6. LoneOn(s)' /\ Answered(s)'
    BY <2>1, <2>2, <2>3 DEF LoneOn, Answered
  <2>7. Followed(s)'
    BY <1>2, <1>3, <2>1, <2>2, <2>4, <2>5 DEF ShaInv, Followed
  <2> QED
    BY <2>6, <2>7 DEF ShaInv
<1> QED
  BY <1>4, <1>5, <1>6 DEF RegistryInv

\* A write cut short harms the files of its digest only.
LEMMA CutFiles ==
  ASSUME RegistryTypeOK, NEW h \in Handlers, Cut(h)
  PROVE  /\ subs' \in [Shas -> Sub \cup {NoSub, TornFile}]
         /\ tokens' \in [Shas -> {"none", "ours", "imported", "torn", "left"}]
         /\ signing' \in {"none", "whole", "torn"}
         /\ \A u \in Shas : u # work[h].sha => subs'[u] = subs[u] /\ tokens'[u] = tokens[u]
<1>1. ASSUME NEW at, At(h, at) PROVE work[h].sha \in Shas
  BY <1>1, AtWork
<1>2. CASE /\ \E at \in {"submit", "store", "grant", "revoke"} : At(h, at)
           /\ save_submission(work[h].sha, TornFile) /\ UNCHANGED << tokens, signing >>
  BY <1>1, <1>2 DEF save_submission, RegistryTypeOK
<1>3. CASE /\ At(h, "token") /\ tokens' = [tokens EXCEPT ![work[h].sha] = "torn"]
           /\ UNCHANGED << subs, signing >>
  BY <1>1, <1>3 DEF RegistryTypeOK
<1>4. CASE signing' = "torn" /\ UNCHANGED << subs, tokens >>
  BY <1>4 DEF RegistryTypeOK
<1> QED
  BY <1>2, <1>3, <1>4 DEF Cut

\* A crash leaves in doubt and astray the digests that were being worked on.
LEMMA RegistryCrashKeeps ==
  ASSUME RegistryInv, RegistryCrash
  PROVE  RegistryInv'
<1>1. /\ \A g \in Handlers : work'[g] = NoSub
      /\ work' \in [Handlers -> Work \cup {NoSub}]
      /\ tickets' = tickets /\ issued' = issued /\ told' = told
      /\ \A u \in Shas : /\ u \in doubt' <=> u \in doubt \/ Busy(u) # {}
                         /\ u \in astray' <=> u \in astray \/ Busy(u) # {}
      /\ doubt' \subseteq Shas /\ astray' \subseteq Shas
  BY DEF RegistryCrash, RegistryInv, RegistryTypeOK
<1>2. /\ subs' \in [Shas -> Sub \cup {NoSub, TornFile}]
      /\ tokens' \in [Shas -> {"none", "ours", "imported", "torn", "left"}]
      /\ signing' \in {"none", "whole", "torn"}
      /\ \A u \in Shas : Busy(u) = {} => subs'[u] = subs[u] /\ tokens'[u] = tokens[u]
  <2>1. CASE UNCHANGED << subs, tokens, signing >>
    BY <2>1 DEF RegistryInv, RegistryTypeOK
  <2>2. ASSUME NEW h \in Handlers, Cut(h) PROVE <1>2
    <3>1. PICK at : At(h, at)
      BY <2>2 DEF Cut
    <3>2. h \in Busy(work[h].sha)
      BY <3>1 DEF Busy, At
    <3> QED
      BY <2>2, <3>2, CutFiles DEF RegistryInv
  <2> QED
    BY <2>1, <2>2 DEF RegistryCrash
<1>3. RegistryTypeOK'
  BY <1>1, <1>2 DEF RegistryInv, RegistryTypeOK
<1>4. ASSUME NEW u \in Shas PROVE ShaInv(u)'
  <2>1. \A g \in Handlers : ~On(g, u)'
    BY <1>1 DEF On
  <2>2. CASE Busy(u) = {}
    <3>1. \A g \in Handlers : ~On(g, u)
      BY <2>2 DEF Busy, On
    <3>2. \A g \in Handlers : On(g, u)' = On(g, u)
      BY <2>1, <3>1 DEF On
    <3>3. ShaInv(u)
      BY DEF RegistryInv
    <3> QED
      BY <1>1, <1>2, <2>2, <3>1, <3>2, <3>3, ShaElsewhere
  <2>3. CASE Busy(u) # {}
    BY <1>1, <2>1, <2>3 DEF ShaInv, LoneOn, Answered, Followed
  <2> QED
    BY <2>2, <2>3
<1> QED
  BY <1>3, <1>4 DEF RegistryInv

\* A resubmission over a record with a ticket leads that ticket astray.
LEMMA SubmitSaveKeeps ==
  ASSUME RegistryInv, NEW h \in Handlers, SubmitSave(h)
  PROVE  RegistryInv'
<1>0. /\ RegistryTypeOK /\ At(h, "submit")
  BY DEF RegistryInv, SubmitSave
<1>1. PICK s \in Shas : s = work[h].sha
  BY <1>0, AtWork
<1>2. /\ work[h] \in Work /\ work[h] # NoSub /\ work[h].at = "submit" /\ work[h].rec \in Sub
      /\ On(h, s) /\ ShaInv(s) /\ work[h].sha = s
  BY <1>0, <1>1, AtWork DEF RegistryInv
<1>3. /\ subs'[s] = work[h].rec /\ told'[s] = "submitted"
      /\ \A u \in Shas : u # s => subs'[u] = subs[u] /\ told'[u] = told[u]
      /\ doubt' = IF work[h].alone THEN doubt \ {s} ELSE doubt
      /\ astray' = IF Loaded(s) /\ subs[s].ticket # NoSub THEN astray \cup {s} ELSE astray
      /\ tokens' = tokens /\ signing' = signing /\ tickets' = tickets /\ issued' = issued
      /\ Moves(h, "open") \/ Ends(h)
  BY <1>1, <1>2 DEF SubmitSave, Says, save_submission, RegistryInv, RegistryTypeOK
<1>4. /\ work' \in [Handlers -> Work \cup {NoSub}]
      /\ \A g \in Handlers : g # h => work'[g] = work[g]
      /\ work'[h] # NoSub => /\ work'[h].at = "open" /\ work'[h].sha = s
                             /\ work'[h].alone = work[h].alone
  BY <1>0, <1>2, <1>3, MovesWork, EndsWork DEF Steps
<1>5. RegistryTypeOK'
  <2>1. /\ subs' \in [Shas -> Sub \cup {NoSub, TornFile}]
        /\ told' \in [Shas -> {"nothing", "submitted", "approved", "revoked", "imported"}]
    BY <1>0, <1>2 DEF SubmitSave, Says, save_submission, RegistryTypeOK
  <2> QED
    BY <1>0, <1>3, <1>4, <2>1 DEF RegistryTypeOK
<1>6. ASSUME NEW u \in Shas, u # s PROVE ShaInv(u)'
  <2>1. ShaInv(u) /\ (u \in doubt' <=> u \in doubt) /\ (u \in astray' <=> u \in astray)
    BY <1>3, <1>6 DEF RegistryInv
  <2> QED
    BY <1>2, <1>3, <1>4, <1>6, <2>1, OtherShas
<1>7. LoneOn(s)'
  <2>1. LoneOn(s)
    BY <1>2 DEF ShaInv
  <2> QED
    BY <1>2, <1>3, <1>4, <2>1, LoneFrame DEF On
<1>8. Answered(s)'
  BY <1>3 DEF Answered, Stands
<1>9. Followed(s)'
  <2>1. Followed(s)
    BY <1>2 DEF ShaInv
  <2>2. ASSUME s \notin astray', InHand(h, s), Tracked(s)
        PROVE  Opened(s)' = {} /\ Loaded(s)' /\ subs'[s].status # "approved"
    <3>1. work[h].rec.status = "pending"
      BY <1>2, <2>2 DEF InHand
    <3>2. Opened(s) = {}
      BY <1>3, <2>2, RegistryConstants DEF Tracked, Opened
    <3> QED
      BY <1>2, <1>3, <3>1, <3>2 DEF Loaded, Opened
  <2>3. ASSUME s \notin astray', InHand(h, s), work[h].at \notin Ticketing => Tracked(s)
        PROVE  (On(h, s)' => InHand(h, s)') /\ Tracked(s)'
    <3>1. Tracked(s)
      BY <1>2, <2>3 DEF Ticketing
    <3>2. Opened(s)' = {} /\ Loaded(s)' /\ subs'[s].status # "approved"
      BY <2>2, <2>3, <3>1
    <3> QED
      BY <1>4, <3>2 DEF InHand, On, Tracked
  <2>4. s \in astray => s \in astray'
    BY <1>3
  <2> QED
    BY <1>2, <1>4, <2>1, <2>3, <2>4, FollowedFrame
<1> QED
  BY <1>5, <1>6, <1>7, <1>8, <1>9 DEF RegistryInv, ShaInv

\* The ticket opened is in the hand of the task that opened it.
LEMMA OpenTicketKeeps ==
  ASSUME RegistryInv, NEW h \in Handlers, open_ticket(h)
  PROVE  RegistryInv'
<1>0. RegistryTypeOK /\ \E at \in {"open", "jira"} : At(h, at)
  BY DEF RegistryInv, open_ticket
<1>1. PICK s \in Shas : s = work[h].sha
  BY <1>0, AtWork
<1>2. /\ work[h] \in Work /\ work[h] # NoSub /\ work[h].at \in {"open", "jira"}
      /\ On(h, s) /\ ShaInv(s) /\ work[h].sha = s
  BY <1>0, <1>1, AtWork DEF RegistryInv
<1>3. /\ subs' = subs /\ tokens' = tokens /\ signing' = signing /\ told' = told
      /\ doubt' = doubt
  BY DEF open_ticket
<1>4. \/ AsksOn(h) /\ tickets' = tickets /\ issued' = issued /\ astray' = astray
      \/ \E t \in TicketIds \ issued :
            /\ issued' = issued \cup {t} /\ tickets' = [tickets EXCEPT ![t] = s]
            /\ AsksOn(h) /\ astray' = astray \cup {s}
      \/ \E t \in TicketIds \ issued :
            /\ issued' = issued \cup {t} /\ tickets' = [tickets EXCEPT ![t] = s]
            /\ work' = [work EXCEPT ![h] = [work[h] EXCEPT !.at = "reload", !.ticket = t]]
            /\ astray' = astray
  BY <1>0, <1>1 DEF open_ticket, RegistryTypeOK
<1>5. ASSUME AsksOn(h), issued' \subseteq TicketIds,
             tickets' \in [TicketIds -> Shas \cup {NoSub}],
             \A t \in TicketIds : tickets'[t] # NoSub => t \in issued',
             \A t \in TicketIds : tickets'[t] \in {tickets[t], s},
             \/ tickets' = tickets /\ astray' = astray
             \/ astray' = astray \cup {s}
      PROVE  RegistryInv'
  <2>1. /\ work' \in [Handlers -> Work \cup {NoSub}]
        /\ work'[h] # NoSub => /\ work'[h].at = "jira" /\ work'[h].sha = s
                               /\ work'[h].alone = work[h].alone
        /\ \A g \in Handlers : g # h => work'[g] = work[g]
    <3>1. CASE Ends(h)
      BY <1>0, <3>1, EndsWork
    <3>2. CASE Moves(h, "jira")
      BY <1>0, <1>2, <3>2, MovesWork DEF Steps
    <3> QED
      BY <1>5, <3>1, <3>2 DEF AsksOn
  <2>2. RegistryTypeOK'
    BY <1>0, <1>3, <1>5, <2>1 DEF RegistryTypeOK
  <2>3. ASSUME NEW u \in Shas, u # s PROVE ShaInv(u)'
    <3>1. ShaInv(u) /\ (u \in astray' <=> u \in astray)
      BY <1>5, <2>3 DEF RegistryInv
    <3>2. \A t \in TicketIds : tickets'[t] = u => tickets[t] = u
      BY <1>5, <2>3
    <3> QED
      BY <1>2, <1>3, <2>1, <2>3, <3>1, <3>2, OtherShas
  <2>4. LoneOn(s)'
    <3>1. LoneOn(s) /\ (work[h].alone => told[s] = "submitted")
      BY <1>2 DEF ShaInv, LoneOn
    <3> QED
      BY <1>2, <1>3, <2>1, <3>1, LoneFrame DEF On
  <2>5. Answered(s)'
    <3>1. (\A g \in Handlers : On(g, s)' => work'[g].at \notin {"grant", "revoke"})
            => \A g \in Handlers : On(g, s) => work[g].at \notin {"grant", "revoke"}
      BY <1>2, <2>1 DEF On
    <3> QED
      BY <1>2, <1>3, <3>1 DEF ShaInv, Answered, Stands, Loaded
  <2>6. Followed(s)'
    <3>1. CASE s \in astray'
      BY <3>1 DEF Followed
    <3>2. CASE tickets' = tickets /\ astray' = astray
      <4>1. ASSUME InHand(h, s) PROVE (On(h, s)' => InHand(h, s)') /\ Tracked(s)'
        <5>1. Opened(s)' = {} /\ Loaded(s)' /\ subs'[s].status # "approved"
          BY <1>2, <1>3, <3>2, <4>1 DEF InHand, Opened, Loaded
        <5> QED
          BY <2>1, <5>1 DEF On, InHand, Tracked
      <4> QED
        BY <1>2, <2>1, <3>2, <4>1, FollowedFrame DEF ShaInv
    <3> QED
      BY <1>5, <3>1, <3>2
  <2> QED
    BY <2>2, <2>3, <2>4, <2>5, <2>6 DEF RegistryInv, ShaInv
<1>6. ASSUME NEW t \in TicketIds \ issued, astray' = astray,
             issued' = issued \cup {t}, tickets' = [tickets EXCEPT ![t] = s],
             work' = [work EXCEPT ![h] = [work[h] EXCEPT !.at = "reload", !.ticket = t]]
      PROVE  RegistryInv'
  <2>1. /\ [work[h] EXCEPT !.at = "reload", !.ticket = t] \in Work
        /\ [work[h] EXCEPT !.at = "reload", !.ticket = t].at = "reload"
        /\ [work[h] EXCEPT !.at = "reload", !.ticket = t].ticket = t
        /\ [work[h] EXCEPT !.at = "reload", !.ticket = t].sha = s
        /\ [work[h] EXCEPT !.at = "reload", !.ticket = t].alone = work[h].alone
    BY <1>2 DEF Work
  <2>2. /\ work'[h] = [work[h] EXCEPT !.at = "reload", !.ticket = t]
        /\ work' \in [Handlers -> Work \cup {NoSub}]
        /\ \A g \in Handlers : g # h => work'[g] = work[g]
    BY <1>0, <1>6, <2>1 DEF RegistryTypeOK
  <2>3. /\ work'[h].at = "reload" /\ work'[h].ticket = t /\ work'[h].sha = s
        /\ work'[h].alone = work[h].alone
    BY <2>1, <2>2
  <2>4. tickets[t] = NoSub
    BY <1>0, <1>6 DEF RegistryTypeOK
  <2>5. RegistryTypeOK'
    BY <1>0, <1>3, <1>6, <2>2 DEF RegistryTypeOK
  <2>6. ASSUME NEW u \in Shas, u # s PROVE ShaInv(u)'
    <3>1. \A x \in TicketIds : tickets'[x] = u => tickets[x] = u
      BY <1>0, <1>6, <2>6 DEF RegistryTypeOK
    <3> QED
      BY <1>2, <1>3, <1>6, <2>2, <2>3, <2>6, <3>1, OtherShas DEF RegistryInv
  <2>7. LoneOn(s)'
    <3>1. LoneOn(s) /\ (work[h].alone => told[s] = "submitted")
      BY <1>2 DEF ShaInv, LoneOn
    <3> QED
      BY <1>2, <1>3, <2>2, <2>3, <3>1, LoneFrame
  <2>8. Answered(s)'
    <3>1. (\A g \in Handlers : On(g, s)' => work'[g].at \notin {"grant", "revoke"})
            => \A g \in Handlers : On(g, s) => work[g].at \notin {"grant", "revoke"}
      BY <1>2, <2>2 DEF On
    <3> QED
      BY <1>2, <1>3, <3>1 DEF ShaInv, Answered, Stands, Loaded
  <2>9. Followed(s)'
    <3>1. ASSUME InHand(h, s)
          PROVE  InHand(h, s)' /\ (work'[h].at \notin Ticketing => Tracked(s)')
      <4>1. Opened(s) = {} /\ Loaded(s) /\ subs[s].status # "approved"
        BY <1>2, <3>1 DEF InHand
      <4>2. Opened(s)' \subseteq {t}
        BY <1>0, <1>6, <4>1 DEF Opened, RegistryTypeOK
      <4>3. Loaded(s)' /\ subs'[s].status # "approved"
        BY <1>3, <4>1 DEF Loaded
      <4> QED
        BY <2>3, <4>2, <4>3 DEF InHand, Ticketing
    <3>2. On(h, s)'
      BY <2>1, <2>2, <2>3, WorkFields DEF On
    <3> QED
      BY <1>2, <1>6, <2>2, <3>1, <3>2, FollowedFrame DEF ShaInv
  <2> QED
    BY <2>5, <2>6, <2>7, <2>8, <2>9 DEF RegistryInv, ShaInv
<1>7. CASE AsksOn(h) /\ tickets' = tickets /\ issued' = issued /\ astray' = astray
  BY <1>0, <1>5, <1>7 DEF RegistryTypeOK
<1>8. ASSUME NEW t \in TicketIds \ issued,
             issued' = issued \cup {t}, tickets' = [tickets EXCEPT ![t] = s],
             AsksOn(h), astray' = astray \cup {s}
      PROVE  RegistryInv'
  BY <1>0, <1>5, <1>8 DEF RegistryTypeOK
<1> QED
  BY <1>4, <1>6, <1>7, <1>8

\* A step of the request h on s leaves the other digests alone.
LEMMA OneSha ==
  ASSUME RegistryInv, NEW h \in Handlers, NEW s \in Shas, On(h, s), RegistryTypeOK',
         \A g \in Handlers : g # h => work'[g] = work[g],
         work'[h] # NoSub => work'[h].sha = s,
         \A u \in Shas : u # s =>
             /\ subs'[u] = subs[u] /\ tokens'[u] = tokens[u] /\ told'[u] = told[u]
             /\ u \in doubt' <=> u \in doubt
             /\ u \in astray' <=> u \in astray
             /\ \A t \in TicketIds : tickets'[t] = u => tickets[t] = u,
         LoneOn(s)', Answered(s)', Followed(s)'
  PROVE  RegistryInv'
<1>1. ASSUME NEW u \in Shas, u # s PROVE ShaInv(u)'
  BY <1>1, OtherShas DEF RegistryInv, On
<1>2. ShaInv(s)'
  BY DEF ShaInv
<1> QED
  BY <1>1, <1>2 DEF RegistryInv

\* What is known of s when its request h is at a step.
LEMMA AtSha ==
  ASSUME RegistryInv, NEW h \in Handlers, NEW at, At(h, at)
  PROVE  \E s \in Shas : /\ work[h].sha = s /\ On(h, s) /\ work[h] \in Work
                         /\ work[h].at = at /\ work[h].rec \in Sub
                         /\ LoneOn(s) /\ Answered(s) /\ Followed(s)
BY AtWork DEF RegistryInv, ShaInv

\* The record the task reads again is the one on file, with its ticket; none ends it.
LEMMA ReloadKeeps ==
  ASSUME RegistryInv, NEW h \in Handlers, TicketReload(h)
  PROVE  RegistryInv'
<1>0. RegistryTypeOK /\ At(h, "reload")
  BY DEF RegistryInv, TicketReload
<1>1. PICK s \in Shas : /\ work[h].sha = s /\ On(h, s) /\ work[h] \in Work
                        /\ work[h].at = "reload" /\ work[h].rec \in Sub
                        /\ LoneOn(s) /\ Answered(s) /\ Followed(s)
  BY <1>0, AtSha
<1>2. /\ subs' = subs /\ tokens' = tokens /\ signing' = signing /\ told' = told
      /\ doubt' = doubt /\ astray' = astray /\ tickets' = tickets /\ issued' = issued
  BY DEF TicketReload
<1>3. PICK rec : rec = [subs[s] EXCEPT !.ticket = work[h].ticket]
  OBVIOUS
<1>4. Loaded(s) => /\ rec \in Sub /\ rec.ticket = work[h].ticket
                   /\ rec.status = subs[s].status
  <2>1. work[h].ticket \in TicketIds \cup {NoSub}
    BY <1>1, WorkFields
  <2>2. ASSUME NEW r \in Sub, r = subs[s]
        PROVE  /\ rec \in Sub /\ rec.ticket = work[h].ticket
               /\ rec.status = subs[s].status
    <3>1. rec = [r EXCEPT !.ticket = work[h].ticket]
      BY <1>3, <2>2
    <3> QED
      BY <2>1, <2>2, <3>1 DEF Sub
  <2> QED
    BY <2>2 DEF Loaded
<1>5. \/ Loaded(s) /\ work' = [work EXCEPT ![h] = [work[h] EXCEPT !.at = "store", !.rec = rec]]
      \/ ~Loaded(s) /\ Ends(h)
  <2>1. work[h].sha = s /\ work \in [Handlers -> Work \cup {NoSub}]
    BY <1>0, <1>1 DEF RegistryTypeOK
  <2>2. IF Loaded(s)
        THEN work' = [work EXCEPT ![h].at = "store", ![h].rec = rec]
        ELSE Ends(h)
    BY <1>3, <2>1 DEF TicketReload
  <2> QED
    BY <2>1, <2>2
<1>6. /\ work' \in [Handlers -> Work \cup {NoSub}]
      /\ \A g \in Handlers : g # h => work'[g] = work[g]
      /\ work'[h] # NoSub => /\ work'[h].at = "store" /\ work'[h].sha = s
                             /\ work'[h].rec = rec /\ work'[h].ticket = work[h].ticket
                             /\ work'[h].alone = work[h].alone
      /\ Loaded(s) => work'[h] # NoSub
  <2>1. CASE Loaded(s)
    <3>1. [work[h] EXCEPT !.at = "store", !.rec = rec] \in Work
      BY <1>1, <1>4, <2>1 DEF Work
    <3>2. [work[h] EXCEPT !.at = "store", !.rec = rec] # NoSub
      BY <3>1, WorkFields
    <3>3. /\ [work[h] EXCEPT !.at = "store", !.rec = rec].at = "store"
          /\ [work[h] EXCEPT !.at = "store", !.rec = rec].sha = s
          /\ [work[h] EXCEPT !.at = "store", !.rec = rec].rec = rec
          /\ [work[h] EXCEPT !.at = "store", !.rec = rec].ticket = work[h].ticket
          /\ [work[h] EXCEPT !.at = "store", !.rec = rec].alone = work[h].alone
      BY <1>1 DEF Work
    <3>4. /\ work'[h] = [work[h] EXCEPT !.at = "store", !.rec = rec]
          /\ \A g \in Handlers : g # h => work'[g] = work[g]
          /\ work' \in [Handlers -> Work \cup {NoSub}]
      BY <1>0, <1>5, <2>1, <3>1 DEF RegistryTypeOK
    <3> QED
      BY <3>2, <3>3, <3>4
  <2>2. CASE ~Loaded(s)
    BY <1>0, <1>5, <2>2, EndsWork
  <2> QED
    BY <2>1, <2>2
<1>7. RegistryTypeOK'
  BY <1>0, <1>2, <1>6 DEF RegistryTypeOK
<1>8. LoneOn(s)'
  <2>1. work[h].alone => told[s] = "submitted"
    BY <1>1 DEF LoneOn
  <2> QED
    BY <1>1, <1>2, <1>6, <2>1, LoneFrame DEF On
<1>9. Answered(s)'
  <2>1. (\A g \in Handlers : On(g, s)' => work'[g].at \notin {"grant", "revoke"})
          => \A g \in Handlers : On(g, s) => work[g].at \notin {"grant", "revoke"}
    BY <1>1, <1>6 DEF On
  <2> QED
    BY <1>1, <1>2, <2>1 DEF Answered, Stands, Loaded
<1>10. Followed(s)'
  <2>1. ASSUME InHand(h, s) PROVE On(h, s)' /\ InHand(h, s)' /\ work'[h].at \in Ticketing
    <3>1. Opened(s) \subseteq {work[h].ticket} /\ Loaded(s) /\ subs[s].status # "approved"
      BY <1>1, <2>1 DEF InHand
    <3>2. Opened(s)' = Opened(s)
      BY <1>2 DEF Opened
    <3> QED
      BY <1>4, <1>6, <3>1, <3>2 DEF InHand, On, Ticketing
  <2> QED
    BY <1>1, <1>2, <1>6, <2>1, FollowedFrame
<1> QED
  BY <1>1, <1>2, <1>6, <1>7, <1>8, <1>9, <1>10, OneSha

\* The ticket goes from the task's hand into the record.
LEMMA StoreKeeps ==
  ASSUME RegistryInv, NEW h \in Handlers, TicketStore(h)
  PROVE  RegistryInv'
<1>0. RegistryTypeOK /\ At(h, "store") /\ Ends(h)
  BY DEF RegistryInv, TicketStore
<1>1. PICK s \in Shas : /\ work[h].sha = s /\ On(h, s) /\ work[h] \in Work
                        /\ work[h].at = "store" /\ work[h].rec \in Sub
                        /\ LoneOn(s) /\ Answered(s) /\ Followed(s)
  BY <1>0, AtSha
<1>2. /\ tokens' = tokens /\ signing' = signing /\ told' = told
      /\ doubt' = doubt /\ astray' = astray /\ tickets' = tickets /\ issued' = issued
      /\ subs' \in [Shas -> Sub \cup {NoSub, TornFile}]
      /\ subs'[s] = work[h].rec /\ \A u \in Shas : u # s => subs'[u] = subs[u]
  BY <1>0, <1>1 DEF TicketStore, save_submission, RegistryTypeOK
<1>3. /\ work' \in [Handlers -> Work \cup {NoSub}] /\ work'[h] = NoSub
      /\ \A g \in Handlers : g # h => work'[g] = work[g]
  BY <1>0, EndsWork
<1>4. RegistryTypeOK'
  BY <1>0, <1>2, <1>3 DEF RegistryTypeOK
<1>5. LoneOn(s)'
  BY <1>1, <1>2, <1>3, LoneFrame DEF On
<1>6. Answered(s)'
  <2>1. s \notin doubt => told'[s] = "submitted"
    BY <1>1, <1>2 DEF LoneOn
  <2> QED
    BY <1>2, <2>1 DEF Answered, Stands
<1>7. Followed(s)'
  <2>1. ASSUME InHand(h, s) PROVE Tracked(s)'
    <3>1. /\ Opened(s) \subseteq {work[h].ticket} /\ work[h].rec.ticket = work[h].ticket
          /\ work[h].rec.status # "approved"
      BY <1>1, <2>1 DEF InHand
    <3>2. Opened(s)' = Opened(s)
      BY <1>2 DEF Opened
    <3> QED
      BY <1>1, <1>2, <3>1, <3>2 DEF Tracked, Loaded
  <2>2. ~On(h, s)'
    BY <1>3 DEF On
  <2> QED
    BY <1>1, <1>2, <1>3, <2>1, <2>2, FollowedFrame
<1> QED
  BY <1>1, <1>2, <1>3, <1>4, <1>5, <1>6, <1>7, OneSha

\* The signing key is none of the files that were answered about.
LEMMA SigningKeyKeeps ==
  ASSUME RegistryInv, NEW h \in Handlers, load_or_create_signing_key(h)
  PROVE  RegistryInv'
<1>0. RegistryTypeOK /\ At(h, "key") /\ (Ends(h) \/ Moves(h, "token"))
  BY DEF RegistryInv, load_or_create_signing_key
<1>1. PICK s \in Shas : /\ work[h].sha = s /\ On(h, s) /\ work[h] \in Work
                        /\ work[h].at = "key" /\ work[h].rec \in Sub
                        /\ LoneOn(s) /\ Answered(s) /\ Followed(s)
  BY <1>0, AtSha
<1>2. /\ subs' = subs /\ tokens' = tokens /\ told' = told /\ signing' \in {signing, "whole"}
      /\ doubt' = doubt /\ astray' = astray /\ tickets' = tickets /\ issued' = issued
  BY DEF load_or_create_signing_key
<1>3. /\ work' \in [Handlers -> Work \cup {NoSub}]
      /\ \A g \in Handlers : g # h => work'[g] = work[g]
      /\ work'[h] # NoSub => /\ work'[h].at = "token" /\ work'[h].sha = s
                             /\ work'[h].rec = work[h].rec
                             /\ work'[h].alone = work[h].alone
  BY <1>0, <1>1, MovesWork, EndsWork DEF Steps
<1>4. RegistryTypeOK'
  BY <1>0, <1>2, <1>3 DEF RegistryTypeOK
<1>5. LoneOn(s)'
  BY <1>1, <1>2, <1>3, LoneFrame DEF On
<1>6. Answered(s)'
  <2>1. (\A g \in Handlers : On(g, s)' => work'[g].at \notin {"grant", "revoke"})
          => \A g \in Handlers : On(g, s) => work[g].at \notin {"grant", "revoke"}
    BY <1>1, <1>3 DEF On
  <2> QED
    BY <1>1, <1>2, <2>1 DEF Answered, Stands, Loaded
<1>7. Followed(s)'
  <2>1. Tracked(s)' = Tracked(s)
    BY <1>2 DEF Tracked, Opened, Loaded
  <2>2. InHand(h, s) /\ On(h, s)' => InHand(h, s)'
    BY <1>1, <1>2, <1>3 DEF InHand, On
  <2> QED
    BY <1>1, <1>2, <1>3, <2>1, <2>2, FollowedFrame DEF Ticketing
<1> QED
  BY <1>1, <1>2, <1>3, <1>4, <1>5, <1>6, <1>7, OneSha

\* The token of a request's digest changes, and its record is next.
LEMMA TokenKeeps ==
  ASSUME RegistryInv, NEW h \in Handlers, ApproveToken(h) \/ RevokeUnlink(h)
  PROVE  RegistryInv'
<1>0. PICK at \in {"token", "unlink"}, next \in {"grant", "revoke"},
           token \in {"ours", "none", "left"} :
        /\ at = "token" <=> next = "grant"
        /\ next = "grant" <=> token = "ours"
        /\ At(h, at) /\ Moves(h, next) /\ tokens' = [tokens EXCEPT ![work[h].sha] = token]
  BY DEF ApproveToken, RevokeUnlink
<1>1. PICK s \in Shas : /\ work[h].sha = s /\ On(h, s) /\ work[h] \in Work
                        /\ work[h].at = at /\ work[h].rec \in Sub
                        /\ LoneOn(s) /\ Answered(s) /\ Followed(s)
  BY <1>0, AtSha
<1>2. /\ subs' = subs /\ told' = told /\ signing' = signing
      /\ doubt' = doubt /\ astray' = astray /\ tickets' = tickets /\ issued' = issued
  BY DEF ApproveToken, RevokeUnlink
<1>3. RegistryTypeOK
  BY DEF RegistryInv
<1>4. /\ tokens' \in [Shas -> {"none", "ours", "imported", "torn", "left"}] /\ tokens'[s] = token
      /\ \A u \in Shas : u # s => tokens'[u] = tokens[u]
  BY <1>0, <1>1, <1>3 DEF RegistryTypeOK
<1>5. next \in Steps
  BY DEF Steps
<1>6. /\ work' \in [Handlers -> Work \cup {NoSub}]
      /\ \A g \in Handlers : g # h => work'[g] = work[g]
      /\ work'[h] \in Work /\ work'[h] # NoSub /\ work'[h].at = next /\ work'[h].sha = s
      /\ work'[h].rec = work[h].rec /\ work'[h].alone = work[h].alone
  BY <1>0, <1>1, <1>3, <1>5, MovesWork, WorkFields
<1>7. RegistryTypeOK'
  BY <1>2, <1>3, <1>4, <1>6 DEF RegistryTypeOK
<1>8. On(h, s)'
  BY <1>6 DEF On
<1>9. LoneOn(s)'
  <2>1. /\ next = "grant" => tokens'[s] = "ours"
        /\ next = "revoke" => tokens'[s] \in {"none", "left"}
        /\ next \notin {"open", "jira", "reload", "store"}
    BY <1>0, <1>4
  <2> QED
    BY <1>1, <1>2, <1>6, <2>1, LoneFrame
<1>10. Answered(s)'
  BY <1>6, <1>8 DEF Answered
<1>11. Followed(s)'
  <2>1. Tracked(s)' = Tracked(s)
    BY <1>2 DEF Tracked, Opened, Loaded
  <2>2. InHand(h, s) => InHand(h, s)'
    BY <1>1, <1>2, <1>6 DEF InHand
  <2> QED
    BY <1>1, <1>2, <1>6, <2>1, <2>2, FollowedFrame DEF Ticketing
<1> QED
  BY <1>1, <1>2, <1>4, <1>6, <1>7, <1>9, <1>10, <1>11, OneSha

\* A lone approval writes its record after its token.
LEMMA ApproveSaveKeeps ==
  ASSUME RegistryInv, NEW h \in Handlers, ApproveSave(h)
  PROVE  RegistryInv'
<1>0. RegistryTypeOK /\ At(h, "grant")
  BY DEF RegistryInv, ApproveSave
<1>1. PICK s \in Shas : /\ work[h].sha = s /\ On(h, s) /\ work[h] \in Work
                        /\ work[h].at = "grant" /\ work[h].rec \in Sub
                        /\ LoneOn(s) /\ Answered(s) /\ Followed(s)
  BY <1>0, AtSha
<1>2. PICK r \in Sub : r = work[h].rec
  BY <1>1
<1>3. PICK new \in Sub : new = [r EXCEPT !.status = "approved"]
  BY DEF Sub
<1>4. new.status = "approved" /\ new.ticket = r.ticket
  BY <1>3 DEF Sub
<1>5. /\ tokens' = tokens /\ signing' = signing
      /\ astray' = astray /\ tickets' = tickets /\ issued' = issued
      /\ subs' = [subs EXCEPT ![s] = new] /\ told' = [told EXCEPT ![s] = "approved"]
      /\ doubt' = IF work[h].alone THEN doubt \ {s} ELSE doubt
      /\ IF r.ticket = NoSub THEN Ends(h) ELSE Moves(h, "close")
  BY <1>1, <1>2, <1>3 DEF ApproveSave, Says, save_submission
<1>6. /\ subs' \in [Shas -> Sub \cup {NoSub, TornFile}] /\ subs'[s] = new
      /\ told' \in [Shas -> {"nothing", "submitted", "approved", "revoked", "imported"}]
      /\ told'[s] = "approved"
      /\ \A u \in Shas : u # s => subs'[u] = subs[u] /\ told'[u] = told[u]
  BY <1>0, <1>5 DEF RegistryTypeOK
<1>7. /\ work' \in [Handlers -> Work \cup {NoSub}]
      /\ \A g \in Handlers : g # h => work'[g] = work[g]
      /\ work'[h] # NoSub => /\ work'[h].at = "close" /\ work'[h].sha = s
                             /\ work'[h].rec = r /\ work'[h].alone = work[h].alone
      /\ r.ticket = NoSub \/ work'[h] # NoSub
  <2>1. CASE r.ticket = NoSub
    BY <1>0, <1>5, <2>1, EndsWork
  <2>2. CASE r.ticket # NoSub
    BY <1>0, <1>1, <1>2, <1>5, <2>2, MovesWork, WorkFields DEF Steps
  <2> QED
    BY <2>1, <2>2
<1>8. RegistryTypeOK'
  BY <1>0, <1>5, <1>6, <1>7 DEF RegistryTypeOK
<1>9. LoneOn(s)'
  BY <1>1, <1>5, <1>7, LoneFrame DEF On
<1>10. Answered(s)'
  <2>1. ASSUME s \notin doubt' PROVE Stands(s)'
    <3>1. work[h].alone
      BY <1>1, <1>5, <2>1 DEF LoneOn
    <3>2. tokens'[s] = "ours"
      BY <1>1, <1>5, <3>1 DEF LoneOn
    <3> QED
      BY <1>4, <1>6, <3>2 DEF Stands, Loaded
  <2> QED
    BY <2>1 DEF Answered
<1>11. Followed(s)'
  <2>1. ASSUME InHand(h, s), Tracked(s)
        PROVE  /\ On(h, s)' => InHand(h, s)'
               /\ (On(h, s)' => work'[h].at \notin Ticketing) => Tracked(s)'
    <3>1. subs[s] = r
      BY <1>1, <1>2, <2>1 DEF InHand
    <3>2. Opened(s)' = Opened(s)
      BY <1>5 DEF Opened
    <3>3. Opened(s) \subseteq {r.ticket}
      BY <2>1, <3>1 DEF Tracked
    <3>4. On(h, s)' => InHand(h, s)'
      BY <1>7, <3>2, <3>3 DEF On, InHand
    <3>5. r.ticket = NoSub => Opened(s)' = {}
      BY <3>2, <3>3, RegistryConstants DEF Opened
    <3>6. (On(h, s)' => work'[h].at \notin Ticketing) => r.ticket = NoSub
      BY <1>7 DEF On, Ticketing
    <3> QED
      BY <3>4, <3>5, <3>6 DEF Tracked
  <2> QED
    BY <1>1, <1>5, <1>7, <2>1, FollowedFrame DEF Ticketing
<1> QED
  BY <1>1, <1>5, <1>6, <1>7, <1>8, <1>9, <1>10, <1>11, OneSha

\* A lone revocation writes its record after it has removed the token or failed to.
LEMMA RevokeSaveKeeps ==
  ASSUME RegistryInv, NEW h \in Handlers, RevokeSave(h)
  PROVE  RegistryInv'
<1>0. RegistryTypeOK /\ At(h, "revoke") /\ Ends(h)
  BY DEF RegistryInv, RevokeSave
<1>1. PICK s \in Shas : /\ work[h].sha = s /\ On(h, s) /\ work[h] \in Work
                        /\ work[h].at = "revoke" /\ work[h].rec \in Sub
                        /\ LoneOn(s) /\ Answered(s) /\ Followed(s)
  BY <1>0, AtSha
<1>2. PICK r \in Sub : r = work[h].rec
  BY <1>1
<1>3. PICK new \in Sub : new = [r EXCEPT !.status = "revoked"]
  BY DEF Sub
<1>4. new.status = "revoked" /\ new.ticket = r.ticket
  BY <1>3 DEF Sub
<1>5. /\ tokens' = tokens /\ signing' = signing
      /\ astray' = astray /\ tickets' = tickets /\ issued' = issued
      /\ subs' = [subs EXCEPT ![s] = new] /\ told' = [told EXCEPT ![s] = "revoked"]
      /\ doubt' = IF work[h].alone THEN doubt \ {s} ELSE doubt
  BY <1>1, <1>2, <1>3 DEF RevokeSave, Says, save_submission
<1>6. /\ subs' \in [Shas -> Sub \cup {NoSub, TornFile}] /\ subs'[s] = new
      /\ told' \in [Shas -> {"nothing", "submitted", "approved", "revoked", "imported"}]
      /\ told'[s] = "revoked"
      /\ \A u \in Shas : u # s => subs'[u] = subs[u] /\ told'[u] = told[u]
  BY <1>0, <1>5 DEF RegistryTypeOK
<1>7. /\ work' \in [Handlers -> Work \cup {NoSub}] /\ work'[h] = NoSub
      /\ \A g \in Handlers : g # h => work'[g] = work[g]
  BY <1>0, EndsWork
<1>8. RegistryTypeOK'
  BY <1>0, <1>5, <1>6, <1>7 DEF RegistryTypeOK
<1>9. LoneOn(s)'
  BY <1>1, <1>5, <1>7, LoneFrame DEF On
<1>10. Answered(s)'
  <2>1. ASSUME s \notin doubt' PROVE Stands(s)'
    <3>1. work[h].alone
      BY <1>1, <1>5, <2>1 DEF LoneOn
    <3>2. tokens'[s] \in {"none", "left"}
      BY <1>1, <1>5, <3>1 DEF LoneOn
    <3> QED
      BY <1>4, <1>6, <3>2 DEF Stands, Loaded
  <2> QED
    BY <2>1 DEF Answered
<1>11. Followed(s)'
  <2>1. ASSUME InHand(h, s), Tracked(s) PROVE Tracked(s)'
    <3>1. subs[s] = r /\ Opened(s)' = Opened(s)
      BY <1>1, <1>2, <1>5, <2>1 DEF InHand, Opened
    <3> QED
      BY <1>4, <1>6, <2>1, <3>1 DEF Tracked, Loaded
  <2>2. ~On(h, s)'
    BY <1>7 DEF On
  <2> QED
    BY <1>1, <1>5, <1>7, <2>1, <2>2, FollowedFrame DEF Ticketing
<1> QED
  BY <1>1, <1>5, <1>6, <1>7, <1>8, <1>9, <1>10, <1>11, OneSha

\* The ticket that is closed is the one of the record; a failure leads it astray.
LEMMA CloseTicketKeeps ==
  ASSUME RegistryInv, NEW h \in Handlers, close_ticket(h)
  PROVE  RegistryInv'
<1>0. RegistryTypeOK /\ At(h, "close") /\ Ends(h)
  BY DEF RegistryInv, close_ticket
<1>1. PICK s \in Shas : /\ work[h].sha = s /\ On(h, s) /\ work[h] \in Work
                        /\ work[h].at = "close" /\ work[h].rec \in Sub
                        /\ LoneOn(s) /\ Answered(s) /\ Followed(s)
  BY <1>0, AtSha
<1>2. /\ subs' = subs /\ tokens' = tokens /\ told' = told /\ signing' = signing
      /\ doubt' = doubt /\ issued' = issued
      /\ astray \subseteq astray' /\ astray' \subseteq astray \cup {s}
  BY <1>1 DEF close_ticket
<1>3. /\ tickets' \in [TicketIds -> Shas \cup {NoSub}]
      /\ \A t \in TicketIds : tickets'[t] \in {tickets[t], NoSub}
      /\ s \notin astray' => tickets' = [tickets EXCEPT ![work[h].rec.ticket] = NoSub]
  BY <1>0, <1>1 DEF close_ticket, RegistryTypeOK
<1>4. /\ work' \in [Handlers -> Work \cup {NoSub}] /\ work'[h] = NoSub
      /\ \A g \in Handlers : g # h => work'[g] = work[g]
  BY <1>0, EndsWork
<1>5. RegistryTypeOK'
  BY <1>0, <1>2, <1>3, <1>4 DEF RegistryTypeOK
<1>6. \A u \in Shas, t \in TicketIds : tickets'[t] = u => tickets[t] = u
  BY <1>3, RegistryConstants
<1>7. LoneOn(s)'
  BY <1>1, <1>2, <1>4, LoneFrame DEF On
<1>8. Answered(s)'
  <2>1. (\A g \in Handlers : On(g, s)' => work'[g].at \notin {"grant", "revoke"})
          => \A g \in Handlers : On(g, s) => work[g].at \notin {"grant", "revoke"}
    BY <1>1, <1>4 DEF On
  <2> QED
    BY <1>1, <1>2, <2>1 DEF Answered, Stands, Loaded
<1>9. Followed(s)'
  <2>1. ASSUME s \notin astray', InHand(h, s) PROVE Tracked(s)'
    <3>1. Opened(s) \subseteq {work[h].rec.ticket}
      BY <1>1, <2>1 DEF InHand
    <3>2. ASSUME NEW t \in TicketIds, tickets'[t] = s PROVE FALSE
      <4>1. t = work[h].rec.ticket
        BY <1>6, <3>1, <3>2 DEF Opened
      <4> QED
        BY <1>0, <1>3, <2>1, <3>2, <4>1, RegistryConstants DEF RegistryTypeOK
    <3> QED
      BY <3>2 DEF Tracked, Opened
  <2>2. ~On(h, s)'
    BY <1>4 DEF On
  <2> QED
    BY <1>1, <1>2, <1>4, <2>1, <2>2, FollowedFrame
<1>10. \A u \in Shas : u # s => (u \in astray' <=> u \in astray)
  BY <1>2
<1> QED
  BY <1>1, <1>2, <1>4, <1>5, <1>6, <1>7, <1>8, <1>9, <1>10, OneSha

\* A failed write leaves its digest in doubt, and its ticket astray.
LEMMA WriteFailsKeeps ==
  ASSUME RegistryInv, NEW h \in Handlers, WriteFails(h)
  PROVE  RegistryInv'
<1>0. RegistryTypeOK /\ Ends(h)
  BY DEF RegistryInv, WriteFails
<1>1. PICK at : At(h, at)
  BY DEF WriteFails
<1>2. PICK s \in Shas : work[h].sha = s /\ On(h, s) /\ LoneOn(s)
  BY <1>1, AtSha
<1>3. /\ subs' \in [Shas -> Sub \cup {NoSub, TornFile}]
      /\ tokens' \in [Shas -> {"none", "ours", "imported", "torn", "left"}]
      /\ signing' \in {"none", "whole", "torn"}
      /\ \A u \in Shas : u # s => subs'[u] = subs[u] /\ tokens'[u] = tokens[u]
  <2>1. CASE Cut(h)
    BY <1>0, <1>2, <2>1, CutFiles
  <2>2. CASE UNCHANGED << subs, tokens, signing >>
    BY <1>0, <2>2 DEF RegistryTypeOK
  <2> QED
    BY <2>1, <2>2 DEF WriteFails
<1>4. /\ tickets' = tickets /\ issued' = issued /\ told' = told
      /\ doubt' = doubt \cup {s} /\ astray' = astray \cup {s}
  BY <1>2 DEF WriteFails
<1>5. /\ work' \in [Handlers -> Work \cup {NoSub}] /\ work'[h] = NoSub
      /\ \A g \in Handlers : g # h => work'[g] = work[g]
  BY <1>0, EndsWork
<1>6. RegistryTypeOK'
  BY <1>0, <1>3, <1>4, <1>5 DEF RegistryTypeOK
<1>7. LoneOn(s)'
  BY <1>2, <1>4, <1>5, LoneFrame DEF On
<1>8. Answered(s)' /\ Followed(s)'
  BY <1>4 DEF Answered, Followed
<1> QED
  BY <1>2, <1>3, <1>4, <1>5, <1>6, <1>7, <1>8, OneSha

\* Every step keeps RegistryInv, action by action.
LEMMA RegistryKept == RegistryInv /\ [RegistryNext]_regvars => RegistryInv'
<1> SUFFICES ASSUME RegistryInv, [RegistryNext]_regvars PROVE RegistryInv'
  OBVIOUS
<1>1. CASE RegistryRequest
  BY <1>1, RegistryRequestKeeps, ImportKeeps DEF RegistryRequest
<1>2. CASE RegistryStep
  BY <1>2, SubmitSaveKeeps, OpenTicketKeeps, ReloadKeeps, StoreKeeps, SigningKeyKeeps,
     TokenKeeps, ApproveSaveKeeps, CloseTicketKeeps, RevokeSaveKeeps, WriteFailsKeeps
     DEF RegistryStep
<1>3. CASE RegistryCrash
  BY <1>3, RegistryCrashKeeps
<1>4. CASE UNCHANGED regvars
  <2>1. RegistryTypeOK'
    BY <1>4 DEF regvars, RegistryInv, RegistryTypeOK
  <2>2. ASSUME NEW s \in Shas PROVE ShaInv(s)'
    <3>1. ShaInv(s) /\ \A h \in Handlers : On(h, s)' = On(h, s)
      BY <1>4 DEF regvars, RegistryInv, On
    <3> QED
      BY <1>4, <3>1, ShaElsewhere DEF regvars
  <2> QED
    BY <2>1, <2>2 DEF RegistryInv
<1> QED
  BY <1>1, <1>2, <1>3, <1>4 DEF RegistryNext

\* With nobody at work on a digest, Answered and Followed are what RegistrySound says.
LEMMA RegistryInvSound == RegistryInv => RegistrySound
<1> SUFFICES ASSUME RegistryInv PROVE AnswersStand /\ TicketsTracked
  BY DEF RegistryInv, RegistrySound
<1>1. ASSUME NEW s \in Shas, Busy(s) = {}
      PROVE  (s \notin doubt => Stands(s)) /\ (s \notin astray => Tracked(s))
  <2>1. \A h \in Handlers : ~On(h, s)
    BY <1>1 DEF Busy, On
  <2> QED
    BY <2>1 DEF RegistryInv, ShaInv, Answered, Followed
<1>2. AnswersStand
  BY <1>1 DEF AnswersStand, Stands
<1>3. ASSUME NEW t \in TicketIds, tickets[t] # NoSub, tickets[t] \notin astray,
             Busy(tickets[t]) = {}
      PROVE  /\ Loaded(tickets[t]) /\ subs[tickets[t]].ticket = t
             /\ subs[tickets[t]].status # "approved"
  <2>1. PICK s \in Shas : s = tickets[t]
    BY <1>3 DEF RegistryInv, RegistryTypeOK
  <2>2. Tracked(s) /\ t \in Opened(s)
    BY <1>1, <1>3, <2>1 DEF Opened
  <2> QED
    BY <2>1, <2>2 DEF Tracked
<1> QED
  BY <1>2, <1>3 DEF TicketsTracked

\* What submit, approve and revoke answered of a model is what its record says, and
\* its token too but for one that revoke could not remove; every open ticket is the
\* one its model's record names. This holds for any number of requests at once,
\* ticket tasks and crashes, unless requests on one digest overlapped, one was
\* interrupted or a write of it failed, or the ticket system closed no ticket or lost
\* its answer (the handlers take no lock and write record, token and ticket in turn).
THEOREM AnswersStayTrue == GovernanceSpec => []RegistrySound
<1>1. GovernanceInit => RegistryInv
  BY RegistryStart DEF GovernanceInit
<1>2. RegistryInv /\ [GovernanceNext]_govvars => RegistryInv'
  BY StepOfRegistry, RegistryKept
<1> QED
  BY <1>1, <1>2, RegistryInvSound, PTL DEF GovernanceSpec, GovernanceNext

-----------------------------------------------------------------------------
(* Legal holds. *)

\* What a step of the daemon is to its holds.
HoldNext == HoldRequest \/ HoldStep \/ HoldCrash

\* A step of the daemon is one about holds, or leaves them alone.
LEMMA StepOfHolds == [GovernanceNext]_govvars => [HoldNext]_holdvars
BY DEF GovernanceNext, govvars, HoldNext, Request, Step, Crash

Writes(c) == Doing(c, "sign") \/ Doing(c, "save") \/ Doing(c, "release")
Generates(c)  == Doing(c, "pub") \/ Doing(c, "key") \/ Doing(c, "seal")

\* The request, if any, neither makes keys nor places a hold.
Idle(c) == desk[c] = None \/ Doing(c, "release")

\* Without an overlap or a crash, a key generation meets releases at most, hold.pub
\* is one file ahead of hold.key, and a placement has read the present hold.pub.
KeysInv ==
    ~mixed =>
        /\ (\A c \in Clerks : ~Generates(c)) => hold_pub = hold_key
        /\ \A c \in Clerks :
             /\ Generates(c) => \A d \in Clerks : d # c => Idle(d)
             /\ Doing(c, "key") => hold_pub = desk[c].key
             /\ Doing(c, "seal") => hold_pub = hold_key
             /\ Doing(c, "sign") => desk[c].rec.hold_key_pubkey = hold_pub

\* What is about to be written is signed by the key it names.
JobSigned(c) ==
    Doing(c, "save") \/ Doing(c, "release") =>
        mixed \/ desk[c].rec.own \/ desk[c].rec.placed_with = desk[c].rec.hold_key_pubkey

\* A key that a hold names, or that holds are placed under.
InUse(k) ==
    \/ k = hold_pub
    \/ \E d \in Clerks : Writes(d) /\ desk[d].rec.hold_key_pubkey = k
    \/ \E i \in Ids : OnFile(i) /\ holds[i].hold_key_pubkey = k
    \/ \E i \in Ids : promised[i] # None /\ promised[i].hold_key_pubkey = k

\* A pair that is being written to hold.pub is nobody else's.
NewKeys ==
    \A c \in Clerks : Doing(c, "pub") =>
        /\ ~InUse(desk[c].key)
        /\ \A d \in Clerks : Doing(d, "pub") /\ desk[d].key = desk[c].key => d = c

Same(r, q) == r.hold_key_pubkey = q.hold_key_pubkey /\ r.from = q.from /\ r.to = q.to

\* A confirmed hold is on file, and who releases a hold has what is on file.
Kept(i) ==
    i \notin clobbered \cup lost =>
        /\ promised[i] # None =>
             /\ OnFile(i) /\ Same(holds[i], promised[i])
             /\ promised[i].hold_key_pubkey = hold_pub => ~holds[i].released
        /\ \A c \in Clerks : Doing(c, "release") /\ desk[c].id = i =>
             OnFile(i) /\ Same(desk[c].rec, holds[i])

\* A placement writes a hold that stands; a release has seen a signature of the
\* key of its hold, unless that key was replaced.
JobInv(c) ==
    /\ Doing(c, "sign") \/ Doing(c, "save") => ~desk[c].rec.released
    /\ Doing(c, "release") =>
         /\ holds[desk[c].id] # None
         /\ \/ desk[c].rec.hold_key_pubkey # hold_pub
            \/ \E s \in sigs : s.id = desk[c].id /\ s.key = desk[c].rec.hold_key_pubkey

HoldInv ==
    /\ HoldTypeOK /\ KeysInv /\ NewKeys
    /\ \A c \in Clerks : JobSigned(c) /\ JobInv(c)
    /\ \A i \in Ids : Kept(i)
    /\ HoldsSignedByTheirKey

\* There are no holds, and hold.pub and hold.key are of one pair.
LEMMA HoldStart == HoldInit => HoldInv
<1> SUFFICES ASSUME HoldInit PROVE HoldInv
  OBVIOUS
<1>1. HoldTypeOK
  <2>1. now \in Instant
    BY HoldConstants DEF HoldInit, Instant
  <2>2. desk \in [Clerks -> HoldJob \cup {None}] /\ mixed \in BOOLEAN
    BY DEF HoldInit
  <2>3. holds \in [Ids -> Hold \cup {None, Torn}] /\ promised \in [Ids -> Hold \cup {None}]
    BY DEF HoldInit
  <2> QED
    BY <2>1, <2>2, <2>3 DEF HoldInit, HoldTypeOK
<1>2. /\ \A c \in Clerks : \A op : ~Doing(c, op)
      /\ \A i \in Ids : ~OnFile(i) /\ promised[i] = None
      /\ hold_pub = hold_key
  BY HoldConstants DEF HoldInit, Doing, OnFile
<1>3. KeysInv /\ NewKeys
  BY <1>2 DEF KeysInv, NewKeys, Generates
<1>4. \A c \in Clerks : JobSigned(c) /\ JobInv(c)
  BY <1>2 DEF JobSigned, JobInv
<1>5. (\A i \in Ids : Kept(i)) /\ HoldsSignedByTheirKey
  BY <1>2 DEF Kept, HoldsSignedByTheirKey
<1> QED
  BY <1>1, <1>3, <1>4, <1>5 DEF HoldInv

\* What the type of a request under way says of its fields.
LEMMA JobFields ==
  ASSUME HoldTypeOK, NEW c \in Clerks
  PROVE  /\ Generates(c) => desk[c].key \in HoldKeys /\ desk[c].seal \in BOOLEAN
         /\ Writes(c) => desk[c].id \in Ids /\ desk[c].rec \in Hold
         /\ Generates(c) => ~Writes(c)
         /\ desk[c] # None => Generates(c) \/ Writes(c)
         /\ Generates(c) <=> c \in Generating
<1>1. desk[c] \in HoldJob \cup {None}
  BY DEF HoldTypeOK
<1> QED
  BY <1>1, HoldConstants DEF HoldJob, Generates, Writes, Doing, Generating

\* What a hold's type says of its fields.
LEMMA HoldFields ==
  ASSUME NEW r \in Hold
  PROVE  /\ r # None /\ r # Torn /\ r.hold_key_pubkey \in HoldKeys /\ r.own \in BOOLEAN
         /\ r.released \in BOOLEAN
BY HoldConstants DEF Hold

\* A step of the request of c.
LEMMA OtherClerks ==
  ASSUME NEW c \in Clerks, \A d \in Clerks : d # c => desk'[d] = desk[d]
  PROVE  \A d \in Clerks : d # c => /\ \A op : Doing(d, op)' = Doing(d, op)
                                    /\ Generates(d)' = Generates(d) /\ Writes(d)' = Writes(d)
<1>1. ASSUME NEW d \in Clerks, d # c, NEW op PROVE Doing(d, op)' = Doing(d, op)
  BY <1>1 DEF Doing
<1> QED
  BY <1>1 DEF Generates, Writes

\* A step keeps what is known of a request that it leaves alone.
LEMMA JobOther ==
  ASSUME NEW c \in Clerks, desk'[c] = desk[c], JobSigned(c), JobInv(c), mixed => mixed',
         hold_pub' = hold_pub \/ (Writes(c) => desk[c].rec.hold_key_pubkey # hold_pub'),
         sigs \subseteq sigs',
         Writes(c) /\ holds[desk[c].id] # None => holds'[desk[c].id] # None
  PROVE  JobSigned(c)' /\ JobInv(c)'
<1>1. \A op : Doing(c, op)' = Doing(c, op)
  BY DEF Doing
<1>2. JobSigned(c)'
  BY <1>1 DEF JobSigned
<1>3. Doing(c, "release") => Writes(c)
  BY DEF Writes
<1>4. JobInv(c)'
  BY <1>1, <1>3 DEF JobInv
<1> QED
  BY <1>2, <1>4

\* A step keeps what was confirmed of a hold that it leaves alone.
LEMMA KeptFrame ==
  ASSUME NEW i \in Ids, Kept(i), holds'[i] = holds[i], promised'[i] = promised[i],
         clobbered \subseteq clobbered', lost \subseteq lost',
         hold_pub' = hold_pub \/ (promised[i] # None => promised[i].hold_key_pubkey # hold_pub'),
         \A c \in Clerks : Doing(c, "release")' =>
             Doing(c, "release") /\ desk'[c] = desk[c]
  PROVE  Kept(i)'
<1>1. OnFile(i)' = OnFile(i)
  BY DEF OnFile
<1> QED
  BY <1>1 DEF Kept

\* A new key stays new while nothing more comes into use.
LEMMA NewKeysFrame ==
  ASSUME NewKeys, \A k : InUse(k)' => InUse(k),
         \A c \in Clerks : Doing(c, "pub")' => Doing(c, "pub") /\ desk'[c].key = desk[c].key
  PROVE  NewKeys'
BY DEF NewKeys

\* generate_key begins with a pair nobody has.
LEMMA GenerateKeeps ==
  ASSUME HoldInv, NEW c \in Clerks, NEW seal \in BOOLEAN, generate_key(c, seal)
  PROVE  HoldInv'
<1>0. HoldTypeOK
  BY DEF HoldInv
<1>1. PICK k \in Fresh : Begins(c, [op |-> "pub", key |-> k, seal |-> seal])
  BY DEF generate_key
<1>2. PICK job : job = [op |-> "pub", key |-> k, seal |-> seal]
  OBVIOUS
<1>3. k \in HoldKeys /\ job.op = "pub" /\ job.key = k
  BY <1>2 DEF Fresh
<1>4. job \in HoldJob
  BY <1>2, <1>3 DEF HoldJob
<1>5. job # None
  BY <1>4, HoldConstants
<1>6. /\ desk[c] = None /\ desk'[c] = job /\ desk' \in [Clerks -> HoldJob \cup {None}]
      /\ \A d \in Clerks : d # c => desk'[d] = desk[d]
  BY <1>0, <1>1, <1>2, <1>4 DEF Begins, HoldTypeOK
<1>7. /\ hold_pub' = hold_pub /\ hold_key' = hold_key /\ sealed' = sealed /\ holds' = holds
      /\ sigs' = sigs /\ kept' = kept /\ now' = now /\ promised' = promised
      /\ clobbered' = clobbered /\ lost' = lost
      /\ mixed' = (mixed \/ \E d \in Clerks : desk[d] # None)
  BY DEF generate_key
<1>8. HoldTypeOK'
  BY <1>0, <1>6, <1>7 DEF HoldTypeOK
<1>9. \A d \in Clerks : d # c => /\ \A op : Doing(d, op)' = Doing(d, op)
                                 /\ Generates(d)' = Generates(d) /\ Writes(d)' = Writes(d)
  BY <1>6, OtherClerks
<1>10. /\ \A op : Doing(c, op)' => op = "pub"
       /\ Doing(c, "pub")' /\ Generates(c)' /\ ~Writes(c)'
       /\ \A op : ~Doing(c, op)
  BY <1>3, <1>5, <1>6 DEF Doing, Generates, Writes
<1>11. KeysInv'
  <2> SUFFICES ASSUME ~mixed'
               PROVE  /\ Generates(c)'
                      /\ \A d \in Clerks : d # c => desk'[d] = None /\ Idle(d)'
                      /\ \A d \in Clerks : Doing(d, "key")' \/ Doing(d, "seal")' \/ Doing(d, "sign")'
                           => FALSE
    <3>1. ASSUME ~mixed' /\ \A d \in Clerks : d # c => desk'[d] = None
          PROVE  \A d \in Clerks : Generates(d)' => d = c
      BY <3>1 DEF Generates, Doing
    <3> QED
      BY <1>10, <3>1 DEF KeysInv
  <2>1. \A d \in Clerks : d # c => desk'[d] = None
    BY <1>6, <1>7
  <2> QED
    BY <1>10, <2>1 DEF Doing, Idle
<1>12. NewKeys'
  <2>1. ASSUME NEW x PROVE InUse(x)' = InUse(x)
    <3>1. \A i \in Ids : OnFile(i)' = OnFile(i)
      BY <1>7 DEF OnFile
    <3>2. \A d \in Clerks : Writes(d)' = Writes(d) /\ (Writes(d) => desk'[d] = desk[d])
      BY <1>6, <1>9, <1>10 DEF Writes
    <3> QED
      BY <1>7, <3>1, <3>2 DEF InUse
  <2>2. ~InUse(k)
    <3>1. ASSUME NEW d \in Clerks, Writes(d) PROVE desk[d].rec.hold_key_pubkey # k
      <4>1. desk[d] # None /\ d \notin Generating
        BY <1>0, <3>1, JobFields DEF Writes, Doing
      <4> QED
        BY <1>1, <4>1 DEF Fresh, KeysOf
    <3>2. k # hold_pub
      BY <1>1 DEF Fresh
    <3>3. \A i \in Ids : OnFile(i) => holds[i].hold_key_pubkey # k
      BY <1>1 DEF Fresh, KeysOf
    <3>4. \A i \in Ids : promised[i] # None => promised[i].hold_key_pubkey # k
      BY <1>1 DEF Fresh, KeysOf
    <3> QED
      BY <3>1, <3>2, <3>3, <3>4 DEF InUse
  <2>3. \A d \in Clerks : d # c /\ Doing(d, "pub") => desk[d].key # k
    <3>1. \A d \in Clerks : Doing(d, "pub") => desk[d] # None /\ d \in Generating
      BY DEF Doing, Generating
    <3> QED
      BY <1>1, <3>1 DEF Fresh
  <2>4. \A d \in Clerks : d # c /\ Doing(d, "pub")' =>
          /\ desk'[d].key = desk[d].key /\ ~InUse(desk[d].key) /\ desk[d].key # k
          /\ \A e \in Clerks : Doing(e, "pub") /\ desk[e].key = desk[d].key => e = d
    BY <1>6, <1>9, <2>3 DEF HoldInv, NewKeys
  <2>5. desk'[c].key = k
    BY <1>3, <1>6
  <2> QED
    BY <1>6, <1>9, <2>1, <2>2, <2>4, <2>5 DEF NewKeys
<1>13. ASSUME NEW d \in Clerks PROVE JobSigned(d)' /\ JobInv(d)'
  <2>1. CASE d = c
    BY <1>10, <2>1 DEF JobSigned, JobInv
  <2>2. CASE d # c
    BY <1>6, <1>7, <2>2, JobOther DEF HoldInv
  <2> QED
    BY <2>1, <2>2
<1>14. ASSUME NEW i \in Ids PROVE Kept(i)'
  <2>1. \A d \in Clerks : Doing(d, "release")' => Doing(d, "release") /\ desk'[d] = desk[d]
    BY <1>6, <1>9, <1>10
  <2> QED
    BY <1>7, <2>1, KeptFrame DEF HoldInv
<1>15. HoldsSignedByTheirKey'
  BY <1>7 DEF HoldInv, HoldsSignedByTheirKey, OnFile
<1> QED
  BY <1>8, <1>11, <1>12, <1>13, <1>14, <1>15 DEF HoldInv

\* hold.pub becomes a key that no hold names yet.
LEMMA WritePubKeeps ==
  ASSUME HoldInv, NEW c \in Clerks, WritePub(c)
  PROVE  HoldInv'
<1>0. HoldTypeOK /\ Doing(c, "pub") /\ Generates(c) /\ desk[c] # None
  BY DEF HoldInv, WritePub, Generates, Doing
<1>1. PICK k \in HoldKeys : k = desk[c].key
  BY <1>0, JobFields
<1>2. /\ hold_pub' = k /\ hold_key' = hold_key /\ sealed' = sealed /\ holds' = holds
      /\ sigs' = sigs /\ kept' = kept /\ now' = now /\ promised' = promised
      /\ clobbered' = clobbered /\ lost' = lost /\ mixed' = mixed
  BY <1>1 DEF WritePub
<1>3. PICK job : job = [desk[c] EXCEPT !.op = "key"]
  OBVIOUS
<1>4. job \in HoldJob /\ job.op = "key" /\ job.key = k
  <2>1. desk[c] \in HoldJob /\ desk[c].op = "pub"
    BY <1>0 DEF HoldTypeOK, Doing
  <2> QED
    BY <1>1, <1>3, <2>1 DEF HoldJob
<1>5. job # None
  BY <1>4, HoldConstants
<1>6. /\ desk'[c] = job /\ desk' \in [Clerks -> HoldJob \cup {None}]
      /\ \A d \in Clerks : d # c => desk'[d] = desk[d]
  BY <1>0, <1>3, <1>4 DEF WritePub, Continues, HoldTypeOK
<1>7. HoldTypeOK'
  BY <1>0, <1>2, <1>6 DEF HoldTypeOK
<1>8. \A d \in Clerks : d # c => /\ \A op : Doing(d, op)' = Doing(d, op)
                                 /\ Generates(d)' = Generates(d) /\ Writes(d)' = Writes(d)
  BY <1>6, OtherClerks
<1>9. /\ \A op : Doing(c, op)' => op = "key"
      /\ Generates(c)' /\ ~Writes(c)' /\ desk'[c].key = k /\ ~Writes(c)
  BY <1>0, <1>4, <1>5, <1>6, JobFields DEF Doing, Generates, Writes
<1>10. KeysInv'
  <2> SUFFICES ASSUME ~mixed' PROVE \A d \in Clerks : d # c => Idle(d)'
    <3>1. ASSUME \A d \in Clerks : d # c => Idle(d)'
          PROVE  \A d \in Clerks : d # c =>
                   /\ ~Generates(d)' /\ ~Doing(d, "key")'
                   /\ ~Doing(d, "seal")' /\ ~Doing(d, "sign")'
      BY <3>1 DEF Doing, Generates, Idle
    <3> QED
      BY <1>2, <1>9, <3>1 DEF KeysInv
  <2> QED
    BY <1>0, <1>2, <1>6, <1>8 DEF HoldInv, KeysInv, Idle
<1>11. ~InUse(k) /\ \A d \in Clerks : Doing(d, "pub") /\ desk[d].key = k => d = c
  BY <1>0, <1>1 DEF HoldInv, NewKeys
<1>12. NewKeys'
  <2>1. ASSUME NEW x, InUse(x)' PROVE x = k \/ InUse(x)
    <3>1. \A i \in Ids : OnFile(i)' = OnFile(i)
      BY <1>2 DEF OnFile
    <3>2. \A d \in Clerks : Writes(d)' => Writes(d) /\ desk'[d] = desk[d]
      BY <1>6, <1>8, <1>9
    <3> QED
      BY <1>2, <2>1, <3>1, <3>2 DEF InUse
  <2>2. \A d \in Clerks : Doing(d, "pub")' => d # c /\ Doing(d, "pub") /\ desk'[d] = desk[d]
    BY <1>6, <1>8, <1>9
  <2> QED
    BY <1>11, <2>1, <2>2 DEF HoldInv, NewKeys
<1>13. ASSUME NEW d \in Clerks PROVE JobSigned(d)' /\ JobInv(d)'
  <2>1. CASE d = c
    BY <1>9, <2>1 DEF JobSigned, JobInv
  <2>2. CASE d # c
    <3>1. Writes(d) => desk[d].rec.hold_key_pubkey # hold_pub'
      BY <1>2, <1>11 DEF InUse
    <3> QED
      BY <1>2, <1>6, <2>2, <3>1, JobOther DEF HoldInv
  <2> QED
    BY <2>1, <2>2
<1>14. ASSUME NEW i \in Ids PROVE Kept(i)'
  <2>1. \A d \in Clerks : Doing(d, "release")' => Doing(d, "release") /\ desk'[d] = desk[d]
    BY <1>6, <1>8, <1>9
  <2>2. promised[i] # None => promised[i].hold_key_pubkey # hold_pub'
    BY <1>2, <1>11 DEF InUse
  <2> QED
    BY <1>2, <2>1, <2>2, KeptFrame DEF HoldInv
<1>15. HoldsSignedByTheirKey'
  BY <1>2 DEF HoldInv, HoldsSignedByTheirKey, OnFile
<1> QED
  BY <1>7, <1>10, <1>12, <1>13, <1>14, <1>15 DEF HoldInv

\* A step of the request of c that leaves hold.pub, the holds and the promises
\* alone, and after which c is not about to write hold.pub.
LEMMA DeskKeeps ==
  ASSUME HoldInv, NEW c \in Clerks, HoldTypeOK', KeysInv',
         \A d \in Clerks : d # c => desk'[d] = desk[d],
         hold_pub' = hold_pub, holds' = holds, promised' = promised, sigs \subseteq sigs',
         clobbered' = clobbered, lost' = lost, mixed => mixed',
         ~Doing(c, "pub")', JobSigned(c)', JobInv(c)',
         Writes(c)' => InUse(desk'[c].rec.hold_key_pubkey),
         Doing(c, "release")' => OnFile(desk'[c].id) /\ Same(desk'[c].rec, holds[desk'[c].id])
  PROVE  HoldInv'
<1>1. \A d \in Clerks : d # c => /\ \A op : Doing(d, op)' = Doing(d, op)
                                 /\ Generates(d)' = Generates(d) /\ Writes(d)' = Writes(d)
  BY OtherClerks
<1>2. \A i \in Ids : OnFile(i)' = OnFile(i)
  BY DEF OnFile
<1>3. ASSUME NEW k, InUse(k)' PROVE InUse(k)
  BY <1>1, <1>2, <1>3 DEF InUse
<1>4. NewKeys'
  <2>1. \A d \in Clerks : Doing(d, "pub")' => Doing(d, "pub") /\ desk'[d].key = desk[d].key
    BY <1>1
  <2> QED
    BY <1>3, <2>1, NewKeysFrame DEF HoldInv
<1>5. ASSUME NEW d \in Clerks PROVE JobSigned(d)' /\ JobInv(d)'
  BY JobOther DEF HoldInv
<1>6. ASSUME NEW i \in Ids PROVE Kept(i)'
  <2>1. Kept(i)
    BY DEF HoldInv
  <2>2. ASSUME NEW d \in Clerks, i \notin clobbered \cup lost, Doing(d, "release")', desk'[d].id = i
        PROVE  OnFile(i) /\ Same(desk'[d].rec, holds[i])
    BY <1>1, <2>1, <2>2 DEF Kept
  <2> QED
    BY <1>2, <2>1, <2>2 DEF Kept
<1>7. HoldsSignedByTheirKey'
  BY <1>2 DEF HoldInv, HoldsSignedByTheirKey
<1> QED
  BY <1>4, <1>5, <1>6, <1>7 DEF HoldInv

\* hold.key follows hold.pub.
LEMMA WriteKeyKeeps ==
  ASSUME HoldInv, NEW c \in Clerks, WriteKey(c)
  PROVE  HoldInv'
<1>0. HoldTypeOK /\ Doing(c, "key") /\ Generates(c) /\ desk[c] # None
  BY DEF HoldInv, WriteKey, Generates, Doing
<1>1. PICK k \in HoldKeys : k = desk[c].key
  BY <1>0, JobFields
<1>2. /\ hold_pub' = hold_pub /\ hold_key' = k /\ sealed' = sealed /\ holds' = holds
      /\ sigs' = sigs /\ kept' = kept /\ now' = now /\ promised' = promised
      /\ clobbered' = clobbered /\ lost' = lost /\ mixed' = mixed
  BY <1>1 DEF WriteKey
<1>3. PICK job : job = [desk[c] EXCEPT !.op = "seal"]
  OBVIOUS
<1>4. job \in HoldJob /\ job.op = "seal"
  <2>1. desk[c] \in HoldJob /\ desk[c].op = "key"
    BY <1>0 DEF HoldTypeOK, Doing
  <2> QED
    BY <1>3, <2>1 DEF HoldJob
<1>5. /\ desk'[c] \in {job, None} /\ desk' \in [Clerks -> HoldJob \cup {None}]
      /\ \A d \in Clerks : d # c => desk'[d] = desk[d]
  BY <1>0, <1>3, <1>4 DEF WriteKey, Continues, Answers, HoldTypeOK
<1>6. HoldTypeOK'
  BY <1>0, <1>2, <1>5 DEF HoldTypeOK
<1>7. \A op : Doing(c, op)' => op = "seal"
  BY <1>4, <1>5 DEF Doing
<1>8. KeysInv'
  <2> SUFFICES ASSUME ~mixed'
               PROVE  hold_pub' = hold_key' /\ \A d \in Clerks : d # c => Idle(d)'
    <3>1. ASSUME \A d \in Clerks : d # c => Idle(d)'
          PROVE  \A d \in Clerks : d # c =>
                   /\ ~Generates(d)' /\ ~Doing(d, "key")'
                   /\ ~Doing(d, "seal")' /\ ~Doing(d, "sign")'
      BY <3>1 DEF Doing, Generates, Idle
    <3> QED
      BY <1>2, <1>7, <3>1 DEF KeysInv
  <2> QED
    BY <1>0, <1>1, <1>2, <1>5, OtherClerks DEF HoldInv, KeysInv, Idle
<1>9. ~Doing(c, "pub")' /\ ~Writes(c)' /\ JobSigned(c)' /\ JobInv(c)' /\ ~Doing(c, "release")'
  BY <1>7 DEF Writes, JobSigned, JobInv
<1> QED
  BY <1>2, <1>5, <1>6, <1>8, <1>9, DeskKeeps

\* The sealed copy of the key is written after both files and changes no hold.
LEMMA SealKeyKeeps ==
  ASSUME HoldInv, NEW c \in Clerks, SealKey(c)
  PROVE  HoldInv'
<1>0. HoldTypeOK /\ Doing(c, "seal") /\ Generates(c) /\ desk[c] # None
  BY DEF HoldInv, SealKey, Generates, Doing
<1>1. desk[c].key \in HoldKeys
  BY <1>0, JobFields
<1>2. /\ hold_pub' = hold_pub /\ hold_key' = hold_key /\ sealed' \in HoldKeys \cup {None}
      /\ holds' = holds /\ sigs' = sigs /\ kept' = kept /\ now' = now /\ promised' = promised
      /\ clobbered' = clobbered /\ lost' = lost /\ mixed' = mixed
  BY <1>0, <1>1 DEF SealKey, HoldTypeOK
<1>3. /\ desk'[c] = None /\ desk' \in [Clerks -> HoldJob \cup {None}]
      /\ \A d \in Clerks : d # c => desk'[d] = desk[d]
  BY <1>0 DEF SealKey, Answers, HoldTypeOK
<1>4. HoldTypeOK'
  BY <1>0, <1>2, <1>3 DEF HoldTypeOK
<1>5. \A op : ~Doing(c, op)'
  BY <1>3 DEF Doing
<1>6. KeysInv'
  <2> SUFFICES ASSUME ~mixed'
               PROVE  hold_pub' = hold_key' /\ \A d \in Clerks : Idle(d)'
    <3>1. ASSUME \A d \in Clerks : Idle(d)'
          PROVE  \A d \in Clerks : /\ ~Generates(d)' /\ ~Doing(d, "key")'
                                    /\ ~Doing(d, "seal")' /\ ~Doing(d, "sign")'
      BY <3>1 DEF Doing, Generates, Idle
    <3> QED
      BY <1>2, <3>1 DEF KeysInv
  <2> QED
    BY <1>0, <1>2, <1>3, OtherClerks DEF HoldInv, KeysInv, Idle
<1>7. ~Doing(c, "pub")' /\ ~Writes(c)' /\ JobSigned(c)' /\ JobInv(c)' /\ ~Doing(c, "release")'
  BY <1>5 DEF Writes, JobSigned, JobInv
<1> QED
  BY <1>2, <1>3, <1>4, <1>6, <1>7, DeskKeeps

\* A placement reads the present hold.pub, or overlaps a generation and is mixed.
LEMMA PlaceKeeps ==
  ASSUME HoldInv, NEW c \in Clerks, NEW from \in Seqs, NEW to \in Seqs,
         NEW exp \in {None, MaxNow - 1}, NEW own \in {None, sealed, hold_key},
         place(c, from, to, exp, own)
  PROVE  HoldInv'
<1>0. /\ HoldTypeOK /\ hold_pub \in HoldKeys /\ own \in HoldKeys \cup {None} /\ now < MaxNow
  BY DEF HoldInv, place
<1>1. PICK rec : rec = [from |-> from, to |-> to, expires_at |-> exp,
                        hold_key_pubkey |-> hold_pub,
                        placed_with |-> IF own # None THEN own ELSE hold_pub,
                        own |-> own # None, released |-> FALSE]
  OBVIOUS
<1>2. rec \in Hold
  <2>1. exp \in Instant \cup {None}
    BY <1>0, HoldConstants DEF HoldTypeOK, Instant
  <2> QED
    BY <1>0, <1>1, <2>1 DEF Hold
<1>3. rec.hold_key_pubkey = hold_pub /\ rec.released = FALSE
  BY <1>1
<1>4. PICK job : job = [op |-> "sign", id |-> now \div TicksPerSecond, rec |-> rec]
  OBVIOUS
<1>5. job \in HoldJob /\ job.op = "sign" /\ job.rec = rec
  <2>1. now \div TicksPerSecond \in Ids
    BY <1>0 DEF HoldTypeOK, Ids
  <2> QED
    BY <1>2, <1>4, <2>1 DEF HoldJob
<1>6. /\ desk[c] = None /\ desk'[c] = job /\ desk' \in [Clerks -> HoldJob \cup {None}]
      /\ \A d \in Clerks : d # c => desk'[d] = desk[d]
  BY <1>0, <1>1, <1>4, <1>5 DEF place, Begins, HoldTypeOK
<1>7. /\ hold_pub' = hold_pub /\ hold_key' = hold_key /\ sealed' = sealed
      /\ holds' = holds /\ sigs' = sigs /\ kept' = kept /\ now' = now /\ promised' = promised
      /\ clobbered' = clobbered /\ lost' = lost /\ mixed' = (mixed \/ Generating # {})
  BY DEF place
<1>8. HoldTypeOK'
  BY <1>0, <1>6, <1>7 DEF HoldTypeOK
<1>9. \A op : Doing(c, op)' => op = "sign"
  BY <1>5, <1>6 DEF Doing
<1>10. KeysInv'
  <2> SUFFICES ASSUME ~mixed' PROVE KeysInv'
    BY DEF KeysInv
  <2>1. \A d \in Clerks : ~Generates(d)
    BY <1>0, <1>7, JobFields
  <2>2. \A d \in Clerks : d # c => /\ \A op : Doing(d, op)' = Doing(d, op)
                                   /\ Generates(d)' = Generates(d) /\ Writes(d)' = Writes(d)
    BY <1>6, OtherClerks
  <2>3. ~Generates(c)' /\ (Doing(c, "sign")' => desk'[c].rec.hold_key_pubkey = hold_pub)
    BY <1>3, <1>5, <1>6, <1>9 DEF Generates
  <2>4. \A d \in Clerks : ~Generates(d)' /\ ~Doing(d, "key")' /\ ~Doing(d, "seal")'
    BY <2>1, <2>2, <2>3 DEF Generates
  <2>5. hold_pub' = hold_key'
    BY <1>7, <2>1 DEF HoldInv, KeysInv
  <2>6. \A d \in Clerks : Doing(d, "sign")' => desk'[d].rec.hold_key_pubkey = hold_pub'
    BY <1>6, <1>7, <2>2, <2>3 DEF HoldInv, KeysInv
  <2> QED
    BY <2>4, <2>5, <2>6 DEF KeysInv
<1>11. /\ ~Doing(c, "pub")' /\ JobSigned(c)' /\ JobInv(c)' /\ ~Doing(c, "release")'
       /\ InUse(desk'[c].rec.hold_key_pubkey)
  BY <1>3, <1>5, <1>6, <1>9 DEF JobSigned, JobInv, InUse
<1> QED
  BY <1>6, <1>7, <1>8, <1>10, <1>11, DeskKeeps

\* Utc::now() stays within its bound.
LEMMA ReadsTyped == HoldTypeOK /\ Reads => now' \in Instant
BY HoldConstants DEF HoldTypeOK, Reads, Instant

\* The keys of a daemon whose generations are not touched.
LEMMA KeysFrame ==
  ASSUME KeysInv, hold_pub' = hold_pub, hold_key' = hold_key, mixed' = mixed,
         \A d \in Clerks : /\ Generates(d)' = Generates(d)
                           /\ Generates(d) => desk'[d] = desk[d]
                           /\ Idle(d) => Idle(d)'
                           /\ Doing(d, "sign")' => Doing(d, "sign") /\ desk'[d] = desk[d]
  PROVE  KeysInv'
<1> SUFFICES ASSUME ~mixed PROVE KeysInv'
  BY DEF KeysInv
<1>1. (\A c \in Clerks : ~Generates(c)') => hold_pub' = hold_key'
  BY DEF KeysInv
<1>2. ASSUME NEW c \in Clerks, Generates(c)'
      PROVE  /\ \A d \in Clerks : d # c => Idle(d)'
             /\ Doing(c, "key")' => hold_pub' = desk'[c].key
             /\ Doing(c, "seal")' => hold_pub' = hold_key'
  <2>1. Generates(c) /\ desk'[c] = desk[c]
    BY <1>2
  <2>2. \A d \in Clerks : d # c => Idle(d)
    BY <2>1 DEF KeysInv
  <2> QED
    BY <2>1, <2>2 DEF KeysInv, Doing
<1>3. \A c \in Clerks : Doing(c, "sign")' => desk'[c].rec.hold_key_pubkey = hold_pub'
  BY DEF KeysInv
<1> QED
  BY <1>1, <1>2, <1>3 DEF KeysInv, Generates

\* A placement signs with hold.key, which is of the pair of the hold.pub it names.
LEMMA PlaceSignKeeps ==
  ASSUME HoldInv, NEW c \in Clerks, PlaceSign(c)
  PROVE  HoldInv'
<1>0. HoldTypeOK /\ Doing(c, "sign") /\ Writes(c) /\ desk[c] # None /\ Reads
  BY DEF HoldInv, PlaceSign, Writes, Doing
<1>1. PICK r \in Hold : r = desk[c].rec
  BY <1>0, JobFields
<1>2. /\ hold_pub' = hold_pub /\ hold_key' = hold_key /\ sealed' = sealed
      /\ holds' = holds /\ sigs' = sigs /\ kept' = kept /\ now' \in Instant
      /\ promised' = promised /\ clobbered' = clobbered /\ lost' = lost /\ mixed' = mixed
  BY <1>0, ReadsTyped DEF PlaceSign
<1>3. desk[c] \in HoldJob /\ desk[c].op = "sign"
  BY <1>0 DEF HoldTypeOK, Doing
<1>4. /\ [desk[c] EXCEPT !.op = "save"] \in HoldJob
      /\ [desk[c] EXCEPT !.op = "save"].op = "save"
      /\ [desk[c] EXCEPT !.op = "save"].rec = r
  BY <1>1, <1>3 DEF HoldJob
<1>5. PICK q : q = [r EXCEPT !.placed_with = hold_key]
  OBVIOUS
<1>6. /\ hold_key \in HoldKeys => q \in Hold
      /\ q.hold_key_pubkey = r.hold_key_pubkey /\ q.released = r.released
      /\ q.placed_with = hold_key
  BY <1>5 DEF Hold
<1>7. /\ hold_key \in HoldKeys => [desk[c] EXCEPT !.op = "save", !.rec = q] \in HoldJob
      /\ [desk[c] EXCEPT !.op = "save", !.rec = q].op = "save"
      /\ [desk[c] EXCEPT !.op = "save", !.rec = q].rec = q
  BY <1>3, <1>6 DEF HoldJob
<1>8. \/ r.own /\ desk' = [desk EXCEPT ![c] = [desk[c] EXCEPT !.op = "save"]]
      \/ /\ hold_key \in HoldKeys
         /\ desk' = [desk EXCEPT ![c] = [desk[c] EXCEPT !.op = "save", !.rec = q]]
      \/ desk' = [desk EXCEPT ![c] = None]
  <2>0. desk \in [Clerks -> HoldJob \cup {None}] /\ q = [desk[c].rec EXCEPT !.placed_with = hold_key]
    BY <1>0, <1>1, <1>5 DEF HoldTypeOK
  <2>1. CASE r.own
    BY <1>1, <2>0, <2>1 DEF PlaceSign, Continues
  <2>2. CASE ~r.own /\ hold_key \in HoldKeys
    <3>1. desk' = [desk EXCEPT ![c].op = "save", ![c].rec.placed_with = hold_key]
      BY <1>1, <2>2 DEF PlaceSign
    <3>2. desk' = [desk EXCEPT ![c] =
                     [[desk[c] EXCEPT !.op = "save"] EXCEPT
                        !.rec = [[desk[c] EXCEPT !.op = "save"].rec EXCEPT !.placed_with = hold_key]]]
      BY <2>0, <3>1
    <3>3. [[desk[c] EXCEPT !.op = "save"] EXCEPT
              !.rec = [[desk[c] EXCEPT !.op = "save"].rec EXCEPT !.placed_with = hold_key]]
            = [desk[c] EXCEPT !.op = "save", !.rec = q]
      BY <1>1, <1>4, <1>5
    <3> QED
      BY <2>2, <3>2, <3>3
  <2>3. CASE ~r.own /\ hold_key \notin HoldKeys
    BY <1>1, <2>0, <2>3 DEF PlaceSign, Answers
  <2> QED
    BY <2>1, <2>2, <2>3
<1>9. /\ desk' \in [Clerks -> HoldJob \cup {None}]
      /\ \A d \in Clerks : d # c => desk'[d] = desk[d]
      /\ \/ /\ r.own /\ desk'[c] = [desk[c] EXCEPT !.op = "save"]
         \/ desk'[c] = [desk[c] EXCEPT !.op = "save", !.rec = q]
         \/ desk'[c] = None
  BY <1>0, <1>4, <1>7, <1>8 DEF HoldTypeOK
<1>10. /\ \A op : Doing(c, op)' => op = "save"
       /\ desk'[c] # None => /\ desk'[c].rec \in {r, q}
                             /\ desk'[c].rec = r => r.own \/ r = q
  BY <1>4, <1>7, <1>9 DEF Doing
<1>11. HoldTypeOK'
  BY <1>0, <1>2, <1>9 DEF HoldTypeOK
<1>12. KeysInv'
  <2>1. ~Generates(c) /\ ~Generates(c)' /\ ~Doing(c, "sign")' /\ ~Idle(c)
    BY <1>0, <1>10, JobFields DEF Generates, Idle, Doing
  <2>2. \A d \in Clerks : d # c => /\ \A op : Doing(d, op)' = Doing(d, op)
                                   /\ Generates(d)' = Generates(d) /\ Writes(d)' = Writes(d)
    BY <1>9, OtherClerks
  <2>3. Generates(c)' = Generates(c)
    BY <2>1 DEF Generates
  <2>4. \A d \in Clerks : /\ Generates(d)' = Generates(d)
                          /\ Generates(d) => desk'[d] = desk[d]
                          /\ Idle(d) => Idle(d)'
                          /\ Doing(d, "sign")' => Doing(d, "sign") /\ desk'[d] = desk[d]
    BY <1>9, <2>1, <2>2, <2>3 DEF Idle
  <2> QED
    BY <1>2, <2>4, KeysFrame DEF HoldInv
<1>13. JobSigned(c)'
  <2>1. ASSUME ~mixed PROVE q.placed_with = q.hold_key_pubkey
    <3>1. \A d \in Clerks : ~Generates(d)
      <4>1. ~Generates(c) /\ ~Idle(c)
        BY <1>0, JobFields DEF Idle, Doing
      <4> QED
        BY <2>1, <4>1 DEF HoldInv, KeysInv
    <3>2. hold_pub = hold_key /\ r.hold_key_pubkey = hold_pub
      BY <1>0, <1>1, <2>1, <3>1 DEF HoldInv, KeysInv
    <3> QED
      BY <1>6, <3>2
  <2>2. desk'[c] # None => desk'[c].rec.own \/ desk'[c].rec = q
    BY <1>10
  <2>3. Doing(c, "save")' \/ Doing(c, "release")' => desk'[c] # None
    BY DEF Doing
  <2> QED
    BY <1>2, <2>1, <2>2, <2>3 DEF JobSigned
<1>14. /\ ~Doing(c, "pub")' /\ JobInv(c)' /\ ~Doing(c, "release")'
       /\ Writes(c)' => InUse(desk'[c].rec.hold_key_pubkey)
  <2>1. ~r.released /\ InUse(r.hold_key_pubkey)
    BY <1>0, <1>1 DEF HoldInv, JobInv, InUse
  <2>2. desk'[c] # None => /\ ~desk'[c].rec.released
                           /\ desk'[c].rec.hold_key_pubkey = r.hold_key_pubkey
    BY <1>6, <1>10, <2>1
  <2> QED
    BY <1>10, <2>1, <2>2 DEF JobInv, Writes, Doing
<1> QED
  BY <1>2, <1>9, <1>11, <1>12, <1>13, <1>14, DeskKeeps

\* A release goes on only with a signature by the key its hold names.
LEMMA ReleaseKeeps ==
  ASSUME HoldInv, NEW c \in Clerks, NEW i \in Ids, NEW sig \in sigs, release(c, i, sig)
  PROVE  HoldInv'
<1>0. /\ HoldTypeOK /\ OnFile(i) /\ sig.id = i /\ sig.key = hold_pub /\ Reads
  BY DEF HoldInv, release, VerifiesRelease
<1>1. PICK r \in Hold : r = holds[i]
  BY <1>0 DEF OnFile
<1>2. PICK job : job = [op |-> "release", id |-> i, rec |-> r]
  OBVIOUS
<1>3. job \in HoldJob /\ job.op = "release" /\ job.id = i /\ job.rec = r
  BY <1>2 DEF HoldJob
<1>4. /\ desk[c] = None /\ desk'[c] = job /\ desk' \in [Clerks -> HoldJob \cup {None}]
      /\ \A d \in Clerks : d # c => desk'[d] = desk[d]
  BY <1>0, <1>1, <1>2, <1>3 DEF release, Begins, HoldTypeOK
<1>5. /\ hold_pub' = hold_pub /\ hold_key' = hold_key /\ sealed' = sealed
      /\ holds' = holds /\ sigs' = sigs /\ kept' = kept /\ now' \in Instant
      /\ promised' = promised /\ clobbered' = clobbered /\ lost' = lost /\ mixed' = mixed
  BY <1>0, ReadsTyped DEF release
<1>6. HoldTypeOK'
  BY <1>0, <1>4, <1>5 DEF HoldTypeOK
<1>7. \A op : (Doing(c, op)' => op = "release") /\ ~Doing(c, op)
  BY <1>3, <1>4 DEF Doing
<1>8. KeysInv'
  <2>1. \A d \in Clerks : d # c => /\ \A op : Doing(d, op)' = Doing(d, op)
                                   /\ Generates(d)' = Generates(d) /\ Writes(d)' = Writes(d)
    BY <1>4, OtherClerks
  <2>2. ~Generates(c)' /\ ~Generates(c)
    BY <1>7 DEF Generates
  <2>3. Generates(c)' = Generates(c)
    BY <2>2 DEF Generates
  <2>4. Idle(c)'
    BY <1>3, <1>4, HoldConstants DEF Idle, Doing
  <2>5. \A d \in Clerks : /\ Generates(d)' = Generates(d)
                          /\ Generates(d) => desk'[d] = desk[d]
                          /\ Idle(d) => Idle(d)'
                          /\ Doing(d, "sign")' => Doing(d, "sign") /\ desk'[d] = desk[d]
    BY <1>4, <1>7, <2>1, <2>2, <2>3, <2>4 DEF Idle
  <2> QED
    BY <1>5, <2>5, KeysFrame DEF HoldInv
<1>9. JobSigned(c)'
  BY <1>0, <1>1, <1>3, <1>4, <1>5 DEF HoldInv, HoldsSignedByTheirKey, JobSigned
<1>10. JobInv(c)'
  <2>1. holds'[i] # None
    BY <1>1, <1>5, HoldFields
  <2>2. ~Doing(c, "sign")' /\ ~Doing(c, "save")'
    BY <1>7
  <2> QED
    BY <1>0, <1>3, <1>4, <1>5, <2>1, <2>2 DEF JobInv
<1>11. /\ InUse(desk'[c].rec.hold_key_pubkey)
       /\ OnFile(desk'[c].id) /\ Same(desk'[c].rec, holds[desk'[c].id])
  BY <1>0, <1>1, <1>3, <1>4 DEF InUse, Same
<1> QED
  BY <1>4, <1>5, <1>6, <1>7, <1>8, <1>9, <1>10, <1>11, DeskKeeps

\* Signing, a refusal, the retention sweep and a step of somebody else.
LEMMA QuietKeeps ==
  ASSUME HoldInv, HoldTypeOK', desk' = desk, hold_pub' = hold_pub, hold_key' = hold_key,
         holds' = holds, promised' = promised, sigs \subseteq sigs',
         clobbered' = clobbered, lost' = lost, mixed' = mixed
  PROVE  HoldInv'
<1>1. \A d \in Clerks : /\ \A op : Doing(d, op)' = Doing(d, op)
                        /\ Generates(d)' = Generates(d) /\ Writes(d)' = Writes(d)
                        /\ Idle(d)' = Idle(d)
  BY DEF Doing, Generates, Writes, Idle
<1>2. \A i \in Ids : OnFile(i)' = OnFile(i)
  BY DEF OnFile
<1>3. KeysInv'
  BY <1>1, KeysFrame DEF HoldInv
<1>4. \A k : InUse(k)' => InUse(k)
  BY <1>1, <1>2 DEF InUse
<1>5. NewKeys'
  BY <1>1, <1>4, NewKeysFrame DEF HoldInv
<1>6. ASSUME NEW d \in Clerks PROVE JobSigned(d)' /\ JobInv(d)'
  BY JobOther DEF HoldInv
<1>7. ASSUME NEW i \in Ids PROVE Kept(i)'
  BY <1>1, KeptFrame DEF HoldInv
<1>8. HoldsSignedByTheirKey'
  BY <1>2 DEF HoldInv, HoldsSignedByTheirKey
<1> QED
  BY <1>3, <1>5, <1>6, <1>7, <1>8 DEF HoldInv

\* A signature more changes no hold.
LEMMA SignReleaseKeeps ==
  ASSUME HoldInv, NEW i \in Ids, NEW k \in HoldKeys, NEW at \in Instant, sign_release(i, k, at)
  PROVE  HoldInv'
<1>0. HoldTypeOK /\ Reads
  BY DEF HoldInv, sign_release
<1>1. now' \in Instant
  BY <1>0, ReadsTyped
<1>2. [id |-> i, at |-> at, key |-> k] \in ReleaseSig
  BY DEF ReleaseSig
<1>3. HoldTypeOK'
  BY <1>0, <1>1, <1>2 DEF sign_release, HoldTypeOK
<1> QED
  BY <1>3, QuietKeeps DEF sign_release

\* A refused release changes nothing that HoldInv is about.
LEMMA RefusedKeeps ==
  ASSUME HoldInv, NEW i \in Ids, NEW sig \in sigs, ReleaseRefused(i, sig)
  PROVE  HoldInv'
<1>0. HoldTypeOK /\ Reads
  BY DEF HoldInv, ReleaseRefused
<1>1. now' \in Instant
  BY <1>0, ReadsTyped
<1>2. HoldTypeOK'
  BY <1>0, <1>1 DEF ReleaseRefused, HoldTypeOK
<1> QED
  BY <1>2, QuietKeeps DEF ReleaseRefused

\* The sweep removes entries and no hold.
LEMMA SweepKeeps ==
  ASSUME HoldInv, NEW s \in Seqs, Retention(s)
  PROVE  HoldInv'
<1>1. kept' \subseteq Seqs
  BY DEF Retention, HoldInv, HoldTypeOK
<1>2. HoldTypeOK'
  BY <1>1 DEF Retention, HoldInv, HoldTypeOK
<1> QED
  BY <1>2, QuietKeeps DEF Retention

\* A request that ends, and has written the record q to the file of the hold i.
LEMMA SaveFrame ==
  ASSUME HoldInv, NEW c \in Clerks, NEW i \in Ids, NEW q \in Hold, Writes(c),
         q.hold_key_pubkey = desk[c].rec.hold_key_pubkey,
         mixed \/ q.own \/ q.placed_with = q.hold_key_pubkey,
         desk' = [desk EXCEPT ![c] = None], holds' = [holds EXCEPT ![i] = q],
         promised' \in [Ids -> Hold \cup {None}],
         \A j \in Ids : promised'[j] \in {promised[j], None}
                          \/ (promised'[j] # None /\ promised'[j].hold_key_pubkey = q.hold_key_pubkey),
         clobbered \subseteq clobbered', clobbered' \subseteq Ids,
         UNCHANGED << hold_pub, hold_key, sealed, sigs, kept, now, lost, mixed >>
  PROVE  /\ HoldTypeOK' /\ KeysInv' /\ NewKeys' /\ HoldsSignedByTheirKey'
         /\ \A d \in Clerks : JobSigned(d)' /\ JobInv(d)'
         /\ \A d \in Clerks : Doing(d, "release")' =>
              d # c /\ Doing(d, "release") /\ desk'[d] = desk[d]
<1>0. HoldTypeOK
  BY DEF HoldInv
<1>1. /\ desk'[c] = None /\ desk' \in [Clerks -> HoldJob \cup {None}]
      /\ \A d \in Clerks : d # c => desk'[d] = desk[d]
      /\ holds' \in [Ids -> Hold \cup {None, Torn}] /\ holds'[i] = q
      /\ \A j \in Ids : j # i => holds'[j] = holds[j]
  BY <1>0 DEF HoldTypeOK
<1>2. HoldTypeOK'
  BY <1>0, <1>1 DEF HoldTypeOK
<1>3. \A d \in Clerks : d # c => /\ \A op : Doing(d, op)' = Doing(d, op)
                                 /\ Generates(d)' = Generates(d) /\ Writes(d)' = Writes(d)
  BY <1>1, OtherClerks
<1>4. (\A op : ~Doing(c, op)') /\ ~Writes(c)' /\ ~Generates(c)' /\ Idle(c)' /\ ~Generates(c)
  BY <1>0, <1>1, JobFields DEF Doing, Writes, Generates, Idle
<1>5. KeysInv'
  <2>1. Generates(c)' = Generates(c)
    BY <1>4 DEF Generates
  <2>2. \A d \in Clerks : /\ Generates(d)' = Generates(d)
                          /\ Generates(d) => desk'[d] = desk[d]
                          /\ Idle(d) => Idle(d)'
                          /\ Doing(d, "sign")' => Doing(d, "sign") /\ desk'[d] = desk[d]
    BY <1>1, <1>3, <1>4, <2>1 DEF Idle
  <2> QED
    BY <2>2, KeysFrame DEF HoldInv
<1>6. ASSUME NEW k, InUse(k)' PROVE InUse(k)
  <2>1. InUse(q.hold_key_pubkey)
    BY DEF InUse
  <2>2. \A j \in Ids : OnFile(j)' /\ j # i => OnFile(j)
    BY <1>1 DEF OnFile
  <2>3. CASE k = hold_pub'
    BY <2>3 DEF InUse
  <2>4. ASSUME NEW d \in Clerks, Writes(d)', desk'[d].rec.hold_key_pubkey = k PROVE InUse(k)
    BY <1>1, <1>3, <1>4, <2>4 DEF InUse
  <2>5. ASSUME NEW j \in Ids, OnFile(j)', holds'[j].hold_key_pubkey = k PROVE InUse(k)
    BY <1>1, <2>1, <2>2, <2>5 DEF InUse
  <2>6. ASSUME NEW j \in Ids, promised'[j] # None, promised'[j].hold_key_pubkey = k PROVE InUse(k)
    BY <2>1, <2>6 DEF InUse
  <2> QED
    BY <1>6, <2>3, <2>4, <2>5, <2>6 DEF InUse
<1>7. NewKeys'
  <2>1. \A d \in Clerks : Doing(d, "pub")' => Doing(d, "pub") /\ desk'[d].key = desk[d].key
    BY <1>1, <1>3, <1>4
  <2> QED
    BY <1>6, <2>1, NewKeysFrame DEF HoldInv
<1>8. ASSUME NEW d \in Clerks PROVE JobSigned(d)' /\ JobInv(d)'
  <2>1. CASE d = c
    BY <1>4, <2>1 DEF JobSigned, JobInv
  <2>2. CASE d # c
    <3>1. Writes(d) /\ holds[desk[d].id] # None => holds'[desk[d].id] # None
      BY <1>0, <1>1, JobFields, HoldFields
    <3> QED
      BY <1>1, <2>2, <3>1, JobOther DEF HoldInv
  <2> QED
    BY <2>1, <2>2
<1>9. HoldsSignedByTheirKey'
  BY <1>1 DEF HoldInv, HoldsSignedByTheirKey, OnFile
<1> QED
  BY <1>1, <1>2, <1>3, <1>4, <1>5, <1>7, <1>8, <1>9

\* The hold written is signed and fresh; a confirmation is of what is on file.
LEMMA PlaceSaveKeeps ==
  ASSUME HoldInv, NEW c \in Clerks, PlaceSave(c)
  PROVE  HoldInv'
<1>0. HoldTypeOK /\ Doing(c, "save") /\ Writes(c)
  BY DEF HoldInv, PlaceSave, Writes
<1>1. PICK i \in Ids : i = desk[c].id
  BY <1>0, JobFields
<1>2. PICK q \in Hold : q = desk[c].rec
  BY <1>0, JobFields
<1>3. /\ desk' = [desk EXCEPT ![c] = None] /\ holds' = [holds EXCEPT ![i] = q]
      /\ promised' = [promised EXCEPT ![i] = q]
      /\ clobbered' = IF holds[i] = None THEN clobbered ELSE clobbered \cup {i}
      /\ UNCHANGED << hold_pub, hold_key, sealed, sigs, kept, now, lost, mixed >>
  BY <1>1, <1>2 DEF PlaceSave, Answers
<1>4. /\ q # None /\ ~q.released /\ (mixed \/ q.own \/ q.placed_with = q.hold_key_pubkey)
  BY <1>0, <1>2, HoldFields DEF HoldInv, JobInv, JobSigned
<1>5. /\ holds'[i] = q /\ promised'[i] = q /\ promised' \in [Ids -> Hold \cup {None}]
      /\ \A j \in Ids : j # i => holds'[j] = holds[j] /\ promised'[j] = promised[j]
      /\ clobbered \subseteq clobbered' /\ clobbered' \subseteq Ids
  BY <1>0, <1>3 DEF HoldTypeOK
<1>6. /\ HoldTypeOK' /\ KeysInv' /\ NewKeys' /\ HoldsSignedByTheirKey'
      /\ \A d \in Clerks : JobSigned(d)' /\ JobInv(d)'
      /\ \A d \in Clerks : Doing(d, "release")' =>
           d # c /\ Doing(d, "release") /\ desk'[d] = desk[d]
  <2>1. \A j \in Ids : promised'[j] \in {promised[j], None}
                         \/ (promised'[j] # None /\ promised'[j].hold_key_pubkey = q.hold_key_pubkey)
    BY <1>4, <1>5
  <2>2. q.hold_key_pubkey = desk[c].rec.hold_key_pubkey
    BY <1>2
  <2> QED
    BY <1>0, <1>3, <1>4, <1>5, <2>1, <2>2, SaveFrame
<1>7. ASSUME NEW j \in Ids PROVE Kept(j)'
  <2>1. CASE j # i
    BY <1>3, <1>5, <1>6, <2>1, KeptFrame DEF HoldInv
  <2>2. CASE j = i
    <3> SUFFICES ASSUME i \notin clobbered'
                 PROVE  /\ OnFile(i)' /\ Same(holds'[i], promised'[i]) /\ ~holds'[i].released
                        /\ \A d \in Clerks : ~(Doing(d, "release")' /\ desk'[d].id = i)
      BY <2>2 DEF Kept
    <3>1. holds[i] = None
      BY <1>3
    <3>2. \A d \in Clerks : ~(Doing(d, "release") /\ desk[d].id = i)
      BY <3>1 DEF HoldInv, JobInv
    <3> QED
      BY <1>4, <1>5, <1>6, <3>2 DEF OnFile, Same
  <2> QED
    BY <2>1, <2>2
<1> QED
  BY <1>6, <1>7 DEF HoldInv

\* A release overwrites its hold with the same hold, released.
LEMMA ReleaseSaveKeeps ==
  ASSUME HoldInv, NEW c \in Clerks, ReleaseSave(c)
  PROVE  HoldInv'
<1>0. HoldTypeOK /\ Doing(c, "release") /\ Writes(c)
  BY DEF HoldInv, ReleaseSave, Writes
<1>1. PICK i \in Ids : i = desk[c].id
  BY <1>0, JobFields
<1>2. PICK r \in Hold : r = desk[c].rec
  BY <1>0, JobFields
<1>3. PICK q \in Hold : q = [r EXCEPT !.released = TRUE]
  BY DEF Hold
<1>4. /\ q.hold_key_pubkey = r.hold_key_pubkey /\ q.own = r.own
      /\ q.placed_with = r.placed_with /\ Same(q, r)
  BY <1>3 DEF Hold, Same
<1>5. /\ desk' = [desk EXCEPT ![c] = None] /\ holds' = [holds EXCEPT ![i] = q]
      /\ promised' = IF \E s \in sigs : s.id = i /\ s.key = r.hold_key_pubkey
                     THEN [promised EXCEPT ![i] = None] ELSE promised
      /\ UNCHANGED << hold_pub, hold_key, sealed, sigs, kept, now, clobbered, lost, mixed >>
  BY <1>1, <1>2, <1>3 DEF ReleaseSave, Answers
<1>6. mixed \/ q.own \/ q.placed_with = q.hold_key_pubkey
  BY <1>0, <1>2, <1>4 DEF HoldInv, JobSigned
<1>7. /\ holds'[i] = q /\ promised' \in [Ids -> Hold \cup {None}]
      /\ \A j \in Ids : j # i => holds'[j] = holds[j] /\ promised'[j] = promised[j]
      /\ promised'[i] \in {promised[i], None}
      /\ promised'[i] # None => ~\E s \in sigs : s.id = i /\ s.key = r.hold_key_pubkey
      /\ clobbered \subseteq clobbered' /\ clobbered' \subseteq Ids
  BY <1>0, <1>5 DEF HoldTypeOK
<1>8. /\ HoldTypeOK' /\ KeysInv' /\ NewKeys' /\ HoldsSignedByTheirKey'
      /\ \A d \in Clerks : JobSigned(d)' /\ JobInv(d)'
      /\ \A d \in Clerks : Doing(d, "release")' =>
           d # c /\ Doing(d, "release") /\ desk'[d] = desk[d]
  <2>1. \A j \in Ids : promised'[j] \in {promised[j], None}
    BY <1>7
  <2>2. q.hold_key_pubkey = desk[c].rec.hold_key_pubkey
    BY <1>2, <1>4
  <2> QED
    BY <1>0, <1>5, <1>6, <1>7, <2>1, <2>2, SaveFrame
<1>9. ASSUME NEW j \in Ids PROVE Kept(j)'
  <2>1. CASE j # i
    BY <1>5, <1>7, <1>8, <2>1, KeptFrame DEF HoldInv
  <2>2. CASE j = i
    <3> SUFFICES ASSUME i \notin clobbered \cup lost
                 PROVE  /\ OnFile(i)'
                        /\ promised'[i] # None =>
                             /\ Same(holds'[i], promised'[i])
                             /\ promised'[i].hold_key_pubkey # hold_pub'
                        /\ \A d \in Clerks : Doing(d, "release")' /\ desk'[d].id = i =>
                             Same(desk'[d].rec, holds'[i])
      BY <1>5, <2>2 DEF Kept
    <3>1. Kept(i) /\ OnFile(i) /\ Same(r, holds[i])
      BY <1>0, <1>1, <1>2 DEF HoldInv, Kept
    <3>2. \A x : Same(x, holds[i]) => Same(x, q)
      BY <1>4, <3>1 DEF Same
    <3>3. ASSUME promised'[i] # None
          PROVE  Same(q, promised'[i]) /\ promised'[i].hold_key_pubkey # hold_pub'
      <4>1. promised'[i] = promised[i] /\ Same(holds[i], promised[i])
        BY <1>7, <3>1, <3>3 DEF Kept
      <4>2. Same(q, promised[i]) /\ promised[i].hold_key_pubkey = r.hold_key_pubkey
        BY <1>4, <3>1, <4>1 DEF Same
      <4>3. r.hold_key_pubkey # hold_pub
        BY <1>0, <1>1, <1>2, <1>7, <3>3 DEF HoldInv, JobInv
      <4> QED
        BY <1>5, <4>1, <4>2, <4>3
    <3>4. ASSUME NEW d \in Clerks, Doing(d, "release")', desk'[d].id = i
          PROVE  Same(desk'[d].rec, holds[i])
      BY <1>8, <3>1, <3>4 DEF Kept
    <3> QED
      BY <1>7, <3>2, <3>3, <3>4 DEF OnFile
  <2> QED
    BY <2>1, <2>2
<1> QED
  BY <1>8, <1>9 DEF HoldInv

\* A crash mixes keys that were being made, and may lose a hold that was being written.
LEMMA HoldCrashKeeps ==
  ASSUME HoldInv, HoldCrash
  PROVE  HoldInv'
<1>0. HoldTypeOK
  BY DEF HoldInv
<1>1. /\ \A c \in Clerks : desk'[c] = None
      /\ desk' \in [Clerks -> HoldJob \cup {None}]
      /\ mixed' = (mixed \/ Generating # {})
      /\ sealed' = sealed /\ sigs' = sigs /\ kept' = kept /\ now' = now
      /\ promised' = promised /\ clobbered' = clobbered
  BY DEF HoldCrash
<1>2. \A c \in Clerks : (\A op : ~Doing(c, op)') /\ ~Generates(c)' /\ ~Writes(c)'
  BY <1>1 DEF Doing, Generates, Writes
<1>3. /\ hold_pub' \in {hold_pub, Torn} /\ hold_key' \in {hold_key, Torn}
      /\ Generating = {} => hold_pub' = hold_pub /\ hold_key' = hold_key
      /\ holds' \in [Ids -> Hold \cup {None, Torn}]
      /\ lost \subseteq lost' /\ lost' \subseteq Ids
      /\ \A i \in Ids : holds'[i] = holds[i] \/ (holds'[i] = Torn /\ i \in lost')
  <2>1. CASE UNCHANGED << hold_pub, hold_key, holds, lost >>
    BY <1>0, <2>1 DEF HoldTypeOK
  <2>2. ASSUME NEW c \in Clerks, Doing(c, "pub") \/ Doing(c, "key"),
               hold_pub' \in {hold_pub, Torn}, hold_key' \in {hold_key, Torn},
               UNCHANGED << holds, lost >>
        PROVE  <1>3
    <3>1. c \in Generating
      BY <2>2 DEF Doing, Generating
    <3> QED
      BY <1>0, <2>2, <3>1 DEF HoldTypeOK
  <2>3. ASSUME NEW c \in Clerks, Doing(c, "save") \/ Doing(c, "release"),
               holds' = [holds EXCEPT ![desk[c].id] = Torn], lost' = lost \cup {desk[c].id},
               UNCHANGED << hold_pub, hold_key >>
        PROVE  <1>3
    <3>1. desk[c].id \in Ids
      BY <1>0, <2>3, JobFields DEF Writes
    <3> QED
      BY <1>0, <2>3, <3>1 DEF HoldTypeOK
  <2> QED
    BY <2>1, <2>2, <2>3 DEF HoldCrash
<1>4. HoldTypeOK'
  BY <1>0, <1>1, <1>3 DEF HoldTypeOK
<1>5. KeysInv'
  <2> SUFFICES ASSUME ~mixed' PROVE hold_pub' = hold_key'
    BY <1>2 DEF KeysInv
  <2>1. \A c \in Clerks : ~Generates(c)
    BY <1>0, <1>1, JobFields
  <2>2. Generating = {} /\ ~mixed
    BY <1>1
  <2> QED
    BY <1>3, <2>1, <2>2 DEF HoldInv, KeysInv
<1>6. NewKeys' /\ \A d \in Clerks : JobSigned(d)' /\ JobInv(d)'
  BY <1>2 DEF NewKeys, JobSigned, JobInv
<1>7. ASSUME NEW i \in Ids PROVE Kept(i)'
  <2>1. CASE i \in lost'
    BY <2>1 DEF Kept
  <2>2. CASE i \notin lost'
    <3>1. Kept(i) /\ holds'[i] = holds[i] /\ promised'[i] = promised[i]
      BY <1>1, <1>3, <2>2 DEF HoldInv
    <3>2. hold_pub' = hold_pub \/ (promised[i] # None => promised[i].hold_key_pubkey # hold_pub')
      <4>1. promised[i] # None => promised[i].hold_key_pubkey \in HoldKeys
        BY <1>0, HoldFields DEF HoldTypeOK
      <4> QED
        BY <1>3, <4>1, HoldConstants
    <3> QED
      BY <1>1, <1>2, <1>3, <3>1, <3>2, KeptFrame
  <2> QED
    BY <2>1, <2>2
<1>8. HoldsSignedByTheirKey'
  <2>1. ASSUME NEW i \in Ids, OnFile(i)' PROVE OnFile(i) /\ holds'[i] = holds[i]
    BY <1>3, <2>1, HoldConstants DEF OnFile
  <2> QED
    BY <1>1, <2>1 DEF HoldInv, HoldsSignedByTheirKey
<1> QED
  BY <1>4, <1>5, <1>6, <1>7, <1>8 DEF HoldInv

\* Every step keeps HoldInv, action by action.
LEMMA HoldKept == HoldInv /\ [HoldNext]_holdvars => HoldInv'
<1> SUFFICES ASSUME HoldInv, [HoldNext]_holdvars PROVE HoldInv'
  OBVIOUS
<1>1. CASE HoldRequest
  BY <1>1, GenerateKeeps, PlaceKeeps, SignReleaseKeeps, ReleaseKeeps, RefusedKeeps
     DEF HoldRequest
<1>2. CASE HoldStep
  BY <1>2, WritePubKeeps, WriteKeyKeeps, SealKeyKeeps, PlaceSignKeeps, PlaceSaveKeeps,
     ReleaseSaveKeeps, SweepKeeps DEF HoldStep
<1>3. CASE HoldCrash
  BY <1>3, HoldCrashKeeps
<1>4. CASE UNCHANGED holdvars
  <2>1. HoldTypeOK'
    BY <1>4 DEF holdvars, HoldInv, HoldTypeOK
  <2> QED
    BY <1>4, <2>1, QuietKeeps DEF holdvars
<1> QED
  BY <1>1, <1>2, <1>3, <1>4 DEF HoldNext

\* HoldInv has the parts of HoldsSound.
LEMMA HoldInvSound == HoldInv => HoldsSound
BY DEF HoldInv, HoldsSound, PromisedHoldsStand, Kept, Same

\* A hold that place_hold confirmed stays on file, over its range, until the
\* holder of its key signs its release, and every hold is signed by the key it
\* names, for any number of requests, key generations and crashes; the exceptions
\* are those of PromisedHoldsStand and HoldsSignedByTheirKey, which the code makes
\* by naming holds after seconds, writing files in place and asking the present
\* hold.pub.
THEOREM HoldsStayInForce == GovernanceSpec => []HoldsSound
<1>1. GovernanceInit => HoldInv
  BY HoldStart DEF GovernanceInit
<1>2. HoldInv /\ [GovernanceNext]_govvars => HoldInv'
  BY StepOfHolds, HoldKept
<1> QED
  BY <1>1, <1>2, HoldInvSound, PTL DEF GovernanceSpec, GovernanceNext
=============================================================================
