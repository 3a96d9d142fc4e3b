-------------------------- MODULE ModelStoreProofs --------------------------
(***************************************************************************)
(* Proofs about ModelStore, for every set of models, contents, files and   *)
(* command processes and for every number of commands and faults.          *)
(***************************************************************************)
EXTENDS ModelStore, FiniteSetTheorems, TLAPS

\* The daemon and finitely many commands.
LEMMA ProcsFinite == IsFiniteSet(Procs)
BY StoreConstants, FS_Singleton, FS_Union DEF Procs

-----------------------------------------------------------------------------
(* Jobs: which fields go with which place in the code. *)

\* What a job's type says of its fields.
LEMMA JobFields ==
  ASSUME NEW j \in Job
  PROVE  /\ j.name \in Names /\ j.digest \in Digests \cup {None}
         /\ j.op # "remove" => j.digest \in Digests
         /\ j.at \in {"copy", "keep", "move", "insert"} => j.op \in {"import", "pull"}
         /\ j.at \in {"get", "delete", "list", "unlink"} => j.op = "remove"
         /\ j.at = "link" => j.op = "link" /\ j.name \in Defaults
<1>1. CASE j \in [op: {"import", "pull"}, name: Names, digest: Digests,
                  at: {"copy", "keep", "move", "insert"}]
  BY <1>1
<1>2. CASE j \in [op: {"remove"}, name: Names, digest: Digests \cup {None},
                  at: {"get", "delete", "list", "unlink"}]
  BY <1>2
<1>3. CASE j \in [op: {"link"}, name: Defaults, digest: Digests, at: {"link"}]
  BY <1>3, StoreConstants
<1> QED
  BY <1>1, <1>2, <1>3 DEF Job

\* An import that goes on is still an import of the same content.
LEMMA ImportGoesOn ==
  ASSUME NEW j \in Job, j.op \in {"import", "pull"},
         NEW a \in {"copy", "keep", "move", "insert"}
  PROVE  /\ [j EXCEPT !.at = a] \in Job
         /\ [j EXCEPT !.at = a].at = a
         /\ [j EXCEPT !.at = a].op = j.op /\ [j EXCEPT !.at = a].name = j.name
         /\ [j EXCEPT !.at = a].digest = j.digest
<1>1. j \in [op: {"import", "pull"}, name: Names, digest: Digests,
             at: {"copy", "keep", "move", "insert"}]
  BY DEF Job
<1> QED
  BY <1>1 DEF Job

\* A removal that goes on is still a removal.
LEMMA RemoveGoesOn ==
  ASSUME NEW j \in Job, j.op = "remove",
         NEW a \in {"get", "delete", "list", "unlink"},
         NEW d \in Digests \cup {None}
  PROVE  /\ [j EXCEPT !.at = a] \in Job
         /\ [j EXCEPT !.at = a].at = a
         /\ [j EXCEPT !.at = a].digest = j.digest
         /\ [j EXCEPT !.at = a, !.digest = d] \in Job
         /\ [j EXCEPT !.at = a, !.digest = d].at = a
<1>1. j \in [op: {"remove"}, name: Names, digest: Digests \cup {None},
             at: {"get", "delete", "list", "unlink"}]
  BY DEF Job
<1> QED
  BY <1>1 DEF Job

\* A process at work has a job.
LEMMA JobOf ==
  ASSUME StoreTypeOK, NEW p \in Procs, job[p] # None
  PROVE  job[p] \in Job
BY DEF StoreTypeOK

-----------------------------------------------------------------------------
(* Types. *)

\* What the actions do to the jobs and to the histories of digests.
JobsTyped(j, r, c) == /\ j \in [Procs -> Job \cup {None}]
                      /\ r \subseteq Digests /\ c \subseteq Digests

\* A job that takes another's place keeps the types.
LEMMA GoOnTyped ==
  ASSUME StoreTypeOK, NEW p \in Procs, NEW j \in Job \cup {None}, NEW good,
         GoOn(p, j, good)
  PROVE  JobsTyped(job', raced', cut')
<1>1. Meeting(job') \subseteq Digests
  BY DEF Meeting
<1> QED
  BY <1>1 DEF GoOn, StoreTypeOK, JobsTyped

\* A job that goes on keeps the types.
LEMMA GoesTyped ==
  ASSUME StoreTypeOK, NEW p \in Procs, job[p] # None, NEW a,
         \/ job[p].op \in {"import", "pull"} /\ a \in {"copy", "keep", "move", "insert"}
         \/ job[p].op = "remove" /\ a \in {"get", "delete", "list", "unlink"},
         Goes(p, a)
  PROVE  JobsTyped(job', raced', cut')
<1>1. job[p] \in Job
  BY JobOf
<1>2. [job[p] EXCEPT !.at = a] \in Job
  BY <1>1, ImportGoesOn, RemoveGoesOn
<1> QED
  BY <1>2, GoOnTyped DEF Goes

\* A job that ends keeps the types.
LEMMA EndsTyped ==
  ASSUME StoreTypeOK, NEW p \in Procs, Ends(p)
  PROVE  JobsTyped(job', raced', cut')
BY GoOnTyped DEF Ends

\* A job that begins keeps the types.
LEMMA BeginTyped ==
  ASSUME StoreTypeOK, NEW p \in Procs, NEW op, NEW n, NEW d, NEW a,
         [op |-> op, name |-> n, digest |-> d, at |-> a] \in Job,
         Begin(p, op, n, d, a)
  PROVE  JobsTyped(job', raced', cut')
BY GoOnTyped DEF Begin

\* The import of a local file keeps the types.
LEMMA ImportTyped ==
  ASSUME StoreTypeOK, NEW n \in Names, NEW d \in Digests, ImportLocal(n, d)
  PROVE  JobsTyped(job', raced', cut')
<1>1. [op |-> "import", name |-> n, digest |-> d, at |-> "copy"] \in Job
  BY DEF Job
<1>2. "daemon" \in Procs
  BY DEF Procs
<1>3. CASE rows[n] # None
  BY <1>3 DEF ImportLocal, StoreTypeOK, JobsTyped
<1>4. CASE rows[n] = None
  BY <1>1, <1>2, <1>4, BeginTyped DEF ImportLocal
<1> QED
  BY <1>3, <1>4

\* The variables beside the jobs and the histories.
FilesTyped(ro, bl, li, di, un) ==
    /\ ro \in [Names -> Digests \cup {None}]
    /\ bl \in [Digests -> {"absent", "whole", "torn"}]
    /\ li \in Nat /\ di \in [Files -> Digests \cup {None}]
    /\ un \subseteq Digests \cup Files

DaemonTyped(ph, to) == ph \in Booting \cup {"down", "up"} /\ to \subseteq Files \cup Defaults

CountsTyped(o, f, s) == o \in Nat /\ f \in Nat /\ s \in BOOLEAN

\* The type invariant by files, jobs, daemon and counts.
LEMMA TypeParts ==
  StoreTypeOK <=> /\ FilesTyped(rows, blobs, litter, dir, unsynced)
                  /\ JobsTyped(job, raced, cut)
                  /\ DaemonTyped(phase, todo) /\ CountsTyped(ops, faults, spilled)
BY DEF StoreTypeOK, FilesTyped, JobsTyped, DaemonTyped, CountsTyped

\* The same of the next state.
LEMMA TypePartsNext ==
  ASSUME FilesTyped(rows', blobs', litter', dir', unsynced'),
         JobsTyped(job', raced', cut'),
         DaemonTyped(phase', todo'), CountsTyped(ops', faults', spilled')
  PROVE  StoreTypeOK'
BY DEF StoreTypeOK, FilesTyped, JobsTyped, DaemonTyped, CountsTyped

\* A start that is given up leaves a daemon that is down.
LEMMA AbortTyped ==
  ASSUME StoreTypeOK, NEW p, Abort(p)
  PROVE  DaemonTyped(phase', todo')
BY DEF Abort, StoreTypeOK, DaemonTyped

\* A garbled models_dir still holds a content, or none, for each file.
LEMMA GarbledTyped ==
  ASSUME NEW F, NEW g \in Garbled(F)
  PROVE  g \in [Files -> Digests \cup {None}]
BY DEF Garbled

\* A link writes one of the files of models_dir.
LEMMA LinkingTyped == Linking \subseteq Files
BY StoreConstants DEF Linking

\* A step of a job keeps the types.
LEMMA StepTyped ==
  ASSUME StoreTypeOK, NEW p \in Procs, Step(p)
  PROVE  StoreTypeOK'
<1> USE StoreConstants, TypeParts
<1>0. /\ FilesTyped(rows, blobs, litter, dir, unsynced)
      /\ DaemonTyped(phase, todo) /\ CountsTyped(ops, faults, spilled)
  OBVIOUS
<1>j. ASSUME job[p] # None
      PROVE  /\ job[p] \in Job /\ job[p].name \in Names
             /\ job[p].digest \in Digests \cup {None}
             /\ job[p].op # "remove" => job[p].digest \in Digests
             /\ job[p].at \in {"copy", "keep", "move", "insert"}
                  => job[p].op \in {"import", "pull"} /\ job[p].digest \in Digests
             /\ job[p].at \in {"get", "delete", "list", "unlink"} => job[p].op = "remove"
  BY <1>j, JobOf, JobFields
<1>1. CASE Look(p)
  <2>1. JobsTyped(job', raced', cut')
    BY <1>1, <1>j, GoesTyped DEF Look, At
  <2> QED
    BY <1>1, <1>0, <2>1, TypePartsNext DEF Look, storevars
<1>2. CASE Settle(p)
  <2>1. job[p] # None /\ job[p].digest \in Digests /\ job[p] \in Job
        /\ job[p].op \in {"import", "pull"}
    BY <1>2, <1>j DEF Settle, At
  <2>2. JobsTyped(job', raced', cut')
    BY <1>2, <2>1, ImportGoesOn, GoOnTyped DEF Settle
  <2>3. FilesTyped(rows', blobs', litter', dir', unsynced')
    <3>1. blobs' \in [Digests -> {"absent", "whole", "torn"}]
      BY <1>2, <2>1, <1>0 DEF Settle, FilesTyped
    <3>2. unsynced' \in {unsynced, unsynced \cup {job[p].digest}, unsynced \ {job[p].digest}}
      BY <1>2, <2>1 DEF Settle
    <3> QED
      BY <1>2, <2>1, <1>0, <3>1, <3>2 DEF Settle, FilesTyped
  <2> QED
    BY <1>2, <1>0, <2>2, <2>3, TypePartsNext DEF Settle
<1>3. CASE Insert(p)
  <2>1. JobsTyped(job', raced', cut')
    BY <1>3, EndsTyped DEF Insert
  <2>2. FilesTyped(rows', blobs', litter', dir', unsynced')
    BY <1>3, <1>0, <1>j DEF Insert, insert, At, FilesTyped
  <2> QED
    BY <1>3, <1>0, <2>1, <2>2, TypePartsNext DEF Insert
<1>4. CASE InsertFails(p)
  <2>1. JobsTyped(job', raced', cut') /\ DaemonTyped(phase', todo')
    BY <1>4, EndsTyped, AbortTyped DEF InsertFails
  <2>2. CountsTyped(ops', faults', spilled')
    BY <1>4, <1>0 DEF InsertFails, CountsTyped
  <2> QED
    BY <1>4, <1>0, <2>1, <2>2, TypePartsNext DEF InsertFails, storevars
<1>5. CASE CopyFails(p)
  <2>1. JobsTyped(job', raced', cut') /\ DaemonTyped(phase', todo')
    BY <1>5, EndsTyped, AbortTyped DEF CopyFails
  <2>2. CountsTyped(ops', faults', spilled')
    BY <1>5, <1>0 DEF CopyFails, CountsTyped
  <2>3. FilesTyped(rows', blobs', litter', dir', unsynced')
    BY <1>5, <1>0 DEF CopyFails, FilesTyped
  <2> QED
    BY <2>1, <2>2, <2>3, TypePartsNext
<1>6. CASE RemoveGet(p)
  <2>1. job[p] # None /\ job[p] \in Job /\ job[p].op = "remove" /\ job[p].name \in Names
    BY <1>6, <1>j DEF RemoveGet, At
  <2>2. rows[job[p].name] \in Digests \cup {None}
    BY <2>1, <1>0 DEF FilesTyped
  <2>3. JobsTyped(job', raced', cut')
    BY <1>6, <2>1, <2>2, RemoveGoesOn, GoOnTyped DEF RemoveGet
  <2> QED
    BY <1>6, <1>0, <2>3, TypePartsNext DEF RemoveGet, storevars
<1>7. CASE RemoveDelete(p)
  <2>1. JobsTyped(job', raced', cut')
    BY <1>7, <1>j, GoesTyped, EndsTyped DEF RemoveDelete, At
  <2>2. FilesTyped(rows', blobs', litter', dir', unsynced')
    BY <1>7, <1>0, <1>j DEF RemoveDelete, delete, At, FilesTyped
  <2>3. spilled' \in BOOLEAN
    <3>1. spilled' = (spilled \/ (rows[job[p].name] # None
                                  /\ rows[job[p].name] # job[p].digest))
      BY <1>7 DEF RemoveDelete
    <3> QED
      BY <3>1, Zenon
  <2> QED
    BY <1>7, <1>0, <2>1, <2>2, <2>3, TypePartsNext DEF RemoveDelete, CountsTyped
<1>8. CASE RemoveList(p)
  <2>1. JobsTyped(job', raced', cut')
    BY <1>8, <1>j, GoesTyped, EndsTyped DEF RemoveList, At
  <2> QED
    BY <1>8, <1>0, <2>1, TypePartsNext DEF RemoveList, storevars
<1>9. CASE RemoveUnlink(p)
  <2>1. JobsTyped(job', raced', cut')
    BY <1>9, EndsTyped DEF RemoveUnlink
  <2>2. FilesTyped(rows', blobs', litter', dir', unsynced')
    BY <1>9, <1>0 DEF RemoveUnlink, FilesTyped
  <2>3. CountsTyped(ops', faults', spilled')
    <3>1. spilled' = spilled \/ spilled' = TRUE
      BY <1>9 DEF RemoveUnlink
    <3>2. ops' \in Nat /\ faults' \in Nat
      BY <1>9, <1>0 DEF RemoveUnlink, CountsTyped
    <3> QED
      BY <1>0, <3>1, <3>2 DEF CountsTyped
  <2> QED
    BY <1>9, <1>0, <2>1, <2>2, <2>3, TypePartsNext DEF RemoveUnlink
<1>10. CASE RemoveFails(p)
  <2>1. JobsTyped(job', raced', cut')
    BY <1>10, EndsTyped DEF RemoveFails
  <2>2. spilled' \in BOOLEAN
    <3>1. spilled' = (spilled \/ At(p, "list"))
      BY <1>10 DEF RemoveFails
    <3> QED
      BY <3>1, Zenon
  <2>3. CountsTyped(ops', faults', spilled')
    BY <1>10, <1>0, <2>2 DEF RemoveFails, CountsTyped
  <2> QED
    BY <1>10, <1>0, <2>1, <2>3, TypePartsNext DEF RemoveFails, storevars
<1> QED
  BY <1>1, <1>2, <1>3, <1>4, <1>5, <1>6, <1>7, <1>8, <1>9, <1>10 DEF Step

\* The files of models_dir that the first stage still has to visit are there:
\* a file never leaves the directory.
Visits == phase = "local" => \A f \in todo \cap Files : dir[f] # None

\* A step of the bootstrap keeps the types.
LEMMA BootTyped ==
  ASSUME StoreTypeOK, Visits, Bootstrap
  PROVE  StoreTypeOK'
<1> USE StoreConstants, TypeParts
<1>0. /\ FilesTyped(rows, blobs, litter, dir, unsynced) /\ JobsTyped(job, raced, cut)
      /\ DaemonTyped(phase, todo) /\ CountsTyped(ops, faults, spilled)
  OBVIOUS
<1>d. "daemon" \in Procs
  BY DEF Procs
<1>f. \A n \in Defaults : n \in Names /\ LocalFile[n] \in Files
                         /\ Upstream[n] \in Digests
  OBVIOUS
<1>1. ASSUME NEW f \in Files, BootLocal(f) PROVE StoreTypeOK'
  <2>1. DaemonTyped(phase', todo')
    BY <1>1, <1>0 DEF BootLocal, DaemonTyped
  <2>2. SpecOf[f] \in Names /\ dir[f] \in Digests
    BY <1>0, <1>1 DEF FilesTyped, BootLocal, Visits
  <2>3. JobsTyped(job', raced', cut')
    BY <1>1, <2>2, ImportTyped DEF BootLocal
  <2> QED
    BY <1>1, <1>0, <2>1, <2>3, TypePartsNext DEF BootLocal, storevars
<1>2. ASSUME NEW n \in Defaults, BootLink(n) PROVE StoreTypeOK'
  <2>1. DaemonTyped(phase', todo')
    BY <1>2, <1>0 DEF BootLink, DaemonTyped
  <2>2. JobsTyped(job', raced', cut')
    <3>1. CASE UNCHANGED << job, raced, cut >>
      BY <3>1, <1>0
    <3>2. CASE rows[n] # None /\ Begin("daemon", "link", n, rows[n], "link")
      <4>1. rows[n] \in Digests
        BY <3>2, <1>0, <1>f DEF FilesTyped
      <4>2. [op |-> "link", name |-> n, digest |-> rows[n], at |-> "link"] \in Job
        BY <4>1 DEF Job
      <4> QED
        BY <3>2, <4>2, <1>d, BeginTyped
    <3> QED
      BY <1>2, <3>1, <3>2 DEF BootLink
  <2> QED
    BY <1>2, <1>0, <2>1, <2>2, TypePartsNext DEF BootLink, storevars
<1>3. ASSUME NEW n \in Defaults, BootEnsure(n) \/ BootFetched(n) PROVE StoreTypeOK'
  <2>1. DaemonTyped(phase', todo')
    BY <1>3, <1>0 DEF BootEnsure, BootFetched, DaemonTyped
  <2>2. dir[LocalFile[n]] \in Digests \cup {None}
    BY <1>0, <1>f DEF FilesTyped
  <2>3. JobsTyped(job', raced', cut')
    <3>1. CASE UNCHANGED << job, raced, cut >>
      BY <3>1, <1>0
    <3>2. CASE dir[LocalFile[n]] # None /\ ImportLocal(n, dir[LocalFile[n]])
      BY <2>2, <3>2, <1>f, ImportTyped
    <3> QED
      BY <1>3, <3>1, <3>2 DEF BootEnsure, BootFetched
  <2> QED
    BY <1>3, <1>0, <2>1, <2>3, TypePartsNext DEF BootEnsure, BootFetched, storevars
<1>4. ASSUME NEW n \in Defaults, BootDownload(n) PROVE StoreTypeOK'
  <2>1. DaemonTyped(phase', todo') /\ CountsTyped(ops', faults', spilled')
    <3>1. spilled' = spilled \/ spilled' = TRUE
      BY <1>4 DEF BootDownload
    <3>2. ops' \in Nat /\ faults' \in Nat /\ DaemonTyped(phase', todo')
      BY <1>4, <1>0 DEF BootDownload, CountsTyped, DaemonTyped
    <3> QED
      BY <1>0, <3>1, <3>2 DEF CountsTyped
  <2>2. FilesTyped(rows', blobs', litter', dir', unsynced')
    BY <1>4, <1>0, <1>f DEF BootDownload, FilesTyped
  <2> QED
    BY <1>4, <1>0, <2>1, <2>2, TypePartsNext DEF BootDownload
<1>5. CASE BootLinked
  <2>1. JobsTyped(job', raced', cut')
    BY <1>5, <1>d, EndsTyped DEF BootLinked
  <2>2. job["daemon"].name \in Defaults /\ job["daemon"].digest \in Digests
    BY <1>5, <1>d, JobOf, JobFields DEF BootLinked, At
  <2>3. dir' \in [Files -> Digests \cup {None}]
    <3>1. PICK c \in Digests : dir' = [dir EXCEPT ![LocalFile[job["daemon"].name]] = c]
      BY <1>5, <2>2 DEF BootLinked
    <3> QED
      BY <1>0, <3>1 DEF FilesTyped
  <2>4. unsynced' \subseteq Digests \cup Files
    BY <1>5, <1>0, LinkingTyped DEF BootLinked, FilesTyped
  <2>5. FilesTyped(rows', blobs', litter', dir', unsynced')
    BY <1>5, <1>0, <2>3, <2>4 DEF BootLinked, FilesTyped
  <2> QED
    BY <1>5, <1>0, <2>1, <2>5, TypePartsNext DEF BootLinked
<1>6. CASE BootScan \/ BootPrompt \/ BootNext
  <2>1. DaemonTyped(phase', todo')
    BY <1>6, <1>0 DEF BootScan, BootPrompt, BootNext, DaemonTyped, Missing, Booting
  <2> QED
    BY <1>6, <1>0, <2>1, TypePartsNext DEF BootScan, BootPrompt, BootNext, storevars, ghosts
<1>7. CASE BootLinkFails
  <2>1. JobsTyped(job', raced', cut') /\ DaemonTyped(phase', todo')
    BY <1>7, <1>d, EndsTyped, AbortTyped DEF BootLinkFails
  <2>2. FilesTyped(rows', blobs', litter', dir', unsynced')
    BY <1>7, <1>0, GarbledTyped, LinkingTyped DEF BootLinkFails, FilesTyped
  <2>3. CountsTyped(ops', faults', spilled')
    BY <1>7, <1>0 DEF BootLinkFails, CountsTyped
  <2> QED
    BY <2>1, <2>2, <2>3, TypePartsNext
<1> QED
  BY <1>1, <1>2, <1>3, <1>4, <1>5, <1>6, <1>7 DEF Bootstrap, BootStep

\* A command or request keeps the types.
LEMMA CommandTyped ==
  ASSUME StoreTypeOK, NEW p \in Procs, NEW n \in Names,
         \/ CliRemove(p, n) \/ remove_model(n)
         \/ \E d \in Digests : CliPull(p, n, d) \/ CliImport(p, n, d)
  PROVE  StoreTypeOK'
<1> USE TypeParts
<1>0. /\ FilesTyped(rows, blobs, litter, dir, unsynced)
      /\ DaemonTyped(phase, todo) /\ CountsTyped(ops, faults, spilled)
  OBVIOUS
<1>1. [op |-> "remove", name |-> n, digest |-> None, at |-> "get"] \in Job
  BY DEF Job
<1>2. \A d \in Digests :
         /\ [op |-> "pull", name |-> n, digest |-> d, at |-> "copy"] \in Job
         /\ [op |-> "import", name |-> n, digest |-> d, at |-> "copy"] \in Job
  BY DEF Job
<1>3. JobsTyped(job', raced', cut')
  <2>1. CASE CliRemove(p, n)
    BY <2>1, <1>1, BeginTyped DEF CliRemove
  <2>2. CASE remove_model(n)
    BY <2>2, <1>1, BeginTyped DEF remove_model, Procs
  <2>3. ASSUME NEW d \in Digests, CliPull(p, n, d) \/ CliImport(p, n, d)
        PROVE  JobsTyped(job', raced', cut')
    BY <2>3, <1>2, BeginTyped DEF CliPull, CliImport
  <2> QED
    BY <2>1, <2>2, <2>3
<1>4. ops' = ops + 1 /\ UNCHANGED << storevars, phase, todo, faults, spilled >>
  BY DEF CliRemove, remove_model, CliPull, CliImport, Counted, Idle
<1>5. CountsTyped(ops', faults', spilled')
  BY <1>0, <1>4 DEF CountsTyped
<1> QED
  BY <1>0, <1>3, <1>4, <1>5, TypePartsNext DEF storevars

\* A crash, a power loss and a start keep the types.
LEMMA FaultTyped ==
  ASSUME StoreTypeOK, (\E p \in Procs : Crash(p)) \/ PowerLoss \/ Start
  PROVE  StoreTypeOK'
<1> USE TypeParts
<1>0. /\ FilesTyped(rows, blobs, litter, dir, unsynced) /\ JobsTyped(job, raced, cut)
      /\ DaemonTyped(phase, todo) /\ CountsTyped(ops, faults, spilled)
  OBVIOUS
<1>1. ASSUME NEW p \in Procs, Crash(p) PROVE StoreTypeOK'
  <2>1. JobsTyped(job', raced', cut')
    BY <1>1, EndsTyped DEF Crash
  <2>2. DaemonTyped(phase', todo') /\ CountsTyped(ops', faults', spilled')
    BY <1>1, <1>0 DEF Crash, DaemonTyped, CountsTyped
  <2>3. FilesTyped(rows', blobs', litter', dir', unsynced')
    BY <1>1, <1>0, GarbledTyped, LinkingTyped DEF Crash, FilesTyped
  <2> QED
    BY <2>1, <2>2, <2>3, TypePartsNext
<1>2. CASE PowerLoss
  <2>1. JobsTyped(job', raced', cut')
    BY <1>2, <1>0 DEF PowerLoss, JobsTyped, FilesTyped
  <2>2. DaemonTyped(phase', todo') /\ CountsTyped(ops', faults', spilled')
    BY <1>2, <1>0 DEF PowerLoss, DaemonTyped, CountsTyped
  <2>3. Cardinality({p \in Procs : HasTemp(p)}) \in Nat
    <3>1. IsFiniteSet({p \in Procs : HasTemp(p)})
      BY ProcsFinite, FS_Subset
    <3> QED
      BY <3>1, FS_CardinalityType
  <2>4. litter' \in Nat
    BY <1>2, <1>0, <2>3 DEF PowerLoss, FilesTyped
  <2>5. FilesTyped(rows', blobs', litter', dir', unsynced')
    BY <1>2, <1>0, <2>4, GarbledTyped DEF PowerLoss, FilesTyped
  <2> QED
    BY <2>1, <2>2, <2>5, TypePartsNext
<1>3. CASE Start
  <2>1. DaemonTyped(phase', todo')
    BY <1>3, <1>0 DEF Start, DaemonTyped, Booting, Present
  <2> QED
    BY <1>3, <1>0, <2>1, TypePartsNext DEF Start, storevars, ghosts
<1> QED
  BY <1>1, <1>2, <1>3

\* The bootstrap stays at files that are there.
LEMMA VisitsNext ==
  ASSUME StoreTypeOK, Visits, [Next]_vars
  PROVE  Visits'
<1>1. phase' = "local" => \A f \in Files : dir[f] # None => dir'[f] # None
  <2>1. CASE UNCHANGED dir
    BY <2>1
  <2>2. ASSUME NEW n \in Defaults, BootDownload(n)
        PROVE  \A f \in Files : dir[f] # None => dir'[f] # None
    BY <2>2, StoreConstants DEF BootDownload, StoreTypeOK
  <2>3. CASE BootLinked
    <3>1. job["daemon"].digest \in Digests
      BY <2>3, JobOf, JobFields DEF BootLinked, At, Procs
    <3>2. PICK c \in Digests : dir' = [dir EXCEPT ![LocalFile[job["daemon"].name]] = c]
      BY <2>3, <3>1 DEF BootLinked
    <3> QED
      BY <3>2, StoreConstants DEF StoreTypeOK
  <2>4. CASE BootLinkFails
    BY <2>4 DEF BootLinkFails, Abort, Booting
  <2>5. ASSUME NEW p \in Procs, Crash(p) PROVE UNCHANGED dir \/ phase' = "down"
    BY <2>5 DEF Crash
  <2>6. CASE PowerLoss
    BY <2>6 DEF PowerLoss
  <2> QED
    BY <2>1, <2>2, <2>3, <2>4, <2>5, <2>6
    DEF Next, vars, storevars, Step, Look, Settle, Insert, InsertFails, CopyFails,
        RemoveGet, RemoveDelete, RemoveList, RemoveFails, RemoveUnlink, Bootstrap, BootStep,
        BootLocal, BootLink, BootEnsure, BootFetched, BootScan, BootPrompt, BootNext,
        CliRemove, CliPull, CliImport, remove_model, Idle, Start
<1>2. phase' = "local" => \/ phase = "local" /\ todo' \subseteq todo
                          \/ todo' = Present /\ UNCHANGED dir
  <2>1. CASE UNCHANGED phase /\ todo' \subseteq todo
    BY <2>1
  <2>2. ASSUME NEW p \in Procs, Step(p) \/ Crash(p)
        PROVE  (UNCHANGED phase /\ todo' \subseteq todo) \/ phase' = "down"
    BY <2>2 DEF Step, Look, Settle, Insert, InsertFails, CopyFails, Abort, RemoveGet,
                RemoveDelete, RemoveList, RemoveFails, RemoveUnlink, Crash
  <2>3. CASE Bootstrap
    <3>1. ASSUME NEW f \in Files, BootLocal(f) PROVE UNCHANGED phase /\ todo' \subseteq todo
      BY <3>1 DEF BootLocal
    <3>2. ASSUME NEW n \in Defaults, BootLink(n)
          PROVE  (UNCHANGED phase /\ todo' \subseteq todo) \/ phase' = "down"
      BY <3>2 DEF BootLink
    <3>3. ASSUME NEW n \in Defaults, BootEnsure(n) \/ BootDownload(n) \/ BootFetched(n)
          PROVE  (UNCHANGED phase /\ todo' \subseteq todo) \/ phase' = "down"
      BY <3>3 DEF BootEnsure, BootDownload, BootFetched
    <3>4. CASE BootLinked \/ BootLinkFails
      BY <3>4 DEF BootLinked, BootLinkFails, Abort
    <3>5. CASE BootScan \/ BootPrompt \/ BootNext
      BY <3>5 DEF BootScan, BootPrompt, BootNext
    <3> QED
      BY <2>3, <3>1, <3>2, <3>3, <3>4, <3>5 DEF Bootstrap, BootStep
  <2>4. CASE Start \/ PowerLoss
    BY <2>4 DEF Start, storevars, PowerLoss
  <2>5. ASSUME NEW p \in Procs, NEW n \in Names,
               \/ CliRemove(p, n) \/ remove_model(n)
               \/ \E d \in Digests : CliPull(p, n, d) \/ CliImport(p, n, d)
        PROVE  UNCHANGED phase /\ todo' \subseteq todo
    BY <2>5 DEF CliRemove, remove_model, CliPull, CliImport, Idle
  <2>6. CASE UNCHANGED vars
    BY <2>1, <2>6 DEF vars, procvars
  <2> QED
    BY <2>1, <2>2, <2>3, <2>4, <2>5, <2>6 DEF Next, Procs
<1> QED
  BY <1>1, <1>2 DEF Visits, Present

TypeInv == StoreTypeOK /\ Visits

\* Every step keeps TypeInv.
LEMMA TypeInvNext == TypeInv /\ [Next]_vars => TypeInv'
<1> SUFFICES ASSUME StoreTypeOK, Visits, [Next]_vars PROVE StoreTypeOK'
  BY VisitsNext DEF TypeInv
<1>1. CASE UNCHANGED vars
  BY <1>1 DEF vars, storevars, procvars, ghosts, StoreTypeOK
<1> QED
  BY <1>1, StepTyped, BootTyped, CommandTyped, FaultTyped DEF Next, Procs

\* The empty store is typed.
LEMMA InitTyped == Init => TypeInv
<1> SUFFICES ASSUME Init PROVE TypeInv
  OBVIOUS
<1>1. FilesTyped(rows, blobs, litter, dir, unsynced) /\ DaemonTyped(phase, todo)
  BY DEF Init, FilesTyped, DaemonTyped
<1>2. JobsTyped(job, raced, cut) /\ Visits
  BY DEF Init, JobsTyped, Visits
<1>3. CountsTyped(ops, faults, spilled)
  BY DEF Init, CountsTyped
<1> QED
  BY <1>1, <1>2, <1>3, TypeParts DEF TypeInv

\* The type invariant of the model store.
THEOREM StoreTyped == Spec => []StoreTypeOK
<1>1. TypeInv => StoreTypeOK
  BY DEF TypeInv
<1> QED
  BY InitTyped, <1>1, TypeInvNext, PTL DEF Spec

-----------------------------------------------------------------------------
(* RowsHaveBlobs.  It is not inductive: that a row is made for a blob that *)
(* is still there, and that a blob is unlinked when no row needs it, was   *)
(* decided steps earlier, and holds only because whoever spoils it in      *)
(* between meets the process on the digest.                                *)

Sound(d) == blobs[d] = "whole" \/ d \in raced \cup cut

TornIsCut == \A d \in Digests : blobs[d] = "torn" => d \in cut

\* import_blob and pull_from_url have found or placed the blob.
Placed(j) == (j # None /\ j.at \in {"keep", "insert"}) => Sound(j.digest)

\* remove has found no other row of the digest.
Unneeded(j) == (j # None /\ j.at = "unlink")
                 => \A n \in Names : rows[n] = j.digest /\ rows[n] # None => rows[n] \in raced

BlobInv ==
    /\ TypeInv /\ RowsHaveBlobs /\ TornIsCut
    /\ \A p \in Procs : Placed(job[p]) /\ Unneeded(job[p])
    /\ Meeting(job) \subseteq raced

\* A job that goes on changes no other, and what it meets is raced.
LEMMA GoOnJobs ==
  ASSUME StoreTypeOK, NEW p \in Procs, NEW j, NEW good, GoOn(p, j, good)
  PROVE  /\ job'[p] = j /\ \A q \in Procs \ {p} : job'[q] = job[q]
         /\ Meeting(job') \subseteq raced' /\ raced \ good \subseteq raced'
         /\ cut' = cut \ good
BY DEF GoOn, StoreTypeOK

\* A process goes on and the rows and the blobs stay.
LEMMA QuietStep ==
  ASSUME BlobInv, TypeInv', NEW p \in Procs, UNCHANGED << rows, blobs >>,
         raced \subseteq raced', cut' = cut, Meeting(job') \subseteq raced',
         \A q \in Procs \ {p} : job'[q] = job[q],
         Placed(job[p])', Unneeded(job[p])'
  PROVE  BlobInv'
<1>1. RowsHaveBlobs' /\ TornIsCut'
  BY DEF BlobInv, RowsHaveBlobs, TornIsCut
<1>2. ASSUME NEW q \in Procs PROVE Placed(job[q])' /\ Unneeded(job[q])'
  <2>1. CASE q = p
    BY <2>1
  <2>2. CASE q # p
    <3>1. job'[q] = job[q] /\ Placed(job[q]) /\ Unneeded(job[q])
      BY <2>2 DEF BlobInv
    <3>2. Placed(job[q])'
      BY <3>1 DEF Placed, Sound
    <3>3. Unneeded(job[q])'
      BY <3>1 DEF Unneeded
    <3> QED
      BY <3>2, <3>3
  <2> QED
    BY <2>1, <2>2
<1> QED
  BY <1>1, <1>2 DEF BlobInv

\* It goes to a place that expects nothing of the blob.
LEMMA CarefreeStep ==
  ASSUME BlobInv, TypeInv', NEW p \in Procs, NEW j, GoOn(p, j, {}),
         UNCHANGED << rows, blobs >>,
         j = None \/ j.at \notin {"keep", "insert", "unlink"}
  PROVE  BlobInv'
<1>1. StoreTypeOK
  BY DEF BlobInv, TypeInv
<1>2. /\ job'[p] = j /\ \A q \in Procs \ {p} : job'[q] = job[q]
      /\ Meeting(job') \subseteq raced' /\ raced \subseteq raced' /\ cut' = cut
  BY <1>1, GoOnJobs
<1>3. Placed(job[p])' /\ Unneeded(job[p])'
  BY <1>2 DEF Placed, Unneeded
<1> QED
  BY <1>2, <1>3, QuietStep

\* A settled blob is whole; a pull's rename makes it so too.
LEMMA SettleSound ==
  ASSUME BlobInv, TypeInv', NEW p \in Procs, Settle(p)
  PROVE  BlobInv'
<1> DEFINE d == job[p].digest
           j == [job[p] EXCEPT !.at = "insert"]
<1>1. StoreTypeOK
  BY DEF BlobInv, TypeInv
<1>2. job[p] # None /\ job[p] \in Job /\ job[p].op \in {"import", "pull"} /\ d \in Digests
  BY <1>1, JobOf, JobFields DEF Settle, At
<1>3. j \in Job /\ j.at = "insert" /\ j.op = job[p].op /\ j.digest = d
  BY <1>2, ImportGoesOn
<1> HIDE DEF j
<1>4. CASE job[p].at = "keep"
  <2>1. GoOn(p, j, {}) /\ UNCHANGED << rows, blobs >>
    BY <1>4 DEF Settle, j
  <2>2. /\ job'[p] = j /\ \A q \in Procs \ {p} : job'[q] = job[q]
        /\ Meeting(job') \subseteq raced' /\ raced \subseteq raced' /\ cut' = cut
    BY <1>1, <2>1, GoOnJobs
  <2>3. Placed(job[p])' /\ Unneeded(job[p])'
    <3>1. Sound(d)
      BY <1>2, <1>4 DEF BlobInv, Placed
    <3> QED
      BY <1>3, <2>1, <2>2, <3>1 DEF Placed, Unneeded, Sound
  <2> QED
    BY <2>1, <2>2, <2>3, QuietStep
<1>5. CASE job[p].at = "move"
  <2>1. GoOn(p, j, {d}) /\ UNCHANGED rows /\ blobs' = [blobs EXCEPT ![d] = "whole"]
    BY <1>5 DEF Settle, j
  <2>2. /\ job'[p] = j /\ \A q \in Procs \ {p} : job'[q] = job[q]
        /\ Meeting(job') \subseteq raced' /\ raced \ {d} \subseteq raced'
        /\ cut' = cut \ {d}
    BY <1>1, <2>1, GoOnJobs
  <2>3. blobs'[d] = "whole" /\ \A e \in Digests \ {d} : blobs'[e] = blobs[e]
    BY <1>1, <1>2, <2>1 DEF StoreTypeOK
  <2>4. RowsHaveBlobs' /\ TornIsCut'
    <3>1. rows \in [Names -> Digests \cup {None}]
      BY <1>1 DEF StoreTypeOK
    <3>2. RowsHaveBlobs /\ TornIsCut
      BY DEF BlobInv
    <3> QED
      BY <2>1, <2>2, <2>3, <3>1, <3>2 DEF RowsHaveBlobs, TornIsCut
  <2>5. ASSUME NEW q \in Procs PROVE Placed(job[q])' /\ Unneeded(job[q])'
    <3>1. CASE q = p
      BY <1>3, <2>2, <2>3, <3>1 DEF Placed, Unneeded, Sound
    <3>2. CASE q # p
      <4>1. job'[q] = job[q] /\ Placed(job[q]) /\ Unneeded(job[q])
        BY <2>2, <3>2 DEF BlobInv
      <4>2. ASSUME job[q] # None, job[q].at \in {"keep", "insert"}
            PROVE  Sound(job[q].digest)'
        <5>1. job[q].digest \in Digests /\ Sound(job[q].digest)
          BY <1>1, <4>1, <4>2, JobOf, JobFields DEF Placed
        <5> QED
          BY <2>2, <2>3, <4>1, <5>1 DEF Sound
      <4>3. ASSUME NEW n \in Names, job[q] # None, job[q].at = "unlink",
                   rows[n] = job[q].digest, rows[n] # None
            PROVE  rows[n] \in raced'
        <5>1. rows[n] \in raced
          BY <4>1, <4>3 DEF Unneeded
        <5>2. CASE rows[n] # d
          BY <2>2, <5>1, <5>2
        <5>3. CASE rows[n] = d
          <6>1. job[q].op = "remove" /\ job[q].digest = d
            BY <1>1, <4>3, <5>3, JobOf, JobFields
          <6>2. job'[p] # None
            BY <1>3, <2>2, NoneIsNoJob
          <6>3. d \in Meeting(job')
            BY <1>2, <1>3, <2>2, <3>2, <4>1, <4>3, <6>1, <6>2 DEF Meeting
          <6> QED
            BY <2>2, <5>3, <6>3
        <5> QED
          BY <5>2, <5>3
      <4>4. Placed(job[q])'
        BY <4>1, <4>2 DEF Placed
      <4>5. Unneeded(job[q])'
        BY <2>1, <4>1, <4>3 DEF Unneeded
      <4> QED
        BY <4>4, <4>5
    <3> QED
      BY <3>1, <3>2
  <2> QED
    BY <2>2, <2>4, <2>5 DEF BlobInv
<1> QED
  BY <1>4, <1>5 DEF Settle, At

\* A row is inserted where Placed has its blob.
LEMMA InsertSound ==
  ASSUME BlobInv, TypeInv', NEW p \in Procs, Insert(p)
  PROVE  BlobInv'
<1> DEFINE d == job[p].digest
           n == job[p].name
<1>1. StoreTypeOK
  BY DEF BlobInv, TypeInv
<1>2. job[p] # None /\ job[p].op \in {"import", "pull"} /\ d \in Digests /\ n \in Names
  BY <1>1, JobOf, JobFields DEF Insert, At
<1>3. rows' = [rows EXCEPT ![n] = d] /\ UNCHANGED blobs /\ GoOn(p, None, {})
  BY DEF Insert, insert, Ends
<1>4. /\ job'[p] = None /\ \A q \in Procs \ {p} : job'[q] = job[q]
      /\ Meeting(job') \subseteq raced' /\ raced \subseteq raced' /\ cut' = cut
  BY <1>1, <1>3, GoOnJobs
<1>5. rows'[n] = d /\ \A m \in Names \ {n} : rows'[m] = rows[m]
  BY <1>1, <1>2, <1>3 DEF StoreTypeOK
<1>6. Sound(d)
  BY <1>2 DEF BlobInv, Placed, Insert, At
<1>7. RowsHaveBlobs' /\ TornIsCut'
  <2>1. RowsHaveBlobs /\ TornIsCut
    BY DEF BlobInv
  <2> QED
    BY <1>3, <1>4, <1>5, <1>6, <2>1 DEF RowsHaveBlobs, TornIsCut, Sound
<1>8. ASSUME NEW q \in Procs PROVE Placed(job[q])' /\ Unneeded(job[q])'
  <2>1. CASE q = p
    BY <1>4, <2>1 DEF Placed, Unneeded
  <2>2. CASE q # p
    <3>1. job'[q] = job[q] /\ Placed(job[q]) /\ Unneeded(job[q])
      BY <1>4, <2>2 DEF BlobInv
    <3>2. Placed(job[q])'
      BY <1>3, <1>4, <3>1 DEF Placed, Sound
    <3>3. ASSUME NEW m \in Names, job[q] # None, job[q].at = "unlink",
                 rows'[m] = job[q].digest, rows'[m] # None
          PROVE  rows'[m] \in raced'
      <4>1. CASE m # n
        BY <1>4, <1>5, <3>1, <3>3, <4>1 DEF Unneeded
      <4>2. CASE m = n
        <5>1. job[q].op = "remove" /\ job[q].digest = d
          BY <1>1, <1>5, <3>3, <4>2, JobOf, JobFields
        <5>2. d \in Meeting(job)
          BY <1>2, <2>2, <3>3, <5>1 DEF Meeting
        <5> QED
          BY <1>4, <1>5, <4>2, <5>2 DEF BlobInv
      <4> QED
        BY <4>1, <4>2
    <3>4. Unneeded(job[q])'
      BY <3>1, <3>3 DEF Unneeded
    <3> QED
      BY <3>2, <3>4
  <2> QED
    BY <2>1, <2>2
<1> QED
  BY <1>4, <1>7, <1>8 DEF BlobInv

\* A blob is unlinked where Unneeded has no row on it.
LEMMA UnlinkSound ==
  ASSUME BlobInv, TypeInv', NEW p \in Procs, RemoveUnlink(p)
  PROVE  BlobInv'
<1> DEFINE d == job[p].digest
<1>1. StoreTypeOK
  BY DEF BlobInv, TypeInv
<1>2. job[p] # None /\ job[p].op = "remove" /\ d \in Digests \cup {None}
  BY <1>1, JobOf, JobFields DEF RemoveUnlink, At
<1>3. UNCHANGED rows /\ GoOn(p, None, {})
  BY DEF RemoveUnlink, Ends
<1>4. /\ job'[p] = None /\ \A q \in Procs \ {p} : job'[q] = job[q]
      /\ Meeting(job') \subseteq raced' /\ raced \subseteq raced' /\ cut' = cut
  BY <1>1, <1>3, GoOnJobs
<1>5. CASE UNCHANGED blobs
  BY <1>3, <1>5, CarefreeStep
<1>6. CASE blobs' = [blobs EXCEPT ![d] = "absent"]
  <2>1. \A e \in Digests : blobs'[e] = IF e = d THEN "absent" ELSE blobs[e]
    BY <1>1, <1>6 DEF StoreTypeOK
  <2>2. TornIsCut'
    BY <1>4, <2>1 DEF BlobInv, TornIsCut
  <2>3. RowsHaveBlobs'
    <3>1. RowsHaveBlobs /\ rows \in [Names -> Digests \cup {None}]
      BY <1>1 DEF BlobInv, StoreTypeOK
    <3>2. ASSUME NEW n \in Names, rows[n] = d, rows[n] # None PROVE d \in raced
      BY <1>2, <3>2 DEF BlobInv, Unneeded, RemoveUnlink, At
    <3> QED
      BY <1>3, <1>4, <2>1, <3>1, <3>2 DEF RowsHaveBlobs
  <2>4. ASSUME NEW q \in Procs PROVE Placed(job[q])' /\ Unneeded(job[q])'
    <3>1. CASE q = p
      BY <1>4, <3>1 DEF Placed, Unneeded
    <3>2. CASE q # p
      <4>1. job'[q] = job[q] /\ Placed(job[q]) /\ Unneeded(job[q])
        BY <1>4, <3>2 DEF BlobInv
      <4>2. Unneeded(job[q])'
        BY <1>3, <1>4, <4>1 DEF Unneeded
      <4>3. ASSUME job[q] # None, job[q].at \in {"keep", "insert"}
            PROVE  Sound(job[q].digest)'
        <5>1. job[q].op # "remove" /\ job[q].digest \in Digests
          BY <1>1, <4>3, JobOf, JobFields
        <5>2. CASE job[q].digest # d
          BY <1>4, <2>1, <4>1, <4>3, <5>1, <5>2 DEF Placed, Sound
        <5>3. CASE job[q].digest = d
          <6>1. d \in Meeting(job)
            BY <1>2, <3>2, <4>3, <5>1, <5>3 DEF Meeting
          <6> QED
            BY <1>4, <4>1, <5>3, <6>1 DEF BlobInv, Sound
        <5> QED
          BY <5>2, <5>3
      <4>4. Placed(job[q])'
        BY <4>1, <4>3 DEF Placed
      <4> QED
        BY <4>2, <4>4
    <3> QED
      BY <3>1, <3>2
  <2> QED
    BY <1>4, <2>2, <2>3, <2>4 DEF BlobInv
<1> QED
  BY <1>5, <1>6 DEF RemoveUnlink

\* A step of a job keeps BlobInv.
LEMMA StepSound ==
  ASSUME BlobInv, TypeInv', NEW p \in Procs, Step(p)
  PROVE  BlobInv'
<1>0. StoreTypeOK
  BY DEF BlobInv, TypeInv
<1>1. CASE Look(p)
  <2> DEFINE d == job[p].digest
             a == IF blobs[d] = "absent" THEN "move" ELSE "keep"
             j == [job[p] EXCEPT !.at = a]
  <2>1. job[p] \in Job /\ job[p].op \in {"import", "pull"} /\ d \in Digests
    BY <1>0, <1>1, JobOf, JobFields DEF Look, At
  <2>2. j.at = a /\ j.digest = d
    BY <2>1, ImportGoesOn
  <2> HIDE DEF j
  <2>3. GoOn(p, j, {}) /\ UNCHANGED << rows, blobs >>
    BY <1>1 DEF Look, Goes, storevars, j
  <2>4. /\ job'[p] = j /\ \A q \in Procs \ {p} : job'[q] = job[q]
        /\ Meeting(job') \subseteq raced' /\ raced \subseteq raced' /\ cut' = cut
    BY <1>0, <2>3, GoOnJobs
  <2>5. blobs[d] # "absent" => Sound(d)
    BY <1>0, <2>1 DEF BlobInv, TornIsCut, Sound, StoreTypeOK
  <2>6. Placed(job[p])' /\ Unneeded(job[p])'
    BY <2>2, <2>3, <2>4, <2>5 DEF Placed, Unneeded, Sound
  <2> QED
    BY <2>3, <2>4, <2>6, QuietStep
<1>2. CASE Settle(p)
  BY <1>2, SettleSound
<1>3. CASE Insert(p)
  BY <1>3, InsertSound
<1>4. CASE InsertFails(p) \/ CopyFails(p) \/ RemoveFails(p)
  BY <1>4, CarefreeStep DEF InsertFails, CopyFails, RemoveFails, Ends, storevars
<1>5. CASE RemoveGet(p)
  <2>1. job[p] \in Job /\ job[p].op = "remove" /\ job[p].name \in Names
    BY <1>0, <1>5, JobOf, JobFields DEF RemoveGet, At
  <2> DEFINE d == rows[job[p].name]
             j == [job[p] EXCEPT !.at = "delete", !.digest = d]
  <2>2. d \in Digests \cup {None}
    BY <1>0, <2>1 DEF StoreTypeOK
  <2>3. GoOn(p, j, {}) /\ UNCHANGED << rows, blobs >>
    BY <1>5 DEF RemoveGet, storevars
  <2> HIDE DEF d
  <2>4. j.at = "delete"
    <3>1. job[p] \in [op: {"remove"}, name: Names, digest: Digests \cup {None},
                      at: {"get", "delete", "list", "unlink"}]
      BY <2>1 DEF Job
    <3> QED
      BY <2>2, <3>1
  <2> HIDE DEF j
  <2> QED
    BY <2>3, <2>4, CarefreeStep
<1>6. CASE RemoveDelete(p)
  <2>1. job[p] \in Job /\ job[p].op = "remove" /\ job[p].name \in Names
    BY <1>0, <1>6, JobOf, JobFields DEF RemoveDelete, At
  <2>2. [job[p] EXCEPT !.at = "list"].at = "list"
    BY <2>1, RemoveGoesOn
  <2> DEFINE j == IF rows[job[p].name] # None /\ job[p].digest # None
                  THEN [job[p] EXCEPT !.at = "list"] ELSE None
  <2>3. GoOn(p, j, {})
    BY <1>6 DEF RemoveDelete, Goes, Ends
  <2>8. j = None \/ j.at = "list"
    BY <2>2
  <2> HIDE DEF j
  <2>4. /\ job'[p] = j /\ \A q \in Procs \ {p} : job'[q] = job[q]
        /\ Meeting(job') \subseteq raced' /\ raced \subseteq raced' /\ cut' = cut
    BY <1>0, <2>3, GoOnJobs
  <2>5. UNCHANGED blobs /\ \A n \in Names : rows'[n] = rows[n] \/ rows'[n] = None
    BY <1>0, <1>6, <2>1 DEF RemoveDelete, delete, StoreTypeOK
  <2>6. RowsHaveBlobs' /\ TornIsCut'
    BY <2>4, <2>5 DEF BlobInv, RowsHaveBlobs, TornIsCut
  <2>7. ASSUME NEW q \in Procs PROVE Placed(job[q])' /\ Unneeded(job[q])'
    <3>1. CASE q = p
      BY <2>8, <2>4, <3>1 DEF Placed, Unneeded
    <3>2. CASE q # p
      <4>1. job'[q] = job[q] /\ Placed(job[q]) /\ Unneeded(job[q])
        BY <2>4, <3>2 DEF BlobInv
      <4>2. Placed(job[q])'
        BY <2>4, <2>5, <4>1 DEF Placed, Sound
      <4>3. Unneeded(job[q])'
        BY <2>4, <2>5, <4>1 DEF Unneeded
      <4> QED
        BY <4>2, <4>3
    <3> QED
      BY <3>1, <3>2
  <2> QED
    BY <2>4, <2>6, <2>7 DEF BlobInv
<1>7. CASE RemoveList(p)
  <2>1. job[p] \in Job /\ job[p].op = "remove" /\ job[p].digest \in Digests \cup {None}
    BY <1>0, <1>7, JobOf, JobFields DEF RemoveList, At
  <2>2. CASE Ends(p)
    BY <1>7, <2>2, CarefreeStep DEF RemoveList, Ends, storevars
  <2>3. CASE others(job[p].digest) = {} /\ Goes(p, "unlink")
    <3> DEFINE j == [job[p] EXCEPT !.at = "unlink"]
    <3>1. j.at = "unlink" /\ j.digest = job[p].digest
      BY <2>1, RemoveGoesOn
    <3> HIDE DEF j
    <3>2. GoOn(p, j, {}) /\ UNCHANGED << rows, blobs >>
      BY <1>7, <2>3 DEF RemoveList, Goes, storevars, j
    <3>3. /\ job'[p] = j /\ \A q \in Procs \ {p} : job'[q] = job[q]
          /\ Meeting(job') \subseteq raced' /\ raced \subseteq raced' /\ cut' = cut
      BY <1>0, <3>2, GoOnJobs
    <3>4. Placed(job[p])' /\ Unneeded(job[p])'
      BY <2>3, <3>1, <3>2, <3>3 DEF Placed, Unneeded, others
    <3> QED
      BY <3>2, <3>3, <3>4, QuietStep
  <2> QED
    BY <1>7, <2>2, <2>3 DEF RemoveList
<1>8. CASE RemoveUnlink(p)
  BY <1>8, UnlinkSound
<1> QED
  BY <1>1, <1>2, <1>3, <1>4, <1>5, <1>6, <1>7, <1>8 DEF Step

\* Steps that leave rows, blobs, jobs and histories alone.
LEMMA AsideSound ==
  ASSUME BlobInv, TypeInv', UNCHANGED << rows, blobs, job, raced, cut >>
  PROVE  BlobInv'
<1>1. RowsHaveBlobs' /\ TornIsCut'
  BY DEF BlobInv, RowsHaveBlobs, TornIsCut
<1>2. Meeting(job') \subseteq raced'
  BY DEF BlobInv
<1>3. ASSUME NEW q \in Procs PROVE Placed(job[q])' /\ Unneeded(job[q])'
  BY DEF BlobInv, Placed, Unneeded, Sound
<1> QED
  BY <1>1, <1>2, <1>3 DEF BlobInv

\* A job that begins relies on nothing yet.
LEMMA BeginSound ==
  ASSUME BlobInv, TypeInv', NEW p \in Procs, NEW op, NEW n, NEW d,
         NEW a \in {"copy", "get", "link"}, Begin(p, op, n, d, a),
         UNCHANGED << rows, blobs >>
  PROVE  BlobInv'
BY CarefreeStep DEF Begin

\* A step of the bootstrap begins a job at most.
LEMMA BootSound ==
  ASSUME BlobInv, TypeInv', Bootstrap
  PROVE  BlobInv'
<1>d. "daemon" \in Procs
  BY DEF Procs
<1>i. ASSUME NEW n, NEW d, ImportLocal(n, d), UNCHANGED << rows, blobs >> PROVE BlobInv'
  BY <1>i, <1>d, AsideSound, BeginSound DEF ImportLocal
<1>1. ASSUME NEW f \in Files, BootLocal(f) PROVE BlobInv'
  BY <1>1, <1>i DEF BootLocal, storevars
<1>2. ASSUME NEW n \in Defaults, BootLink(n) PROVE BlobInv'
  BY <1>2, <1>d, AsideSound, BeginSound DEF BootLink, storevars
<1>3. ASSUME NEW n \in Defaults, BootEnsure(n) \/ BootFetched(n) PROVE BlobInv'
  BY <1>3, <1>i, AsideSound DEF BootEnsure, BootFetched, storevars
<1>4. ASSUME NEW n \in Defaults, BootDownload(n) PROVE BlobInv'
  BY <1>4, AsideSound DEF BootDownload
<1>5. CASE BootLinked
  BY <1>5, <1>d, CarefreeStep DEF BootLinked, Ends
<1>6. CASE BootScan \/ BootPrompt \/ BootNext
  BY <1>6, AsideSound DEF BootScan, BootPrompt, BootNext, storevars, ghosts
<1>7. CASE BootLinkFails
  BY <1>7, <1>d, CarefreeStep DEF BootLinkFails, Ends
<1> QED
  BY <1>1, <1>2, <1>3, <1>4, <1>5, <1>6, <1>7 DEF Bootstrap, BootStep

\* A power loss tears unsynced blobs, which are cut.
LEMMA PowerLossSound ==
  ASSUME BlobInv, TypeInv', PowerLoss
  PROVE  BlobInv'
<1>1. PICK T \in SUBSET (unsynced \cap Digests) :
         /\ blobs' = [d \in Digests |-> IF d \in T THEN "torn" ELSE blobs[d]]
         /\ cut' = cut \cup T
  BY DEF PowerLoss
<1>2. rows \in [Names -> Digests \cup {None}] /\ UNCHANGED << rows, raced >>
  BY DEF BlobInv, TypeInv, StoreTypeOK, PowerLoss
<1>3. RowsHaveBlobs' /\ TornIsCut'
  BY <1>1, <1>2 DEF BlobInv, RowsHaveBlobs, TornIsCut
<1>4. \A q \in Procs : job'[q] = None
  BY DEF PowerLoss
<1>5. Meeting(job') \subseteq raced'
  BY <1>4 DEF Meeting
<1>6. ASSUME NEW q \in Procs PROVE Placed(job[q])' /\ Unneeded(job[q])'
  BY <1>4 DEF Placed, Unneeded
<1> QED
  BY <1>3, <1>5, <1>6 DEF BlobInv

\* Every step keeps BlobInv.
LEMMA BlobInvNext == BlobInv /\ [Next]_vars => BlobInv'
<1> SUFFICES ASSUME BlobInv, [Next]_vars PROVE BlobInv'
  OBVIOUS
<1>0. TypeInv'
  BY TypeInvNext DEF BlobInv
<1>1. ASSUME NEW p \in Procs, Crash(p) PROVE BlobInv'
  BY <1>0, <1>1, CarefreeStep DEF Crash, Ends
<1>2. ASSUME NEW p \in Procs, NEW n \in Names,
             \/ CliRemove(p, n) \/ remove_model(n)
             \/ \E d \in Digests : CliPull(p, n, d) \/ CliImport(p, n, d)
      PROVE  BlobInv'
  BY <1>0, <1>2, BeginSound
  DEF CliRemove, remove_model, CliPull, CliImport, Idle, storevars, Procs
<1>3. CASE Start \/ UNCHANGED vars
  BY <1>0, <1>3, AsideSound DEF Start, vars, storevars, procvars, ghosts
<1> QED
  BY <1>0, <1>1, <1>2, <1>3, StepSound, BootSound, PowerLossSound DEF Next, Procs

\* Whatever overlaps, fails, is killed or loses power, a row's blob is there
\* and holds its content, except for digests on which a remove of one process
\* met an import of another and those of pulls cut by a power loss.
THEOREM RowsKeepBlobs == Spec => []RowsHaveBlobs
<1>1. Init => BlobInv
  <2> SUFFICES ASSUME Init PROVE BlobInv
    OBVIOUS
  <2>1. TypeInv
    BY InitTyped
  <2>2. RowsHaveBlobs /\ TornIsCut
    BY DEF Init, RowsHaveBlobs, TornIsCut
  <2>3. \A p \in Procs : job[p] = None
    BY DEF Init
  <2>4. Meeting(job) \subseteq raced
    BY <2>3 DEF Meeting
  <2> QED
    BY <2>1, <2>2, <2>3, <2>4 DEF BlobInv, Placed, Unneeded
<1>2. BlobInv => RowsHaveBlobs
  BY DEF BlobInv
<1> QED
  BY <1>1, <1>2, BlobInvNext, PTL DEF Spec

-----------------------------------------------------------------------------
(* SpaceAccounted.  With the type invariant it is inductive: a blob loses  *)
(* its last row only to a remove that then handles it, and a remove lets   *)
(* go of a blob only when it is unlinked or when a row of it is in sight.  *)

Handles(j, d) == /\ j # None /\ j.digest = d
                 /\ j.at \in {"insert", "list", "unlink"}

Named(d) == \E n \in Names : rows[n] = d

\* NothingLeftBehind in terms of rows and jobs that account for a blob.
LEMMA LeftBehind ==
  NothingLeftBehind <=>
    spilled \/ /\ litter = 0
               /\ \A d \in Digests : blobs[d] # "absent" =>
                      Named(d) \/ \E p \in Procs : Handles(job[p], d)
BY DEF NothingLeftBehind, Named, Handles

\* The same of the next state.
LEMMA LeftBehindNext ==
  ASSUME spilled' \/ (litter' = 0 /\ \A d \in Digests : blobs'[d] # "absent" =>
                         Named(d)' \/ \E p \in Procs : Handles(job'[p], d))
  PROVE  NothingLeftBehind'
BY DEF NothingLeftBehind, Named, Handles

\* A process goes on, and every blob left has an owner or keeps the one it had.
LEMMA OwnerStep ==
  ASSUME StoreTypeOK, NothingLeftBehind, NEW p \in Procs, NEW j, NEW good,
         GoOn(p, j, good), UNCHANGED << litter, spilled >>,
         \A d \in Digests : blobs'[d] # "absent" =>
             \/ Handles(j, d) \/ Named(d)'
             \/ blobs[d] # "absent" /\ ~Named(d) /\ ~Handles(job[p], d)
  PROVE  NothingLeftBehind'
<1>1. job'[p] = j /\ \A q \in Procs \ {p} : job'[q] = job[q]
  BY GoOnJobs
<1>2. CASE spilled
  BY <1>2, LeftBehindNext
<1>3. CASE ~spilled
  <2>1. litter = 0 /\ \A d \in Digests : blobs[d] # "absent" =>
                         Named(d) \/ \E q \in Procs : Handles(job[q], d)
    BY <1>3, LeftBehind
  <2>2. ASSUME NEW d \in Digests, blobs'[d] # "absent"
        PROVE  Named(d)' \/ \E q \in Procs : Handles(job'[q], d)
    <3>1. CASE Handles(j, d) \/ Named(d)'
      BY <1>1, <3>1
    <3>2. CASE blobs[d] # "absent" /\ ~Named(d) /\ ~Handles(job[p], d)
      <4>1. PICK q \in Procs : Handles(job[q], d)
        BY <2>1, <3>2
      <4>2. q # p
        BY <3>2, <4>1
      <4> QED
        BY <1>1, <4>1, <4>2
    <3> QED
      BY <2>2, <3>1, <3>2
  <2> QED
    BY <2>1, <2>2, LeftBehindNext
<1> QED
  BY <1>2, <1>3

\* A process that handled no blob goes on, and rows and blobs stay.
LEMMA IdleOwnerStep ==
  ASSUME StoreTypeOK, NothingLeftBehind, NEW p \in Procs, NEW j, NEW good,
         GoOn(p, j, good), UNCHANGED << rows, blobs, litter, spilled >>,
         job[p] = None \/ job[p].at \notin {"insert", "list", "unlink"}
  PROVE  NothingLeftBehind'
<1>1. \A d : ~Handles(job[p], d)
  BY DEF Handles
<1>2. \A d : Named(d)' <=> Named(d)
  BY DEF Named
<1>3. ASSUME NEW d \in Digests, blobs'[d] # "absent"
      PROVE  \/ Handles(j, d) \/ Named(d)'
             \/ blobs[d] # "absent" /\ ~Named(d) /\ ~Handles(job[p], d)
  BY <1>1, <1>2, <1>3
<1> QED
  BY <1>3, OwnerStep

\* Steps of nobody's operation.
LEMMA AsideOwners ==
  ASSUME NothingLeftBehind, UNCHANGED << rows, blobs, litter, spilled, job >>
  PROVE  NothingLeftBehind'
BY DEF NothingLeftBehind

\* After a fault has left something the property claims nothing.
LEMMA SpilledNext == ASSUME spilled' PROVE NothingLeftBehind'
BY DEF NothingLeftBehind

\* The blob that a settled import leaves is in its job's hands.
LEMMA SettleOwners ==
  ASSUME StoreTypeOK, NothingLeftBehind, NEW p \in Procs, Settle(p)
  PROVE  NothingLeftBehind'
<1> DEFINE d == job[p].digest
           j == [job[p] EXCEPT !.at = "insert"]
<1>1. job[p] # None /\ job[p] \in Job /\ job[p].op \in {"import", "pull"} /\ d \in Digests
  BY JobOf, JobFields DEF Settle, At
<1>2. j \in Job /\ j.at = "insert" /\ j.digest = d
  BY <1>1, ImportGoesOn
<1> HIDE DEF j
<1>3. PICK good : GoOn(p, j, good)
  BY DEF Settle, j
<1>4. Handles(j, d) /\ \A e : ~Handles(job[p], e)
  BY <1>2, NoneIsNoJob DEF Handles, Settle, At
<1>5. \A e \in Digests : e # d => blobs'[e] = blobs[e]
  BY <1>1 DEF Settle, StoreTypeOK
<1>6. (\A e : Named(e)' <=> Named(e)) /\ UNCHANGED << litter, spilled >>
  BY DEF Named, Settle
<1>7. ASSUME NEW e \in Digests, blobs'[e] # "absent"
      PROVE  \/ Handles(j, e) \/ Named(e)'
             \/ blobs[e] # "absent" /\ ~Named(e) /\ ~Handles(job[p], e)
  BY <1>4, <1>5, <1>6, <1>7
<1> QED
  BY <1>3, <1>6, <1>7, OwnerStep

\* An inserted row takes over the blob of its job.
LEMMA InsertOwners ==
  ASSUME StoreTypeOK, NothingLeftBehind, NEW p \in Procs, Insert(p)
  PROVE  NothingLeftBehind'
<1> DEFINE d == job[p].digest
           n == job[p].name
<1>1. n \in Names /\ d \in Digests
  BY JobOf, JobFields DEF Insert, At
<1>2. /\ rows[n] = None /\ rows' = [rows EXCEPT ![n] = d]
      /\ GoOn(p, None, {}) /\ UNCHANGED << blobs, litter, spilled >>
  BY DEF Insert, insert, Ends
<1>3. rows'[n] = d /\ \A m \in Names : m # n => rows'[m] = rows[m]
  BY <1>1, <1>2 DEF StoreTypeOK
<1>4. ASSUME NEW e \in Digests, Named(e) \/ Handles(job[p], e) PROVE Named(e)'
  BY <1>1, <1>2, <1>3, <1>4, StoreConstants DEF Named, Handles
<1>5. ASSUME NEW e \in Digests, blobs'[e] # "absent"
      PROVE  \/ Handles(None, e) \/ Named(e)'
             \/ blobs[e] # "absent" /\ ~Named(e) /\ ~Handles(job[p], e)
  BY <1>2, <1>4, <1>5
<1> QED
  BY <1>2, <1>5, OwnerStep

\* The blob of a deleted row is in the removal's hands.
LEMMA DeleteOwners ==
  ASSUME StoreTypeOK, NothingLeftBehind, NEW p \in Procs, RemoveDelete(p)
  PROVE  NothingLeftBehind'
<1> DEFINE d == job[p].digest
           n == job[p].name
           j == [job[p] EXCEPT !.at = "list"]
<1>1. job[p] \in Job /\ job[p].op = "remove" /\ n \in Names
  BY JobOf, JobFields DEF RemoveDelete, At
<1>2. /\ rows' = [rows EXCEPT ![n] = None] /\ UNCHANGED << blobs, litter >>
      /\ IF rows[n] # None /\ d # None THEN GoOn(p, j, {}) ELSE GoOn(p, None, {})
      /\ spilled' = (spilled \/ (rows[n] # None /\ rows[n] # d))
  BY DEF RemoveDelete, delete, Goes, Ends
<1>3. \A e : ~Handles(job[p], e)
  BY DEF Handles, RemoveDelete, At
<1>4. CASE rows[n] # None /\ rows[n] # d
  BY <1>2, <1>4, SpilledNext
<1>5. CASE rows[n] = None
  <2>1. spilled' = spilled
    <3>1. spilled' = (spilled \/ FALSE)
      BY <1>2, <1>5, Zenon
    <3> QED
      BY <3>1 DEF StoreTypeOK
  <2>2. rows' = rows
    BY <1>1, <1>2, <1>5 DEF StoreTypeOK
  <2> QED
    BY <1>2, <1>5, <2>1, <2>2, IdleOwnerStep DEF RemoveDelete, At
<1>6. CASE rows[n] # None /\ rows[n] = d
  <2>1. spilled' = spilled
    <3>1. spilled' = (spilled \/ FALSE)
      BY <1>2, <1>6, Zenon
    <3> QED
      BY <3>1 DEF StoreTypeOK
  <2>2. j \in Job /\ j.at = "list" /\ j.digest = d
    BY <1>1, RemoveGoesOn
  <2> HIDE DEF j
  <2>3. GoOn(p, j, {})
    BY <1>2, <1>6
  <2>4. Handles(j, d)
    BY <2>2, NoneIsNoJob DEF Handles
  <2>5. \A m \in Names : m # n => rows'[m] = rows[m]
    BY <1>1, <1>2 DEF StoreTypeOK
  <2>6. ASSUME NEW e \in Digests, Named(e), e # d PROVE Named(e)'
    BY <1>6, <2>5, <2>6 DEF Named
  <2>7. ASSUME NEW e \in Digests, blobs'[e] # "absent"
        PROVE  \/ Handles(j, e) \/ Named(e)'
               \/ blobs[e] # "absent" /\ ~Named(e) /\ ~Handles(job[p], e)
    BY <1>2, <1>3, <2>4, <2>6, <2>7
  <2> QED
    BY <1>2, <2>1, <2>3, <2>7, OwnerStep
<1> QED
  BY <1>4, <1>5, <1>6

\* A removal leaves a blob only to a row that names it.
LEMMA ListOwners ==
  ASSUME StoreTypeOK, NothingLeftBehind, NEW p \in Procs, RemoveList(p)
  PROVE  NothingLeftBehind'
<1> DEFINE d == job[p].digest
<1>1. job[p] \in Job /\ job[p].op = "remove" /\ UNCHANGED << rows, blobs, litter, spilled >>
  BY JobOf, JobFields DEF RemoveList, At, storevars
<1>2. \A e : Named(e)' <=> Named(e)
  BY <1>1 DEF Named
<1>3. \A e : Handles(job[p], e) => e = d
  BY DEF Handles
<1>4. CASE others(d) # {} /\ Ends(p)
  <2>1. Named(d)
    BY <1>4 DEF others, Named
  <2>2. ASSUME NEW e \in Digests, blobs'[e] # "absent"
        PROVE  \/ Handles(None, e) \/ Named(e)'
               \/ blobs[e] # "absent" /\ ~Named(e) /\ ~Handles(job[p], e)
    BY <1>1, <1>2, <1>3, <2>1, <2>2
  <2> QED
    BY <1>1, <1>4, <2>2, OwnerStep DEF Ends
<1>5. CASE Goes(p, "unlink")
  <2> DEFINE j == [job[p] EXCEPT !.at = "unlink"]
  <2>1. j \in Job /\ j.at = "unlink" /\ j.digest = d
    BY <1>1, RemoveGoesOn
  <2>2. GoOn(p, j, {})
    BY <1>5 DEF Goes
  <2> HIDE DEF j
  <2>3. Handles(j, d)
    BY <2>1, NoneIsNoJob DEF Handles
  <2>4. ASSUME NEW e \in Digests, blobs'[e] # "absent"
        PROVE  \/ Handles(j, e) \/ Named(e)'
               \/ blobs[e] # "absent" /\ ~Named(e) /\ ~Handles(job[p], e)
    BY <1>1, <1>2, <1>3, <2>3, <2>4
  <2> QED
    BY <1>1, <2>2, <2>4, OwnerStep
<1> QED
  BY <1>4, <1>5 DEF RemoveList

\* An unlinked blob needs no owner.
LEMMA UnlinkOwners ==
  ASSUME StoreTypeOK, NothingLeftBehind, NEW p \in Procs, RemoveUnlink(p)
  PROVE  NothingLeftBehind'
<1> DEFINE d == job[p].digest
<1>1. GoOn(p, None, {}) /\ UNCHANGED << rows, litter >>
  BY DEF RemoveUnlink, Ends
<1>2. CASE spilled' = TRUE
  BY <1>2, SpilledNext
<1>3. CASE blobs' = [blobs EXCEPT ![d] = "absent"] /\ UNCHANGED spilled
  <2>1. \A e \in Digests : blobs'[e] = IF e = d THEN "absent" ELSE blobs[e]
    BY <1>3 DEF StoreTypeOK
  <2>2. \A e : /\ Named(e)' <=> Named(e)
               /\ Handles(job[p], e) => e = d
    BY <1>1 DEF Named, Handles
  <2>3. ASSUME NEW e \in Digests, blobs'[e] # "absent"
        PROVE  \/ Handles(None, e) \/ Named(e)'
               \/ blobs[e] # "absent" /\ ~Named(e) /\ ~Handles(job[p], e)
    BY <2>1, <2>2, <2>3
  <2> QED
    BY <1>1, <1>3, <2>3, OwnerStep
<1> QED
  BY <1>2, <1>3 DEF RemoveUnlink

\* A step of a job, or its crash, keeps NothingLeftBehind.
LEMMA StepOwners ==
  ASSUME StoreTypeOK, NothingLeftBehind, NEW p \in Procs, Step(p) \/ Crash(p)
  PROVE  NothingLeftBehind'
<1>1. CASE Look(p)
  BY <1>1, IdleOwnerStep DEF Look, Goes, At, storevars
<1>2. CASE InsertFails(p) \/ CopyFails(p) \/ Crash(p)
  BY <1>2, SpilledNext DEF InsertFails, CopyFails, Crash
<1>3. CASE RemoveGet(p)
  BY <1>3, IdleOwnerStep DEF RemoveGet, At, storevars
<1>4. CASE RemoveFails(p)
  <2>1. CASE At(p, "list")
    BY <1>4, <2>1, SpilledNext DEF RemoveFails
  <2>2. CASE ~At(p, "list")
    <3>1. spilled' = spilled
      <4>1. spilled \in BOOLEAN /\ spilled' = (spilled \/ At(p, "list"))
        BY <1>4 DEF RemoveFails, StoreTypeOK
      <4> QED
        BY <2>2, <4>1, Zenon
    <3>2. job[p].at \notin {"insert", "list", "unlink"}
      BY <1>4, <2>2 DEF RemoveFails, At
    <3> QED
      BY <1>4, <3>1, <3>2, IdleOwnerStep DEF RemoveFails, Ends, storevars
  <2> QED
    BY <2>1, <2>2
<1> QED
  BY <1>1, <1>2, <1>3, <1>4, SettleOwners, InsertOwners, DeleteOwners, ListOwners,
     UnlinkOwners DEF Step

\* A step of the bootstrap keeps NothingLeftBehind.
LEMMA BootOwners ==
  ASSUME StoreTypeOK, NothingLeftBehind, Bootstrap
  PROVE  NothingLeftBehind'
<1>d. "daemon" \in Procs
  BY DEF Procs
<1>b. ASSUME NEW op, NEW n, NEW d, NEW a, Begin("daemon", op, n, d, a),
             UNCHANGED << rows, blobs, litter, spilled >>
      PROVE  NothingLeftBehind'
  BY <1>b, <1>d, IdleOwnerStep DEF Begin
<1>i. ASSUME NEW n, NEW d, ImportLocal(n, d), UNCHANGED << rows, blobs, litter, spilled >>
      PROVE  NothingLeftBehind'
  BY <1>b, <1>i, AsideOwners DEF ImportLocal
<1>1. ASSUME NEW f \in Files, BootLocal(f) PROVE NothingLeftBehind'
  BY <1>1, <1>i DEF BootLocal, storevars
<1>2. ASSUME NEW n \in Defaults, BootLink(n) PROVE NothingLeftBehind'
  BY <1>2, <1>b, AsideOwners DEF BootLink, storevars
<1>3. ASSUME NEW n \in Defaults, BootEnsure(n) \/ BootFetched(n) PROVE NothingLeftBehind'
  BY <1>3, <1>i, AsideOwners DEF BootEnsure, BootFetched, storevars
<1>4. ASSUME NEW n \in Defaults, BootDownload(n) PROVE NothingLeftBehind'
  BY <1>4, AsideOwners, SpilledNext DEF BootDownload
<1>5. CASE BootLinked
  BY <1>5, <1>d, IdleOwnerStep DEF BootLinked, At, Ends
<1>6. CASE BootScan \/ BootPrompt \/ BootNext
  BY <1>6, AsideOwners DEF BootScan, BootPrompt, BootNext, storevars, ghosts
<1>7. CASE BootLinkFails
  BY <1>7, <1>d, IdleOwnerStep DEF BootLinkFails, At, Ends
<1> QED
  BY <1>1, <1>2, <1>3, <1>4, <1>5, <1>6, <1>7 DEF Bootstrap, BootStep

\* A command or request that begins leaves nothing behind.
LEMMA CommandOwners ==
  ASSUME StoreTypeOK, NothingLeftBehind, NEW p \in Procs, NEW n \in Names,
         \/ CliRemove(p, n) \/ remove_model(n)
         \/ \E d \in Digests : CliPull(p, n, d) \/ CliImport(p, n, d)
  PROVE  NothingLeftBehind'
<1>1. ASSUME NEW q \in Procs, NEW op, NEW d, NEW a, Begin(q, op, n, d, a), Idle
      PROVE  NothingLeftBehind'
  BY <1>1, IdleOwnerStep DEF Begin, Idle, storevars
<1> QED
  BY <1>1 DEF CliRemove, remove_model, CliPull, CliImport, Procs

\* Disk space is accounted for: every blob has a row, an import about to make
\* one or a remove about to delete it, and no temporary file is orphaned, until
\* an operation fails, is cut short or finds its name taken.
THEOREM SpaceStaysAccounted == Spec => []SpaceAccounted
<1> DEFINE Inv == TypeInv /\ NothingLeftBehind
<1>1. Init => Inv
  <2>1. Init => NothingLeftBehind
    BY DEF Init, NothingLeftBehind
  <2> QED
    BY <2>1, InitTyped
<1>2. Inv /\ [Next]_vars => Inv'
  <2> SUFFICES ASSUME Inv, [Next]_vars PROVE NothingLeftBehind'
    BY TypeInvNext
  <2>0. StoreTypeOK /\ NothingLeftBehind
    BY DEF TypeInv
  <2>1. CASE Start \/ UNCHANGED vars
    BY <2>0, <2>1, AsideOwners DEF Start, vars, storevars, procvars, ghosts
  <2>2. CASE PowerLoss
    BY <2>2, SpilledNext DEF PowerLoss
  <2> QED
    BY <2>0, <2>1, <2>2, StepOwners, BootOwners, CommandOwners DEF Next, Procs
<1>3. Inv => SpaceAccounted
  BY DEF TypeInv, SpaceAccounted
<1> QED
  BY <1>1, <1>2, <1>3, PTL DEF Spec

-----------------------------------------------------------------------------
(* LocalFilesServed.  Until the first command, rows only come and every    *)
(* file of models_dir is in the store, on its way into it, or still to be  *)
(* visited by the stage the bootstrap is in.                               *)

\* No command has been given: only the daemon is at work, it removes nothing,
\* and the row of the default it links is there.
Alone ==
    ops = 0 => /\ \A p \in Clis : job[p] = None
               /\ job["daemon"] # None =>
                     /\ job["daemon"].op # "remove"
                     /\ job["daemon"].op = "link" => rows[job["daemon"].name] # None

Importing(n) == job["daemon"] # None /\ job["daemon"].op = "import" /\ job["daemon"].name = n

ToVisit(f) ==
    \/ phase = "local" /\ f \in todo
    \/ phase = "fetch" /\ \E n \in Defaults : n \in todo /\ LocalFile[n] = f

Attended(f) == rows[SpecOf[f]] # None \/ Importing(SpecOf[f]) \/ ToVisit(f)

BootInv ==
    /\ TypeInv /\ Alone
    /\ ops = 0 /\ phase \in Booting => \A f \in Files : dir[f] # None => Attended(f)

\* The daemon goes on and no row is lost.
LEMMA AloneStep ==
  ASSUME StoreTypeOK, Alone, ops = 0, NEW j, NEW good, GoOn("daemon", j, good),
         \A n \in Names : rows[n] # None => rows'[n] # None,
         j # None => j.op # "remove" /\ (j.op = "link" => rows'[j.name] # None)
  PROVE  Alone' /\ job'["daemon"] = j
<1>1. job'["daemon"] = j /\ \A q \in Procs \ {"daemon"} : job'[q] = job[q]
  BY GoOnJobs DEF Procs
<1>2. \A p \in Clis : job'[p] = None
  BY <1>1, StoreConstants DEF Alone, Procs
<1> QED
  BY <1>1, <1>2 DEF Alone

\* Commands are counted and never forgotten.
LEMMA OpsGrow ==
  ASSUME StoreTypeOK, [Next]_vars, ops' = 0
  PROVE  ops = 0
<1>1. ops \in Nat
  BY DEF StoreTypeOK
<1>2. ops' = ops \/ ops' = ops + 1
  BY DEF Next, vars, procvars, Step, Look, Settle, Insert, InsertFails, CopyFails,
         RemoveGet, RemoveDelete, RemoveList, RemoveFails, RemoveUnlink, Bootstrap, BootStep,
         BootLocal, BootLink, BootEnsure, BootFetched, BootScan, BootPrompt, BootNext,
         BootDownload, BootLinked, BootLinkFails, CliRemove, CliPull, CliImport, remove_model, Counted, Start, Crash, PowerLoss
<1> QED
  BY <1>1, <1>2

\* A step of an operation before the first command.
LEMMA StepAttends ==
  ASSUME BootInv, ops = 0, NEW p \in Procs, Step(p)
  PROVE  /\ Alone'
         /\ phase' \in Booting => \A f \in Files : dir'[f] # None => Attended(f)'
<1>0. StoreTypeOK /\ Alone
  BY DEF BootInv, TypeInv
<1>1. job[p] # None
  BY DEF Step, Look, Settle, Insert, InsertFails, CopyFails, RemoveGet, RemoveDelete,
         RemoveList, RemoveFails, RemoveUnlink, At
<1>2. p = "daemon" /\ job["daemon"].op # "remove"
  BY <1>0, <1>1 DEF Alone, Procs
<1>3. job["daemon"] \in Job /\ job["daemon"].name \in Names
      /\ job["daemon"].digest \in Digests
  BY <1>0, <1>1, <1>2, JobOf, JobFields DEF Procs
<1>4. CASE Look(p) \/ Settle(p)
  <2>1. \E a \in {"keep", "move", "insert"}, good \in SUBSET Digests :
           GoOn("daemon", [job["daemon"] EXCEPT !.at = a], good)
    <3>1. CASE Look(p)
      BY <1>2, <3>1 DEF Look, Goes
    <3>2. CASE Settle(p)
      BY <1>2, <1>3, <3>2 DEF Settle
    <3> QED
      BY <1>4, <3>1, <3>2
  <2>2. PICK a \in {"keep", "move", "insert"}, good \in SUBSET Digests :
           GoOn("daemon", [job["daemon"] EXCEPT !.at = a], good)
    BY <2>1
  <2> DEFINE j == [job["daemon"] EXCEPT !.at = a]
  <2>3. job["daemon"].op \in {"import", "pull"}
    BY <1>2, <1>3, <1>4, JobFields DEF Look, Settle, At
  <2>4. j \in Job /\ j.op = job["daemon"].op /\ j.name = job["daemon"].name
    <3>1. a \in {"copy", "keep", "move", "insert"}
      OBVIOUS
    <3>2. ASSUME NEW r \in Job, r.op \in {"import", "pull"}
          PROVE  /\ [r EXCEPT !.at = a] \in Job /\ [r EXCEPT !.at = a].op = r.op
                 /\ [r EXCEPT !.at = a].name = r.name
      BY <3>1, <3>2, ImportGoesOn
    <3> QED
      BY <1>3, <2>3, <3>2
  <2> HIDE DEF j
  <2>5. UNCHANGED << rows, dir, phase, todo >> /\ GoOn("daemon", j, good)
    BY <1>4, <2>2 DEF Look, Settle, storevars, j
  <2>6. Alone' /\ job'["daemon"] = j
    BY <1>0, <2>3, <2>4, <2>5, AloneStep
  <2>7. ASSUME NEW f \in Files, Attended(f) PROVE Attended(f)'
    <3>1. Importing(SpecOf[f]) => Importing(SpecOf[f])'
      BY <2>4, <2>6, NoneIsNoJob DEF Importing
    <3>2. ToVisit(f) => ToVisit(f)'
      BY <2>5 DEF ToVisit
    <3> QED
      BY <2>5, <2>7, <3>1, <3>2 DEF Attended
  <2> QED
    BY <2>5, <2>6, <2>7 DEF BootInv
<1>5. CASE Insert(p)
  <2> DEFINE n == job["daemon"].name
  <2>1. /\ rows' = [rows EXCEPT ![n] = job["daemon"].digest] /\ GoOn("daemon", None, {})
        /\ UNCHANGED << dir, phase, todo >>
    BY <1>2, <1>5 DEF Insert, insert, Ends
  <2>2. rows'[n] # None /\ \A m \in Names : m # n => rows'[m] = rows[m]
    BY <1>0, <1>3, <2>1, StoreConstants DEF StoreTypeOK
  <2>3. \A m \in Names : rows[m] # None => rows'[m] # None
    BY <2>2
  <2>4. Alone'
    BY <1>0, <2>1, <2>3, AloneStep
  <2>5. ASSUME NEW f \in Files, Attended(f) PROVE Attended(f)'
    <3>1. Importing(SpecOf[f]) => rows'[SpecOf[f]] # None
      BY <2>2 DEF Importing
    <3>2. ToVisit(f) => ToVisit(f)'
      BY <2>1 DEF ToVisit
    <3>3. SpecOf[f] \in Names
      BY StoreConstants
    <3> QED
      BY <2>3, <2>5, <3>1, <3>2, <3>3 DEF Attended
  <2> QED
    BY <2>1, <2>4, <2>5 DEF BootInv
<1>6. CASE InsertFails(p) \/ CopyFails(p)
  <2>1. UNCHANGED rows /\ GoOn("daemon", None, {})
    BY <1>2, <1>6 DEF InsertFails, CopyFails, Ends, storevars
  <2>2. phase' \notin Booting
    BY <1>2, <1>6 DEF InsertFails, CopyFails, Abort, Booting
  <2> QED
    BY <1>0, <2>1, <2>2, AloneStep
<1>7. /\ ~RemoveGet(p) /\ ~RemoveDelete(p) /\ ~RemoveList(p) /\ ~RemoveFails(p)
      /\ ~RemoveUnlink(p)
  BY <1>2, <1>3, JobFields DEF RemoveGet, RemoveDelete, RemoveList, RemoveFails, RemoveUnlink, At
<1> QED
  BY <1>4, <1>5, <1>6, <1>7 DEF Step

\* The daemon finds a row for a model of models_dir or begins to import it.
LEMMA ImportAttends ==
  ASSUME StoreTypeOK, Alone, ops = 0, NEW n \in Names, NEW d \in Digests,
         ImportLocal(n, d), job["daemon"] = None, UNCHANGED rows
  PROVE  Alone' /\ (rows'[n] # None \/ Importing(n)')
<1>1. CASE rows[n] # None /\ UNCHANGED job
  BY <1>1 DEF Alone
<1>2. CASE Begin("daemon", "import", n, d, "copy")
  <2> DEFINE j == [op |-> "import", name |-> n, digest |-> d, at |-> "copy"]
  <2>1. j.op = "import" /\ j.name = n /\ GoOn("daemon", j, {})
    BY <1>2 DEF Begin
  <2> HIDE DEF j
  <2>2. Alone' /\ job'["daemon"] = j
    BY <2>1, AloneStep
  <2>3. j # None
    <3>1. j \in Job
      BY DEF j, Job
    <3> QED
      BY <3>1, NoneIsNoJob
  <2> QED
    BY <2>1, <2>2, <2>3 DEF Importing
<1> QED
  BY <1>1, <1>2 DEF ImportLocal

\* A stage of the bootstrap before the first command.
LEMMA BootAttends ==
  ASSUME BootInv, ops = 0, Bootstrap
  PROVE  /\ Alone'
         /\ phase' \in Booting => \A f \in Files : dir'[f] # None => Attended(f)'
<1>0. StoreTypeOK /\ Alone
  BY DEF BootInv, TypeInv
<1>s. \A f \in Files : SpecOf[f] \in Names
  BY StoreConstants
<1>n. \A n \in Defaults : n \in Names /\ LocalFile[n] \in Files /\ SpecOf[LocalFile[n]] = n
  BY StoreConstants
<1>c. \A f \in Files : dir[f] # None => dir[f] \in Digests
  BY <1>0 DEF StoreTypeOK
<1>a. ASSUME phase \in Booting, NEW f \in Files, dir[f] # None PROVE Attended(f)
  BY <1>a DEF BootInv
<1>1. ASSUME NEW f \in Files, BootLocal(f)
      PROVE  Alone' /\ \A g \in Files : dir'[g] # None => Attended(g)'
  <2>1. /\ phase = "local" /\ phase' = "local" /\ todo' = todo \ {f}
        /\ UNCHANGED << rows, dir >> /\ job["daemon"] = None
        /\ ImportLocal(SpecOf[f], dir[f])
    BY <1>1 DEF BootLocal, storevars
  <2>2. Alone' /\ (rows'[SpecOf[f]] # None \/ Importing(SpecOf[f])')
    <3>1. dir[f] \in Digests
      BY <1>1, <1>c, <2>1 DEF BootLocal, BootInv, TypeInv, Visits
    <3> QED
      BY <1>0, <1>s, <2>1, <3>1, ImportAttends
  <2>3. ASSUME NEW g \in Files, dir'[g] # None PROVE Attended(g)'
    <3>1. CASE g = f
      BY <2>2, <3>1 DEF Attended
    <3>2. CASE g # f
      <4>1. Attended(g) /\ ~Importing(SpecOf[g])
        BY <1>a, <2>1, <2>3 DEF Booting, Importing
      <4> QED
        BY <2>1, <3>2, <4>1 DEF Attended, ToVisit
    <3> QED
      BY <3>1, <3>2
  <2> QED
    BY <2>2, <2>3
<1>2. ASSUME NEW n \in Defaults, BootLink(n)
      PROVE  /\ Alone'
             /\ phase' \in Booting => \A g \in Files : dir'[g] # None => Attended(g)'
  <2>1. phase = "link" /\ UNCHANGED << rows, dir >> /\ job["daemon"] = None
    BY <1>2 DEF BootLink, storevars
  <2>2. ASSUME NEW g \in Files, dir'[g] # None PROVE Attended(g)'
    <3>1. Attended(g) /\ ~Importing(SpecOf[g]) /\ ~ToVisit(g)
      BY <1>a, <2>1, <2>2 DEF Booting, Importing, ToVisit
    <3> QED
      BY <2>1, <3>1 DEF Attended
  <2>3. CASE UNCHANGED job
    BY <1>0, <2>1, <2>2, <2>3 DEF Alone
  <2>4. CASE rows[n] # None /\ Begin("daemon", "link", n, rows[n], "link")
    <3> DEFINE j == [op |-> "link", name |-> n, digest |-> rows[n], at |-> "link"]
    <3>1. j.op = "link" /\ j.name = n /\ GoOn("daemon", j, {})
      BY <2>4 DEF Begin
    <3> HIDE DEF j
    <3>2. Alone'
      BY <1>0, <2>1, <2>4, <3>1, AloneStep
    <3> QED
      BY <2>2, <3>2
  <2> QED
    BY <1>2, <2>3, <2>4 DEF BootLink
<1>3. ASSUME NEW n \in Defaults, BootEnsure(n)
      PROVE  Alone' /\ \A g \in Files : dir'[g] # None => Attended(g)'
  <2>1. phase = "ensure" /\ UNCHANGED << rows, dir >> /\ job["daemon"] = None
    BY <1>3 DEF BootEnsure, storevars
  <2>2. ASSUME NEW g \in Files, dir'[g] # None PROVE Attended(g)'
    <3>1. Attended(g) /\ ~Importing(SpecOf[g]) /\ ~ToVisit(g)
      BY <1>a, <2>1, <2>2 DEF Booting, Importing, ToVisit
    <3> QED
      BY <2>1, <3>1 DEF Attended
  <2>3. CASE UNCHANGED job
    BY <1>0, <2>1, <2>2, <2>3 DEF Alone
  <2>4. CASE dir[LocalFile[n]] # None /\ ImportLocal(n, dir[LocalFile[n]])
    BY <1>0, <1>c, <1>n, <2>1, <2>2, <2>4, ImportAttends
  <2> QED
    BY <1>3, <2>3, <2>4 DEF BootEnsure
<1>4. ASSUME NEW n \in Defaults, BootDownload(n)
      PROVE  /\ Alone'
             /\ phase' \in Booting => \A g \in Files : dir'[g] # None => Attended(g)'
  <2>1. phase = "fetch" /\ n \in todo /\ job["daemon"] = None /\ UNCHANGED << rows, job >>
    BY <1>4 DEF BootDownload, Downloading
  <2>2. Alone'
    BY <1>0, <2>1 DEF Alone
  <2>3. CASE phase' = "down"
    BY <2>2, <2>3 DEF Booting
  <2>4. CASE /\ dir' = [dir EXCEPT ![LocalFile[n]] = Upstream[n]]
             /\ UNCHANGED << phase, todo >>
    <3>1. ASSUME NEW g \in Files, dir'[g] # None PROVE Attended(g)'
      <4>1. CASE g = LocalFile[n]
        BY <2>1, <2>4, <4>1 DEF Attended, ToVisit
      <4>2. CASE g # LocalFile[n]
        <5>1. dir'[g] = dir[g]
          BY <1>0, <2>4, <4>2 DEF StoreTypeOK
        <5>2. Attended(g) /\ ~Importing(SpecOf[g])
          BY <1>a, <2>1, <3>1, <5>1 DEF Booting, Importing
        <5> QED
          BY <2>1, <2>4, <5>2 DEF Attended, ToVisit
      <4> QED
        BY <4>1, <4>2
    <3> QED
      BY <2>2, <3>1
  <2> QED
    BY <1>4, <2>3, <2>4 DEF BootDownload
<1>5. ASSUME NEW n \in Defaults, BootFetched(n)
      PROVE  Alone' /\ \A g \in Files : dir'[g] # None => Attended(g)'
  <2>1. /\ phase = "fetch" /\ phase' = "fetch" /\ todo' = todo \ {n}
        /\ UNCHANGED << rows, dir >> /\ job["daemon"] = None /\ dir[LocalFile[n]] # None
        /\ ImportLocal(n, dir[LocalFile[n]])
    BY <1>5 DEF BootFetched, storevars
  <2>2. Alone' /\ (rows'[n] # None \/ Importing(n)')
    BY <1>0, <1>c, <1>n, <2>1, ImportAttends
  <2>3. ASSUME NEW g \in Files, dir'[g] # None PROVE Attended(g)'
    <3>1. CASE g = LocalFile[n]
      BY <1>n, <2>2, <3>1 DEF Attended
    <3>2. CASE g # LocalFile[n]
      <4>1. Attended(g) /\ ~Importing(SpecOf[g])
        BY <1>a, <2>1, <2>3 DEF Booting, Importing
      <4> QED
        BY <2>1, <3>2, <4>1 DEF Attended, ToVisit
    <3> QED
      BY <3>1, <3>2
  <2> QED
    BY <2>2, <2>3
<1>6. ASSUME BootLinked
      PROVE  /\ Alone'
             /\ phase' \in Booting => \A g \in Files : dir'[g] # None => Attended(g)'
  <2> DEFINE n == job["daemon"].name
  <2>1. /\ job["daemon"] # None /\ job["daemon"].op = "link" /\ n \in Defaults
        /\ UNCHANGED rows /\ GoOn("daemon", None, {})
    BY <1>0, <1>6, JobOf, JobFields DEF BootLinked, At, Ends, Procs
  <2>2. Alone'
    BY <1>0, <2>1, AloneStep
  <2>3. rows[n] # None
    BY <1>0, <2>1 DEF Alone
  <2>4. PICK c : dir' = [dir EXCEPT ![LocalFile[n]] = c]
    BY <1>6 DEF BootLinked
  <2>5. UNCHANGED << phase, todo >>
    BY <1>6 DEF BootLinked
  <2>6. ASSUME phase \in Booting, NEW g \in Files, dir'[g] # None PROVE Attended(g)'
    <3>1. CASE g = LocalFile[n]
      BY <1>n, <2>1, <2>3, <3>1 DEF Attended
    <3>2. CASE g # LocalFile[n]
      <4>1. dir'[g] = dir[g]
        BY <1>0, <2>4, <3>2 DEF StoreTypeOK
      <4>2. Attended(g) /\ ~Importing(SpecOf[g])
        BY <1>a, <2>1, <2>6, <4>1 DEF Importing
      <4> QED
        BY <2>1, <2>5, <4>2 DEF Attended, ToVisit
    <3> QED
      BY <3>1, <3>2
  <2> QED
    BY <2>2, <2>5, <2>6
<1>7. ASSUME BootLinkFails
      PROVE  Alone' /\ phase' \notin Booting
  <2>1. UNCHANGED rows /\ GoOn("daemon", None, {})
    BY <1>7 DEF BootLinkFails, Ends
  <2> QED
    BY <1>0, <1>7, <2>1, AloneStep DEF BootLinkFails, Abort, Booting
<1>8. ASSUME BootScan \/ BootPrompt \/ BootNext
      PROVE  /\ Alone'
             /\ phase' \in Booting => \A g \in Files : dir'[g] # None => Attended(g)'
  <2>1. UNCHANGED << rows, dir, job >> /\ job["daemon"] = None /\ phase \in Booting
    BY <1>8 DEF BootScan, BootPrompt, BootNext, storevars, Booting
  <2>2. ASSUME NEW g \in Files, dir'[g] # None PROVE Attended(g)'
    <3>1. Attended(g) /\ ~Importing(SpecOf[g]) /\ ~ToVisit(g)
      BY <1>8, <1>a, <2>1, <2>2 DEF Importing, ToVisit, BootScan, BootPrompt, BootNext
    <3> QED
      BY <2>1, <3>1 DEF Attended
  <2> QED
    BY <1>0, <2>1, <2>2 DEF Alone
<1> QED
  BY <1>1, <1>2, <1>3, <1>4, <1>5, <1>6, <1>7, <1>8 DEF Bootstrap, BootStep

\* Every step keeps BootInv, action by action.
LEMMA BootInvNext == BootInv /\ [Next]_vars => BootInv'
<1> SUFFICES ASSUME BootInv, [Next]_vars PROVE BootInv'
  OBVIOUS
<1> SUFFICES ASSUME ops' = 0
             PROVE  /\ Alone'
                    /\ phase' \in Booting => \A f \in Files : dir'[f] # None => Attended(f)'
  <2>1. TypeInv'
    BY TypeInvNext DEF BootInv
  <2>2. ops' # 0 => Alone'
    BY DEF Alone
  <2> QED
    BY <2>1, <2>2 DEF BootInv
<1>0. StoreTypeOK /\ Alone
  BY DEF BootInv, TypeInv
<1>1. ops = 0
  BY <1>0, OpsGrow
<1>2. ASSUME NEW p \in Procs, Crash(p)
      PROVE  Alone' /\ phase' \notin Booting
  <2>1. p = "daemon"
    BY <1>0, <1>1, <1>2 DEF Crash, Alone, Procs
  <2>2. Alone'
    BY <1>0, <1>1, <1>2, <2>1, AloneStep DEF Crash, Ends
  <2> QED
    BY <1>2, <2>1, <2>2 DEF Crash, Booting
<1>3. CASE PowerLoss
  BY <1>3 DEF PowerLoss, Alone, Procs, Booting
<1>4. CASE Start
  <2>1. UNCHANGED << rows, dir, job, ops >>
    BY <1>4 DEF Start, storevars
  <2>2. Alone'
    BY <1>0, <2>1 DEF Alone
  <2>3. phase' \notin Booting \/ (phase' = "local" /\ todo' = Present)
    BY <1>4 DEF Start, Booting
  <2>4. ASSUME phase' \in Booting, NEW f \in Files, dir'[f] # None PROVE ToVisit(f)'
    BY <2>1, <2>3, <2>4 DEF ToVisit, Present
  <2> QED
    BY <2>2, <2>4 DEF Attended
<1>5. CASE UNCHANGED vars
  <2>1. UNCHANGED << rows, dir, job, ops, phase, todo >>
    BY <1>5 DEF vars, storevars, procvars
  <2> QED
    BY <1>0, <1>1, <2>1 DEF BootInv, Alone, Attended, ToVisit, Importing
<1>6. ASSUME NEW p \in Procs, NEW n \in Names,
             \/ CliRemove(p, n) \/ remove_model(n)
             \/ \E d \in Digests : CliPull(p, n, d) \/ CliImport(p, n, d)
      PROVE  FALSE
  BY <1>1, <1>6 DEF CliRemove, remove_model, CliPull, CliImport, Counted
<1> QED
  BY <1>1, <1>2, <1>3, <1>4, <1>5, <1>6, StepAttends, BootAttends DEF Next, Procs

\* The daemon comes up only from the last stage, when nothing is left to visit.
LEMMA ComesUp ==
  ASSUME StoreTypeOK, [Next]_vars, phase \in {"ensure", "fetch"}, phase' = "up"
  PROVE  BootNext
BY DEF Next, vars, procvars, Step, Look, Settle, Insert, InsertFails, CopyFails, Abort,
       RemoveGet, RemoveDelete, RemoveList, RemoveFails, RemoveUnlink, Bootstrap, BootStep,
       BootLocal, BootLink, BootEnsure, BootFetched, BootScan, BootPrompt, BootDownload,
       BootLinked, BootLinkFails, CliRemove, CliPull, CliImport, remove_model, Idle, Start, Crash, PowerLoss

\* A daemon that comes up through its whole bootstrap, before any command or request
\* has touched the store, serves every file of its models directory, whatever the store
\* held and whatever failed in earlier starts.
THEOREM LocalFilesStayServed == Spec => LocalFilesServed
<1>1. Init => BootInv
  <2> SUFFICES ASSUME Init PROVE BootInv
    OBVIOUS
  <2>1. \A p \in Procs : job[p] = None
    BY DEF Init
  <2>2. phase \notin Booting
    BY DEF Init, Booting
  <2> QED
    BY <2>1, <2>2, InitTyped DEF BootInv, Alone, Procs
<1>2. BootInv /\ [Next]_vars =>
        [ (phase \in {"ensure", "fetch"} /\ phase' = "up" /\ ops = 0)
            => \A f \in Files : dir'[f] # None => rows'[SpecOf[f]] # None ]_vars
  <2> SUFFICES ASSUME BootInv, [Next]_vars, phase \in {"ensure", "fetch"},
                      phase' = "up", ops = 0,
                      NEW f \in Files, dir'[f] # None
               PROVE  rows'[SpecOf[f]] # None
    OBVIOUS
  <2>1. BootNext
    BY ComesUp DEF BootInv, TypeInv
  <2>2. UNCHANGED << rows, dir >> /\ todo = {} /\ job["daemon"] = None
    BY <2>1 DEF BootNext, storevars
  <2>3. Attended(f)
    BY <2>2 DEF BootInv, Booting
  <2> QED
    BY <2>2, <2>3 DEF Attended, ToVisit, Importing
<1> QED
  BY <1>1, <1>2, BootInvNext, PTL DEF Spec, LocalFilesServed
=============================================================================
