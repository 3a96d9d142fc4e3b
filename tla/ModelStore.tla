----------------------------- MODULE ModelStore -----------------------------
(***************************************************************************)
(* The store of GGUF models (maranode-store): models.db with one row per   *)
(* model, files named by their SHA-256 that rows share, and the temporary  *)
(* files of imports and downloads. The daemon (its bootstrap at the start  *)
(* and DELETE /v1/models) and each `maranode model` command are processes  *)
(* of their own: the RwLock of a ModelStore keeps operations apart inside  *)
(* one process only.                                                       *)
(*                                                                         *)
(* A digest stands for the content it belongs to. A blob is whole, torn    *)
(* (named after a content it does not hold) or absent.                     *)
(***************************************************************************)
EXTENDS Integers, FiniteSets

CONSTANTS
    None,
    Names,       \* model ids, name:tag
    Digests,     \* SHA-256 of contents
    LlmDefault,  \* default_llm().model_id
    EmbDefault,  \* default_embedding().model_id
    Files,       \* GGUF files that may be in models_dir
    SpecOf,      \* spec_for_local_file: file -> model id
    KindOf,      \* classify_gguf_path: file -> "llm" or "embedding"
    LocalFile,   \* DefaultModelSpec.local_filename: default -> file
    Upstream,    \* what the download of a default delivers: default -> digest
    Clis,        \* processes running `maranode model`
    MaxOps,      \* bound: commands and requests
    MaxFaults    \* bound: failures, crashes and power losses

Procs    == {"daemon"} \cup Clis
Defaults == {LlmDefault, EmbDefault}

ASSUME StoreConstants ==
    /\ Defaults \subseteq Names /\ "daemon" \notin Clis
    /\ None \notin Names \cup Digests /\ IsFiniteSet(Clis)
    /\ SpecOf \in [Files -> Names] /\ KindOf \in [Files -> {"llm", "embedding"}]
    /\ LocalFile \in [Defaults -> Files] /\ Upstream \in [Defaults -> Digests]
    /\ \A n \in Defaults : SpecOf[LocalFile[n]] = n
    /\ KindOf[LocalFile[LlmDefault]] = "llm"
    /\ KindOf[LocalFile[EmbDefault]] = "embedding"
    /\ MaxOps \in Nat /\ MaxFaults \in Nat

\* What a process is doing inside ModelStore, and where it is.
Job == [op: {"import", "pull"}, name: Names, digest: Digests,
        at: {"copy", "keep", "move", "insert"}]
         \cup [op: {"remove"}, name: Names, digest: Digests \cup {None},
               at: {"get", "delete", "list", "unlink"}]
         \cup [op: {"link"}, name: Defaults, digest: Digests, at: {"link"}]

ASSUME NoneIsNoJob == None \notin Job

\* maybe_bootstrap: its calls in their order, before the daemon serves.
Booting == {"local", "link", "scan", "prompt", "ensure", "fetch"}

VARIABLES
    rows,     \* models.db: model id -> sha256
    blobs,    \* data_dir/blobs/sha256-*
    litter,   \* temporary files no operation owns any more
    dir,      \* models_dir: file -> content
    unsynced, \* blobs and files nobody has synced: the kernel owes them no date
    job,      \* the operation each process is in
    phase,    \* of the daemon: "down", a stage of Booting, or "up"
    todo,     \* files or defaults the stage has still to visit
    ops, faults,
    raced,    \* digests a remove and an import of two processes met on
    cut,      \* digests torn by a power loss
    spilled   \* an operation failed or was cut short, or a name was taken

storevars == << rows, blobs, litter, dir, unsynced >>
procvars  == << job, phase, todo, ops, faults >>
ghosts    == << raced, cut, spilled >>
vars      == << storevars, procvars, ghosts >>

\* Every variable holds a value of the kind the code gives it.
StoreTypeOK ==
    /\ rows \in [Names -> Digests \cup {None}]
    /\ blobs \in [Digests -> {"absent", "whole", "torn"}]
    /\ litter \in Nat /\ dir \in [Files -> Digests \cup {None}]
    /\ unsynced \subseteq Digests \cup Files
    /\ job \in [Procs -> Job \cup {None}]
    /\ phase \in Booting \cup {"down", "up"}
    /\ todo \subseteq Files \cup Defaults
    /\ ops \in Nat /\ faults \in Nat
    /\ raced \subseteq Digests /\ cut \subseteq Digests /\ spilled \in BOOLEAN

\* A new installation whose administrator may have put files in models_dir.
Init ==
    /\ rows = [n \in Names |-> None] /\ blobs = [d \in Digests |-> "absent"]
    /\ litter = 0 /\ unsynced = {}
    /\ dir \in [Files -> Digests \cup {None}]
    /\ job = [p \in Procs |-> None] /\ phase = "down" /\ todo = {}
    /\ ops = 0 /\ faults = 0
    /\ raced = {} /\ cut = {} /\ spilled = FALSE

(***************************************************************************)
(* models.db, one statement at a time.                                     *)
(***************************************************************************)

\* The UNIQUE(name, tag) constraint refuses a second row.
insert(n, d) == rows[n] = None /\ rows' = [rows EXCEPT ![n] = d]

delete(n) == rows' = [rows EXCEPT ![n] = None]

\* Mutant of others: a blob is taken to belong to one row.
OthersIgnored(d) == {}

\* remove's look at list(): the other rows of a digest.
others(d) == {n \in Names : rows[n] = d}

-----------------------------------------------------------------------------
\* Digests on which, in the jobs j, a remove of one process meets an import,
\* a pull or a link of another.
Meeting(j) ==
    {d \in Digests : \E p, q \in Procs :
        /\ p # q /\ j[p] # None /\ j[q] # None
        /\ j[p].op = "remove" /\ j[p].digest = d
        /\ j[q].op # "remove" /\ j[q].digest = d}

\* Process p goes on with its job as j; good are the digests just written.
GoOn(p, j, good) ==
    /\ job' = [job EXCEPT ![p] = j]
    /\ raced' = (raced \ good) \cup Meeting(job')
    /\ cut' = cut \ good

Goes(p, at) == GoOn(p, [job[p] EXCEPT !.at = at], {})
Ends(p)     == GoOn(p, None, {})
At(p, at)   == job[p] # None /\ job[p].at = at

Begin(p, op, n, d, at) ==
    /\ job[p] = None
    /\ GoOn(p, [op |-> op, name |-> n, digest |-> d, at |-> at], {})

\* An error of the daemon's bootstrap ends the daemon (main.rs: `?`).
Abort(p) ==
    IF p = "daemon" /\ phase \in Booting
    THEN phase' = "down" /\ todo' = {}
    ELSE UNCHANGED << phase, todo >>

(***************************************************************************)
(* import_from_file and pull_from_url                                      *)
(***************************************************************************)

\* import_blob and pull_from_url once the content is copied: dest.exists().
Look(p) ==
    /\ At(p, "copy")
    /\ Goes(p, IF blobs[job[p].digest] = "absent" THEN "move" ELSE "keep")
    /\ UNCHANGED << storevars, phase, todo, ops, faults, spilled >>

\* The temporary file is dropped for the blob that is there, or renamed to be
\* the blob. import_blob has synced it, pull_from_url has only flushed it.
Settle(p) ==
    /\ At(p, "keep") \/ At(p, "move")
    /\ LET d == job[p].digest
           moved == job[p].at = "move"
       IN /\ blobs' = IF moved THEN [blobs EXCEPT ![d] = "whole"] ELSE blobs
          /\ unsynced' = CASE ~moved -> unsynced
                           [] moved /\ job[p].op = "pull" -> unsynced \cup {d}
                           [] OTHER -> unsynced \ {d}
          /\ GoOn(p, [job[p] EXCEPT !.at = "insert"], IF moved THEN {d} ELSE {})
    /\ UNCHANGED << rows, litter, dir, phase, todo, ops, faults, spilled >>

\* pull_from_url reads the metadata of the blob before it makes the row.
Stat(p) == job[p].op = "pull" => blobs[job[p].digest] # "absent"

\* The row is made; the operation is over.
Insert(p) ==
    /\ At(p, "insert") /\ Stat(p)
    /\ insert(job[p].name, job[p].digest)
    /\ Ends(p)
    /\ UNCHANGED << blobs, litter, dir, unsynced, phase, todo, ops, faults, spilled >>

\* The model id is taken, the blob of a pull is gone or the database fails: the
\* operation ends and leaves the blob where it is.
InsertFails(p) ==
    /\ At(p, "insert")
    /\ \/ (~Stat(p) \/ rows[job[p].name] # None) /\ UNCHANGED faults
       \/ faults < MaxFaults /\ faults' = faults + 1
    /\ Ends(p) /\ Abort(p)
    /\ spilled' = TRUE
    /\ UNCHANGED << storevars, ops >>

\* Reading the source, the network or writing fails. TmpGuard removes the file
\* of an import, nobody the .pull.part of a pull.
CopyFails(p) ==
    /\ faults < MaxFaults /\ faults' = faults + 1
    /\ At(p, "copy") \/ At(p, "keep") \/ At(p, "move")
    /\ litter' \in IF job[p].op = "pull" THEN {litter, litter + 1} ELSE {litter}
    /\ Ends(p) /\ Abort(p)
    /\ spilled' = TRUE
    /\ UNCHANGED << rows, blobs, dir, unsynced, ops >>

(***************************************************************************)
(* remove                                                                  *)
(***************************************************************************)

\* The manifest is read first, for its digest.
RemoveGet(p) ==
    /\ At(p, "get")
    /\ GoOn(p, [job[p] EXCEPT !.at = "delete", !.digest = rows[job[p].name]], {})
    /\ UNCHANGED << storevars, phase, todo, ops, faults, spilled >>

\* The row goes, whichever row it is by now. Without a manifest or without a
\* row that is all.
RemoveDelete(p) ==
    /\ At(p, "delete")
    /\ delete(job[p].name)
    /\ LET was == rows[job[p].name]
       IN /\ IF was # None /\ job[p].digest # None THEN Goes(p, "list") ELSE Ends(p)
          /\ spilled' = (spilled \/ (was # None /\ was # job[p].digest))
    /\ UNCHANGED << blobs, litter, dir, unsynced, phase, todo, ops, faults >>

\* Mutant of RemoveList: the blob is kept whenever there is any model left.
RemoveListKeeps(p) ==
    /\ At(p, "list")
    /\ IF \A n \in Names : rows[n] = None THEN Goes(p, "unlink") ELSE Ends(p)
    /\ UNCHANGED << storevars, phase, todo, ops, faults, spilled >>

RemoveList(p) ==
    /\ At(p, "list")
    /\ IF others(job[p].digest) = {} THEN Goes(p, "unlink") ELSE Ends(p)
    /\ UNCHANGED << storevars, phase, todo, ops, faults, spilled >>

\* The database fails; with the row already gone the blob stays.
RemoveFails(p) ==
    /\ faults < MaxFaults /\ faults' = faults + 1
    /\ At(p, "get") \/ At(p, "delete") \/ At(p, "list")
    /\ Ends(p)
    /\ spilled' = (spilled \/ At(p, "list"))
    /\ UNCHANGED << storevars, phase, todo, ops >>

\* remove_file; a failure is only logged.
RemoveUnlink(p) ==
    /\ At(p, "unlink")
    /\ \/ /\ blobs' = [blobs EXCEPT ![job[p].digest] = "absent"]
          /\ unsynced' = unsynced \ {job[p].digest}
          /\ UNCHANGED << faults, spilled >>
       \/ /\ faults < MaxFaults /\ faults' = faults + 1 /\ spilled' = TRUE
          /\ UNCHANGED << blobs, unsynced >>
    /\ Ends(p)
    /\ UNCHANGED << rows, litter, dir, phase, todo, ops >>

(***************************************************************************)
(* The commands and the route                                              *)
(***************************************************************************)

Counted == ops < MaxOps /\ ops' = ops + 1
Idle    == UNCHANGED << storevars, phase, todo, faults, spilled >>

\* maranode model pull
CliPull(p, n, d) == p \in Clis /\ Counted /\ Begin(p, "pull", n, d, "copy") /\ Idle

\* maranode model import
CliImport(p, n, d) == p \in Clis /\ Counted /\ Begin(p, "import", n, d, "copy") /\ Idle

\* maranode model remove
CliRemove(p, n) == p \in Clis /\ Counted /\ Begin(p, "remove", n, None, "get") /\ Idle

\* DELETE /v1/models/:model_id, one after another under the write lock
remove_model(n) ==
    /\ phase = "up" /\ Counted /\ Begin("daemon", "remove", n, None, "get") /\ Idle

(***************************************************************************)
(* maybe_bootstrap                                                         *)
(***************************************************************************)

Present == {f \in Files : dir[f] # None}

\* ModelStore::open and find_gguf_files; --skip-bootstrap serves at once.
Start ==
    /\ phase = "down" /\ job["daemon"] = None
    /\ \/ phase' = "local" /\ todo' = Present
       \/ phase' = "up" /\ todo' = {}
    /\ UNCHANGED << storevars, job, ops, faults, ghosts >>

\* Mutant of ImportLocal: a content that is in the store is not imported.
ImportLocalOnce(n, d) ==
    IF rows[n] # None \/ blobs[d] # "absent" THEN UNCHANGED << job, raced, cut >>
    ELSE Begin("daemon", "import", n, d, "copy")

\* import_gguf: a model that has a row is left alone.
ImportLocal(n, d) ==
    IF rows[n] # None THEN UNCHANGED << job, raced, cut >>
    ELSE Begin("daemon", "import", n, d, "copy")

\* import_local_gguf, a file
BootLocal(f) ==
    /\ phase = "local" /\ job["daemon"] = None
    /\ f \in todo /\ todo' = todo \ {f}
    /\ ImportLocal(SpecOf[f], dir[f])
    /\ UNCHANGED << storevars, phase, ops, faults, spilled >>

\* Mutant of BootLink: it waits for a missing blob to come back.
BootLinkWaits(n) ==
    /\ phase = "link" /\ job["daemon"] = None
    /\ n \in todo /\ todo' = todo \ {n}
    /\ IF dir[LocalFile[n]] # None \/ rows[n] = None THEN UNCHANGED << job, raced, cut >>
       ELSE blobs[rows[n]] # "absent" /\ Begin("daemon", "link", n, rows[n], "link")
    /\ UNCHANGED << storevars, phase, ops, faults, spilled >>

\* materialize_defaults_from_store, a default: without a file and with a row,
\* blob_path must find the blob or the daemon does not start.
BootLink(n) ==
    /\ phase = "link" /\ job["daemon"] = None
    /\ n \in todo
    /\ IF dir[LocalFile[n]] # None \/ rows[n] = None
       THEN todo' = todo \ {n} /\ UNCHANGED << job, phase, raced, cut >>
       ELSE IF blobs[rows[n]] = "absent"
       THEN phase' = "down" /\ todo' = {} /\ UNCHANGED << job, raced, cut >>
       ELSE /\ todo' = todo \ {n} /\ UNCHANGED phase
            /\ Begin("daemon", "link", n, rows[n], "link")
    /\ UNCHANGED << storevars, ops, faults, spilled >>

\* models_dir when what is in the files F is anybody's guess.
Garbled(F) ==
    {g \in [Files -> Digests \cup {None}] : \A f \in Files \ F : g[f] = dir[f]}

\* The file that link_or_copy is writing.
Linking == {LocalFile[n] : n \in {m \in Defaults : At("daemon", "link") /\ job["daemon"].name = m}}

\* link_or_copy: hard_link, or else a copy nobody syncs, of what the blob holds.
BootLinked ==
    /\ At("daemon", "link")
    /\ LET d == job["daemon"].digest
       IN /\ blobs[d] # "absent"
          /\ \E c \in IF blobs[d] = "whole" THEN {d} ELSE Digests :
                dir' = [dir EXCEPT ![LocalFile[job["daemon"].name]] = c]
          /\ unsynced' \in {unsynced, unsynced \cup Linking}
          /\ d \in unsynced => unsynced' = unsynced \cup Linking
    /\ Ends("daemon")
    /\ UNCHANGED << rows, blobs, litter, phase, todo, ops, faults, spilled >>

\* The blob has been removed since, or the copy fails and leaves what it has written:
\* the daemon does not start.
BootLinkFails ==
    /\ At("daemon", "link")
    /\ \/ /\ blobs[job["daemon"].digest] = "absent"
          /\ UNCHANGED << dir, unsynced, faults >>
       \/ /\ faults < MaxFaults /\ faults' = faults + 1
          /\ dir' \in Garbled(Linking) /\ unsynced' = unsynced \cup Linking
    /\ Ends("daemon") /\ Abort("daemon")
    /\ UNCHANGED << rows, blobs, litter, ops, spilled >>

\* scan_models_dir
Covered == {KindOf[f] : f \in Present}

\* missing_defaults
Missing == {n \in Defaults : KindOf[LocalFile[n]] \notin Covered}

\* The scan of models_dir decides whether defaults are missing.  prompt_download
\* fetches them with --yes-bootstrap, does without them if there is no terminal, and
\* asks otherwise.
BootScan ==
    /\ phase = "scan" /\ job["daemon"] = None
    /\ IF Missing = {} THEN phase' = "ensure" /\ todo' = Defaults
       ELSE \/ phase' \in {"prompt", "fetch"} /\ todo' = Missing
            \/ phase' = "up" /\ todo' = {}
    /\ UNCHANGED << storevars, job, ops, faults, ghosts >>

\* The administrator agrees, declines, or types what cannot be read.
BootPrompt ==
    /\ phase = "prompt" /\ job["daemon"] = None
    /\ \/ phase' = "fetch" /\ UNCHANGED todo
       \/ phase' \in {"up", "down"} /\ todo' = {}
    /\ UNCHANGED << storevars, job, ops, faults, ghosts >>

\* ensure_store_has_defaults, a default
BootEnsure(n) ==
    /\ phase = "ensure" /\ job["daemon"] = None
    /\ n \in todo /\ todo' = todo \ {n}
    /\ IF dir[LocalFile[n]] = None THEN UNCHANGED << job, raced, cut >>
       ELSE ImportLocal(n, dir[LocalFile[n]])
    /\ UNCHANGED << storevars, phase, ops, faults, spilled >>

\* download_file has no file to import yet.
Downloading ==
    /\ phase = "fetch" /\ job["daemon"] = None
    /\ todo # {} /\ \A n \in todo \cap Defaults : dir[LocalFile[n]] = None

\* download_and_import, the download: it ends in a rename of a file nobody syncs, or
\* the start fails. The .part file it leaves is removed by the next download.
BootDownload(n) ==
    /\ Downloading /\ n \in todo
    /\ \/ /\ dir' = [dir EXCEPT ![LocalFile[n]] = Upstream[n]]
          /\ unsynced' = unsynced \cup {LocalFile[n]}
          /\ UNCHANGED << phase, todo, faults, spilled >>
       \/ /\ faults < MaxFaults /\ faults' = faults + 1
          /\ phase' = "down" /\ todo' = {} /\ spilled' = TRUE
          /\ UNCHANGED << dir, unsynced >>
    /\ UNCHANGED << rows, blobs, litter, job, ops, raced, cut >>

\* download_and_import, the import of the file that is there now
BootFetched(n) ==
    /\ phase = "fetch" /\ job["daemon"] = None
    /\ n \in todo /\ dir[LocalFile[n]] # None
    /\ todo' = todo \ {n}
    /\ ImportLocal(n, dir[LocalFile[n]])
    /\ UNCHANGED << storevars, phase, ops, faults, spilled >>

\* A stage whose work is done gives way to the next.
BootNext ==
    /\ todo = {} /\ job["daemon"] = None
    /\ \/ phase = "local" /\ phase' = "link" /\ todo' = Defaults
       \/ phase = "link" /\ phase' = "scan" /\ UNCHANGED todo
       \/ phase \in {"ensure", "fetch"} /\ phase' = "up" /\ UNCHANGED todo
    /\ UNCHANGED << storevars, job, ops, faults, ghosts >>

(***************************************************************************)
(* Faults                                                                  *)
(***************************************************************************)

\* A process is killed: nothing removes its temporary file, or what the daemon has
\* copied to models_dir.
HasTemp(p) == At(p, "copy") \/ At(p, "keep") \/ At(p, "move")

Crash(p) ==
    /\ faults < MaxFaults /\ faults' = faults + 1
    /\ job[p] # None \/ (p = "daemon" /\ phase # "down")
    /\ litter' = litter + (IF HasTemp(p) THEN 1 ELSE 0)
    /\ Ends(p)
    /\ IF p = "daemon"
       THEN /\ phase' = "down" /\ todo' = {}
            /\ dir' \in Garbled(Linking) /\ unsynced' = unsynced \cup Linking
       ELSE UNCHANGED << phase, todo, dir, unsynced >>
    /\ spilled' = TRUE
    /\ UNCHANGED << rows, blobs, ops >>

\* The machine stops: blobs and files of models_dir that were never synced may come
\* back torn, while SQLite has synced the rows.
PowerLoss ==
    /\ faults < MaxFaults /\ faults' = faults + 1
    /\ dir' \in Garbled((unsynced \cap Files) \cup Linking)
    /\ \E T \in SUBSET (unsynced \cap Digests) :
          /\ blobs' = [d \in Digests |-> IF d \in T THEN "torn" ELSE blobs[d]]
          /\ cut' = cut \cup T
    /\ litter' = litter + Cardinality({p \in Procs : HasTemp(p)})
    /\ job' = [p \in Procs |-> None] /\ phase' = "down" /\ todo' = {}
    /\ unsynced' = {} /\ spilled' = TRUE
    /\ UNCHANGED << rows, ops, raced >>

Step(p) ==
    \/ Look(p) \/ Settle(p) \/ Insert(p) \/ InsertFails(p) \/ CopyFails(p)
    \/ RemoveGet(p) \/ RemoveDelete(p) \/ RemoveList(p) \/ RemoveFails(p) \/ RemoveUnlink(p)

\* The steps of the bootstrap that wait for nothing but the disk.
BootStep ==
    \/ \E f \in Files : BootLocal(f)
    \/ \E n \in Defaults : BootLink(n) \/ BootEnsure(n) \/ BootFetched(n)
    \/ BootLinked \/ BootLinkFails \/ BootScan \/ BootNext

Bootstrap == BootStep \/ BootPrompt \/ \E n \in Defaults : BootDownload(n)

Next ==
    \/ \E p \in Procs : Step(p) \/ Crash(p)
    \/ \E p \in Procs, n \in Names :
          CliRemove(p, n) \/ \E d \in Digests : CliPull(p, n, d) \/ CliImport(p, n, d)
    \/ \E n \in Names : remove_model(n)
    \/ Start \/ Bootstrap \/ PowerLoss

\* A started bootstrap goes on, and so does the import of a local file it waits for.
\* Nobody owes commands, starts or faults, an answer to the prompt, or the end of a
\* download, which has no timeout.
Fairness == WF_vars(Step("daemon")) /\ WF_vars(BootStep)

Spec == Init /\ [][Next]_vars /\ Fairness
-----------------------------------------------------------------------------
\* A row's blob is there and holds the content of its name, over crashes,
\* failures, shared blobs and overlapping commands, except a digest that a
\* remove and an import of two processes met on, or whose pull was followed by
\* a power loss, and that has not been placed again since.
RowsHaveBlobs ==
    \A n \in Names : rows[n] # None =>
        blobs[rows[n]] = "whole" \/ rows[n] \in raced \cup cut

\* Disk space is accounted for: a blob that no row names, no operation is about
\* to name and no remove is about to delete, and a temporary file nobody owns,
\* come only from an operation that failed, was cut short or found its name
\* taken, whatever two processes do to one digest.
NothingLeftBehind ==
    spilled \/ /\ litter = 0
               /\ \A d \in Digests : blobs[d] # "absent" =>
                      \/ \E n \in Names : rows[n] = d
                      \/ \E p \in Procs :
                            /\ job[p] # None /\ job[p].digest = d
                            /\ job[p].at \in {"insert", "list", "unlink"}

\* A daemon that comes up through its whole bootstrap, before any command or request
\* has touched the store, has a row for every file of its models directory.
LocalFilesServed ==
    [][ (phase \in {"ensure", "fetch"} /\ phase' = "up" /\ ops = 0)
          => \A f \in Files : dir'[f] # None => rows'[SpecOf[f]] # None ]_vars

\* Whatever the store holds, a start ends, in a daemon that serves or gives up, or it
\* waits for an answer to its prompt or for a download: it hangs nowhere else.
StartEnds ==
    (phase \in Booting) ~> (phase \in {"up", "down", "prompt"} \/ Downloading)

\* The store is well-formed and its disk space accounted for.
SpaceAccounted == StoreTypeOK /\ NothingLeftBehind
=============================================================================
