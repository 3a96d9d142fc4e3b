----------------------------- MODULE KeyCustody -----------------------------
(***************************************************************************)
(* The master key (KEK) that wraps the data keys (DEKs) of workspaces: the *)
(* file master.key (maranode-store/src/kek.rs), its sealed copy, the       *)
(* daemon that loads it (load_master_kek in maranode-daemon), the commands *)
(* of `maranode tpm` and `maranode workspace shred`, and the rows of       *)
(* workspaces.db (workspace_db.rs).                                        *)
(*                                                                         *)
(* Daemon and command line are separate processes that share these files   *)
(* without a lock.                                                         *)
(***************************************************************************)
EXTENDS SealedKey

CONSTANTS
    Slugs,        \* workspaces other than the default, which has no DEK
    CarefulAdmin  \* see Careful below

Procs  == {"daemon", "cli"}
Config == [tpm: BOOLEAN, pass: Passphrases, pcr_list: PcrLists]

\* A process inside load_or_create (file = "plain") or inside seal.
Job == [op: {"start", "seal", "rotate", "import", "shred"},
        file: {"plain", "object", "bin", "meta"}, open: BOOLEAN,
        backend: {"tpm2", "software"},
        key: Material, pass: Passphrases, pcr_list: PcrLists \cup {None},
        seals: BOOLEAN,              \* start: seal follows load_or_create
        slug: Slugs \cup {None},     \* shred: the workspace
        was: SealMeta \cup {None}]   \* rotate: old_meta

ASSUME CustodyConstants ==
    /\ CarefulAdmin \in BOOLEAN
    /\ None \notin Job
    /\ \A k \in Keys : k \notin {"absent", "destroyed"}

VARIABLES
    plain,    \* master.key
    made,     \* keys ever generated
    bundles,  \* recovery bundles that were exported
    cfg,      \* the daemon's configuration of sealing
    kek,      \* WorkspaceDb.kek of the running daemon
    rows,     \* workspace -> the KEK its DEK is wrapped under
    job,      \* what each process is writing
    spoiled   \* a sealing was cut short and none has been completed since

keyvars == << plain, made, bundles, cfg, kek, rows, job, spoiled >>
vars    == << sealvars, keyvars >>

\* Every variable holds a value of the kind the code gives it.
KeyTypeOK ==
    /\ SealTypeOK
    /\ plain \in Keys \cup {None, Torn}
    /\ made \subseteq Keys
    /\ bundles \subseteq [key: Material, pass: Passphrases]
    /\ cfg \in Config
    /\ kek \in Keys \cup {None}
    /\ rows \in [Slugs -> Keys \cup {"absent", "destroyed"}]
    /\ job \in [Procs -> Job \cup {None}]
    /\ spoiled \in BOOLEAN

\* A new installation.
Init ==
    /\ SealInit
    /\ plain = None /\ made = {} /\ bundles = {}
    /\ cfg \in Config
    /\ kek = None
    /\ rows = [w \in Slugs |-> "absent"]
    /\ job = [p \in Procs |-> None]
    /\ spoiled = FALSE

AtRest == \A p \in Procs : job[p] = None

\* An administrator who runs one process at a time and, once a sealed copy has
\* replaced master.key, keeps sealing configured and does not shred (which would
\* create another master.key).
Careful(C) == CarefulAdmin => C

-----------------------------------------------------------------------------
(* Writing files *)

\* A sealing of k.
Sealing(op, k, list, pass) ==
    [op |-> op, file |-> first_file(list), open |-> FALSE,
     backend |-> IF first_file(list) = "object" THEN "tpm2" ELSE "software",
     key |-> k, pass |-> pass, pcr_list |-> list,
     seals |-> TRUE, slug |-> None, was |-> None]

\* A file is opened: created or truncated.
OpenFile(p) ==
    /\ job[p] # None /\ ~job[p].open
    /\ SetFile(job[p], Torn)
    /\ plain' = IF job[p].file = "plain" THEN Torn ELSE plain
    /\ job' = [job EXCEPT ![p].open = TRUE]
    /\ UNCHANGED << made, bundles, cfg, kek, rows, spoiled >>

\* write_key_file returns: start goes on to seal the key or to serve, shred
\* destroys the DEK.
PlainWritten(p) ==
    /\ job[p] # None /\ job[p].open /\ job[p].file = "plain"
    /\ plain' = job[p].key
    /\ LET j == job[p] IN
       \/ /\ j.op = "start" /\ j.seals
          /\ job' = [job EXCEPT ![p] = Sealing("start", j.key, j.pcr_list, j.pass)]
          /\ UNCHANGED << kek, rows >>
       \/ /\ j.op = "start" /\ ~j.seals
          /\ kek' = j.key
          /\ job' = [job EXCEPT ![p] = None]
          /\ UNCHANGED rows
       \/ /\ j.op = "shred"
          /\ rows' = [rows EXCEPT ![j.slug] = IF @ = "absent" THEN @ ELSE "destroyed"]
          /\ job' = [job EXCEPT ![p] = None]
          /\ UNCHANGED kek
    /\ UNCHANGED << sealvars, made, bundles, cfg, spoiled >>

\* The blob or the object is written; meta.json comes next.
BlobWritten(p) ==
    /\ job[p] # None /\ job[p].open /\ job[p].file \in {"object", "bin"}
    /\ SetFile(job[p], Content(job[p]))
    /\ job' = [job EXCEPT ![p].file = "meta", ![p].open = FALSE]
    /\ UNCHANGED << plain, made, bundles, cfg, kek, rows, spoiled >>

\* seal returns: the daemon serves with the key, a command ends.
Sealed(p) ==
    /\ kek' = IF job[p].op = "start" THEN job[p].key ELSE kek
    /\ job' = [job EXCEPT ![p] = None]

\* Mutant of MetaWritten: meta.json names the backend that was asked for.
MetaRequested(p) ==
    /\ job[p] # None /\ job[p].open /\ job[p].file = "meta"
    /\ SetFile(job[p], [backend |-> IF first_file(job[p].pcr_list) = "object"
                                   THEN "tpm2" ELSE "software",
                        pcr_list |-> job[p].pcr_list])
    /\ Sealed(p)
    /\ spoiled' = FALSE
    /\ UNCHANGED << plain, made, bundles, cfg, rows >>

\* meta.json is written: the key is sealed.
MetaWritten(p) ==
    /\ job[p] # None /\ job[p].open /\ job[p].file = "meta"
    /\ SetFile(job[p], Content(job[p]))
    /\ Sealed(p)
    /\ spoiled' = FALSE
    /\ UNCHANGED << plain, made, bundles, cfg, rows >>

\* tpm2_seal fails at one of its commands: seal falls back to software.
TpmFails(p) ==
    /\ job[p] # None /\ job[p].backend = "tpm2" /\ job[p].file # "plain"
    /\ job' = [job EXCEPT ![p].backend = "software", ![p].file = "bin",
                          ![p].open = FALSE]
    /\ UNCHANGED << sealvars, plain, made, bundles, cfg, kek, rows, spoiled >>

\* software_seal fails: a start goes on with the key it has, a command fails.
SealFails(p) ==
    /\ job[p] # None /\ job[p].backend = "software" /\ job[p].file # "plain"
    /\ Sealed(p)
    /\ spoiled' = TRUE
    /\ UNCHANGED << sealvars, plain, made, bundles, cfg, rows >>

-----------------------------------------------------------------------------
(* The daemon *)

\* load_or_create finds no file and generates a key.
Creates(p, op, seals, w) ==
    \E k \in Keys \ made :
        /\ made' = made \cup {k}
        /\ job' = [job EXCEPT ![p] =
              [op |-> op, file |-> "plain", open |-> FALSE, backend |-> "software",
               key |-> k, pass |-> cfg.pass, pcr_list |-> cfg.pcr_list,
               seals |-> seals, slug |-> w, was |-> None]]

\* load_master_kek without a sealed copy; a torn master.key stops the start.
StartPlain ==
    /\ kek = None /\ job["daemon"] = None /\ Careful(AtRest)
    /\ ~cfg.tpm \/ ~is_sealed
    /\ \/ /\ plain \in Keys /\ ~cfg.tpm
          /\ kek' = plain
          /\ UNCHANGED << made, job >>
       \/ /\ plain \in Keys /\ cfg.tpm
          /\ job' = [job EXCEPT !["daemon"] =
                       Sealing("start", plain, cfg.pcr_list, cfg.pass)]
          /\ UNCHANGED << made, kek >>
       \/ /\ plain = None
          /\ Creates("daemon", "start", cfg.tpm, None)
          /\ UNCHANGED kek
    /\ UNCHANGED << sealvars, plain, bundles, cfg, rows, spoiled >>

\* Mutant of StartSealed: the length of the unsealed key is not checked.
StartSealedAny ==
    /\ kek = None /\ job["daemon"] = None /\ Careful(AtRest)
    /\ cfg.tpm /\ is_sealed
    /\ kek' = unsealed(cfg.pass)
    /\ CountAttempt(cfg.pass)
    /\ UNCHANGED << plain, made, bundles, cfg, rows, job, spoiled >>

\* Mutant of StartSealed: a failed unseal falls through to the first run.
StartSealedOrPlain ==
    /\ kek = None /\ job["daemon"] = None /\ Careful(AtRest)
    /\ cfg.tpm /\ is_sealed
    /\ IF unsealed(cfg.pass) \in Keys
       THEN /\ kek' = unsealed(cfg.pass)
            /\ UNCHANGED << made, job >>
       ELSE /\ plain = None
            /\ Creates("daemon", "start", TRUE, None)
            /\ UNCHANGED kek
    /\ CountAttempt(cfg.pass)
    /\ UNCHANGED << plain, bundles, cfg, rows, spoiled >>

\* load_master_kek with a sealed copy: what unseals to a key of 32 bytes is the
\* KEK, anything else stops the start.
StartSealed ==
    /\ kek = None /\ job["daemon"] = None /\ Careful(AtRest)
    /\ cfg.tpm /\ is_sealed
    /\ kek' = IF unsealed(cfg.pass) \in Keys THEN unsealed(cfg.pass) ELSE None
    /\ CountAttempt(cfg.pass)
    /\ UNCHANGED << plain, made, bundles, cfg, rows, job, spoiled >>

\* WorkspaceDb::create and delete.
CreateWorkspace(w) ==
    /\ kek # None /\ rows[w] = "absent"
    /\ rows' = [rows EXCEPT ![w] = kek]
    /\ UNCHANGED << sealvars, plain, made, bundles, cfg, kek, job, spoiled >>

DeleteWorkspace(w) ==
    /\ kek # None /\ rows[w] # "absent"
    /\ rows' = [rows EXCEPT ![w] = "absent"]
    /\ UNCHANGED << sealvars, plain, made, bundles, cfg, kek, job, spoiled >>

\* All processes stop: power is lost, or the machine is rebooted.
Crash ==
    /\ kek # None \/ ~AtRest
    /\ kek' = None
    /\ job' = [p \in Procs |-> None]
    /\ spoiled' = (spoiled \/ \E p \in Procs : job[p] # None /\ job[p].file # "plain")
    /\ UNCHANGED << sealvars, plain, made, bundles, cfg, rows >>

-----------------------------------------------------------------------------
(* The command line *)

Command == job["cli"] = None /\ Careful(AtRest)

\* tpm seal: load_key_bytes_for_purpose does not check the length.
TpmSeal(list, pass) ==
    /\ Command /\ plain # None
    /\ job' = [job EXCEPT !["cli"] = Sealing("seal", plain, list, pass)]
    /\ UNCHANGED << sealvars, plain, made, bundles, cfg, kek, rows, spoiled >>

\* tpm unseal-test
UnsealTest(pass) ==
    /\ Command /\ CountAttempt(pass)
    /\ UNCHANGED keyvars

\* tpm export-recovery
ExportRecovery(pass) ==
    /\ Command /\ seal_status
    /\ CountAttempt(pass)
    /\ bundles' = IF unsealed(pass) = None THEN bundles
                  ELSE bundles \cup {[key |-> unsealed(pass), pass |-> pass]}
    /\ UNCHANGED << plain, made, cfg, kek, rows, job, spoiled >>

\* tpm import-recovery: sealed again under the passphrase of the bundle.
ImportRecovery(b, list) ==
    /\ Command
    /\ job' = [job EXCEPT !["cli"] = Sealing("import", b.key, list, b.pass)]
    /\ UNCHANGED << sealvars, plain, made, bundles, cfg, kek, rows, spoiled >>

\* tpm rotate (rotate_in_place)
Rotate(old, new, list) ==
    /\ Command /\ seal_status
    /\ CountAttempt(old)
    /\ job' = IF unsealed(old) = None THEN job
              ELSE [job EXCEPT !["cli"] =
                      [Sealing("rotate", unsealed(old), list, new) EXCEPT !.was = meta]]
    /\ UNCHANGED << plain, made, bundles, cfg, kek, rows, spoiled >>

\* workspace shred: load_or_create, then destroy_dek.
Shred(w) ==
    /\ Command /\ Careful(is_sealed => plain # None)
    /\ \/ /\ plain \in Keys /\ rows[w] # "absent"
          /\ rows' = [rows EXCEPT ![w] = "destroyed"]
          /\ UNCHANGED << made, job >>
       \/ /\ plain = None
          /\ Creates("cli", "shred", FALSE, w)
          /\ UNCHANGED rows
    /\ UNCHANGED << sealvars, plain, bundles, cfg, kek, spoiled >>

\* The administrator deletes master.key: the sealed copy replaces it, or it was
\* never completed.
RemovePlain ==
    /\ Command /\ AtRest
    /\ \/ plain \in Keys /\ SealedCopy = plain /\ Careful(cfg.tpm)
       \/ plain = Torn /\ ~is_sealed
    /\ plain' = None
    /\ UNCHANGED << sealvars, made, bundles, cfg, kek, rows, job, spoiled >>

\* The administrator edits the configuration.
Configure ==
    /\ cfg' \in Config
    /\ Careful(is_sealed /\ plain = None => cfg'.tpm)
    /\ UNCHANGED << sealvars, plain, made, bundles, kek, rows, job, spoiled >>

Next ==
    \/ \E p \in Procs : \/ OpenFile(p) \/ PlainWritten(p) \/ BlobWritten(p)
                        \/ MetaWritten(p) \/ TpmFails(p) \/ SealFails(p)
    \/ StartPlain \/ StartSealed \/ Crash
    \/ \E w \in Slugs : CreateWorkspace(w) \/ DeleteWorkspace(w) \/ Shred(w)
    \/ \E pass \in Passphrases :
          \/ UnsealTest(pass) \/ ExportRecovery(pass)
          \/ \E list \in PcrLists : TpmSeal(list, pass)
    \/ \E list \in PcrLists \cup {None} :
          \/ \E b \in bundles : ImportRecovery(b, list)
          \/ \E old, new \in Passphrases : Rotate(old, new, list)
    \/ RemovePlain \/ Configure
    \/ (CoolDown \/ Reboot) /\ UNCHANGED keyvars

Spec == Init /\ [][Next]_vars

-----------------------------------------------------------------------------
(* Properties *)

\* However it got its KEK (file, sealed copy, recovery bundle, a first run
\* after a first run that was cut short), the daemon never serves with another
\* KEK than the one that the DEKs of existing workspaces are wrapped under.
DeksReadable ==
    kek # None => \A w \in Slugs : rows[w] \in Keys => rows[w] = kek

\* Between commands the KEK of every DEK is in master.key or in the sealed
\* copy that meta.json leads to: no order of sealing, falling back from the TPM
\* to software, rotating, importing and removing master.key loses it, unless a
\* sealing was cut short.
KekKept ==
    AtRest /\ ~spoiled =>
        \A w \in Slugs : rows[w] \in Keys => rows[w] \in {plain, SealedCopy}
=============================================================================
