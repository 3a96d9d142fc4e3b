# Maranode: TLA+ models and proofs

Maranode is a self-hosted inference node: a daemon (`maranode-daemon`) that
serves an OpenAI-compatible API (`maranode-api`) in front of llama.cpp
(`maranode-inference`), keeps models, users and workspaces (`maranode-store`),
and records what happens in an HMAC-chained audit log (`maranode-audit`).
This directory holds TLA+ specifications of the parts whose correctness depends
on orders of events that tests hardly reach, the TLC configurations that check
them on small instances, and TLAPS proofs of the results that matter most.
Line numbers are those of the crates under `crates/`; `PROJECT.json` maps every
definition to the lines it models.

## 1. Inventory

| Part | State | Operations | Interacts with | What is hard | What makes it correct |
|---|---|---|---|---|---|
| Audit log (`maranode-audit`: log, rotate, chain) | the active file, sealed segments and `segments.json`, `LogInner` (handle, seq, last_hmac) behind a mutex | `open`, `append`, `maybe_rotate`, `enforce_segment_retention` | every handler appends; the sweep rotates | crash between the files; a failing fsync; rotation inside `append` | no acknowledged entry is lost before its retention; the chain continues after a restart |
| Pruning and retention (`retention.rs`, `sweep_audit_dir` in `main.rs`, `do_prune`, CLI prune) | none of its own: rewrites the active file | `prune_log` | works on the log's file without the log's mutex, from the daemon or another process | rename under an open handle; concurrent appends | removes expired entries and nothing else |
| Verification (`verify.rs`) | none | `verify_log`, `verify_all` | reads the files | files that change meanwhile | accepts honest logs, detects losses |
| Inference queue (`queue.rs`) | `waiting`, `max_waiting`, a semaphore | `generate`, `generate_stream`, `set_max_waiting` | chat and other handlers call it; it calls the engine | check and increment are two steps; futures dropped at awaits | permits and counts conserved; admitted calls end; limits hold |
| Engine (`llama.rs`) | cache of loaded models in order of use, blocking threads | `generate`, `generate_stream`, `embed`, `get_or_load`, `evict_lru` | the queue; embeddings bypass it | the cache lock is released while a model loads; threads outlive their callers | bounded parallelism; memory bounded by the cache and the calls; the model used last stays |
| Chat handler (`routes/chat.rs`, `state.rs`) | `workspace_usage` | `run`, `UsageGuard` | queue, audit log, incident flag, retrieval | quota released by a spawned task; the flag is read once | quotas hold and are given back; records precede inference |
| Incident workflow (`incident.rs`, `routes/incident.rs`) | the incident behind a mutex, `audit_frozen`, `incident-state.json` | `declare`, `investigate`, `resolve`, `status` | the chat handler reads the flag | three copies of one fact, awaits between them, file rewritten in place | the flag, the phase and the file agree |
| Break-glass credentials | one file per credential | `bg_generate`, `bg_use` | audit log | check and write are two steps | used once |
| Legal hold (`legal_hold.rs`, `routes/hold.rs`, `maranode hold`) | `hold.pub`, `hold.key`, the TPM copy, one file per hold | generate a key, place, sign a release, release | retention, which does not ask it | files written in place without a lock; ids are seconds; a key pair replaced beside a request | a confirmed hold stands until its key releases it; a hold is signed by the key it names |
| Model store (`store.rs`, `download.rs`, `bootstrap.rs`, `maranode model`) | rows of `models.db`, blob files shared by digest, temporary files | import, pull, remove, the start's bootstrap | chat resolves models through it | file and row change in two steps; daemon and commands are processes without a common lock; crashes and power losses | every row has its blob; nothing is left on disk; every local file is served; a start waits for nothing but its prompt and its downloads |
| Workspaces and keys (`workspace_db.rs`, `kek.rs`, `load_master_kek`, `workspace shred`) | rows with wrapped data keys (DEKs), `master.key`, the KEK in the daemon | first run, create, update, delete, shred | the sealed copy; audit logs and retrieval per workspace | a daemon and commands share files without a lock; a first run cut short | the daemon's KEK is the one the DEKs are wrapped under; a destroyed DEK stays so |
| Workspace routes (`routes/workspaces.rs`, `netns.rs`) | rows, network namespaces of the kernel | create, update, delete | isolation | row and namespace change in two steps; handlers dropped at awaits | a namespace exists exactly for a row that asks for it |
| Model lifecycle (`lifecycle.rs`) | the loaded set | `ensure_loaded`, `unload` | none: `LifecycleManager` and `BaselineChecker` are constructed nowhere | | not modelled |
| Users and identity (`user_db.rs`, `routes/users.rs`, `identity.rs`, `reset.rs`, `user_ctx.rs`, `maranode users`) | `users.db` (accounts, sessions, reset tokens) behind a mutex of the daemon; pending OIDC logins and the login rate windows in memory | password login, LDAP, SAML and OIDC logins, resets, user administration, listing and revoking sessions, the same from the command line | every handler authenticates through `UserCtx`; commands open `users.db` in a process of their own | `update` writes every column of a row read earlier; the mutex is released between finding and revoking a session; the provider's answer comes between taking a state and using it; expiry and restarts | an order to an account stands; one account per subject; a session comes through its account's own door; one-time tokens work once; nobody else's session is ended |
| Change management and approval (`routes/registry.rs`, `changemgmt.rs`, `approval.rs`, `maranode registry`) | submission files, token files, the signing key, tickets | submit, approve, revoke, import a token | ServiceNow, Jira | handlers load, wait and save without a lock; tasks outlive their request; files written in place | what was answered is what is on file; no ticket is forgotten |
| Baselines | signed lists of hashes | write, compare | a comparison calls the engine for every prompt; nothing acts on its result | it does not read the incident flag | chat comes to rest beside it |
| Retrieval (`maranode-rag`, `routes/rag.rs`) | SQLite collections, documents and chunks | ingest, upload, summarise, delete, search, retrieval in chats | chat, classification, settings | awaits between the statements; another embedding model after a restart; an overlap that does not advance | rows belong together; what is deleted stays gone; a document is cut completely, within the size, and cutting ends |
| Classification (`classification.rs`, `routes/classification.rs`) | the policy in memory and `policy.json` | set and remove labels, clearances, DLP sync, checks | chat, retrieval | saved in place after the change; a file that does not parse is an empty policy; labels change under a request | no labelled text reaches a workspace without clearance |
| Attestation and sealing (`seal.rs`, `rotation.rs`, `maranode tpm`) | `meta.json`, `sealed.bin`, the TPM object, the counter of failed attempts, recovery bundles | seal, unseal, rotate, export, import | daemon start | three files rewritten in place one after another; fallback from the TPM in the middle; a changed platform | there is a way back to the key; its policy stays |
| Isolation (`maranode-isolation`) | the isolator, the OUTPUT chain, what the last probe found | apply, reconfigure, remove, probe | chat refuses when air-gap is lost; reload | every iptables command may fail; the kernel keeps the rules of a killed daemon | IPv4 packets leave only as configured (the code never runs `ip6tables`); an open air-gap is noticed |
| Daemon start, reload, shutdown (`main.rs`, `reload.rs`, `config.rs`) | `config.toml`, the command line, the settings in force | start, SIGHUP, the admin endpoint, shutdown | isolator, retrieval, runtime settings | two reloads side by side; a reload that fails half-way; flags and file | the settings in force are of one reading; flags outlive reloads |
| DLP connectors (`dlp/`) | none | query external services, sync labels | classification | a save that fails | labels as answered |
| Audit export and signing, forensic snapshot, metrics, UI, verifier, benchmark, shared types | none or reports | formatting and I/O | | | not modelled |

## 2. Modules

| Module | Models | State and actions |
|---|---|---|
| `AuditChain` | lines, segments, `summarize`, `oldest_ts`, `recover_tail`, `scan_tail`, `walk`, `anchor`, `verify_log`, `verify_all` | operators only |
| `AuditLog` | one audit log with its sweep, prunes, crashes and restarts | `active`/`manifest` are the files, `seq`/`hmac`/`detached` are `LogInner`, `pc` is the holder of the mutex: `AppendWrite`, `AppendSync` (`append` before and after `write_all` is durable), `SealSegment`, `Truncate`, `Reopen` (`rotate_locked`), `SweepStart` ... `SweepPrune` (`sweep_audit_dir`), `PruneStart`, `PruneRename` (`prune_log`), `Crash`, `Restart` (`open`) |
| `AuditTrail` | what an audit log promises: one chain that grows at its end and shrinks only by retention | `trail`, `cutoff`; `Record`, `Expire` |
| `InferenceQueue` | `InferenceQueue` in front of `LlamaCppEngine` | per call: `Call` (check_capacity), `Enqueue` (fetch_add), `Acquire`, `StartThread`, `LoadFails`, `ThreadEnds`, `Return`, `Cancel`; `set_max_waiting` |
| `ChatRequests` | the chat handler on top of `InferenceQueue` (EXTENDS it: `CallEngine` is `Call`, `InEngine` its steps) | `Admit`, `TakeQuota`, `PrepareEnds`, `LogStart`, `CallEngine`, `Complete`, `Answer`, `StartBody`, `BodyEnds`, `Disconnect`, `Release`, `SetFrozen`, `Reload`; `CallAside` is a call of the baseline check or of the summariser |
| `QuotaLedger` | what a workspace's quota promises: a request is let in exactly when its share fits beside the shares held | `place`; `Ask`, `Grant`, `Refuse`, `GiveUp`, `GiveBack`, `Forget` |
| `Incident` | declare, investigate, resolve, the flag and the file | each handler is a first part (`Declare`) and the part after its await (`DeclareEnds`); `Open`, `WriteAll`, `WriteFails` are the blocking job of `tokio::fs::write`; `Disconnect`, `Crash`, `Restart` |
| `BreakGlass` | credential files, `bg_generate`, `bg_use` | `Generate`, `Verify`, `Truncate`, `Save`, `Granted`, `Refuse` |
| `IncidentResponse` | `Incident` and `BreakGlass` in one daemon; a crash stops both | composition |
| `SealedKey` | the sealed copy of one key: `seal`, `unseal`, `is_sealed`, `seal_status`, the lockout | operators on `meta`, `sealed_bin`, `object`, `fails`; `CoolDown`, `Reboot` |
| `KeyCustody` | the master key on top of `SealedKey` (EXTENDS it): daemon and command line as two processes | `OpenFile`, `PlainWritten`, `BlobWritten`, `MetaWritten`, `TpmFails`, `SealFails` are the steps of a process inside `load_or_create` or `seal`; `StartPlain`, `StartSealed` (`load_master_kek`), `CreateWorkspace`, `DeleteWorkspace`, `Crash`; `TpmSeal`, `UnsealTest`, `ExportRecovery`, `ImportRecovery`, `Rotate` (`maranode tpm`), `Shred`; `RemovePlain` and `Configure` are the administrator |
| `UserDb` | the tables of `users.db` and the statements of `user_db.rs` | `users`, `sessions`, `resets`, `minted` (ids and tokens used up), `now`; `create`, `update`, `delete`, `create_session`, `create_reset_token`, `consume_reset_token` and the lookups are operators |
| `Identity` | handlers, extractor, rate limit and commands on top of `UserDb` (EXTENDS it) | `login`, `ldap_login`, `saml_callback`, `oidc_login`, `oidc_callback`, `OidcClaims`; `Admit` (`UserCtx`), `create_user`, `update_user`, `set_password`, `del_user`, `logout`, `revoke_session`, `RevokeMatched`, `revoke_other_sessions`, `Dropped`; `request_reset`, `confirm_reset`; `CommitWrite` (the UPDATE of a handler that has read a row, `txn`); `cmd_create`, `cmd_delete`, `cmd_set_password`, `cmd_set_active`, `CliWrites`, `CliAborts` (`maranode users`); `Restart`, `Tick` |
| `ModelStore` | `models.db`, the blobs and temporary files, the daemon and `maranode model` as processes | a process runs a job step by step: `Look`, `Settle`, `Stat`, `Insert`, `InsertFails`, `CopyFails` (`import_gguf`, `pull`), `RemoveGet`, `RemoveDelete`, `RemoveList`, `RemoveFails`, `RemoveUnlink` (`remove`); `CliPull`, `CliImport`, `CliRemove`, `remove_model` begin one; `Start`, `BootLocal`, `BootLink`, `BootLinked`, `BootLinkFails`, `BootScan`, `BootPrompt`, `BootEnsure`, `BootDownload`, `BootFetched`, `BootNext` are the bootstrap; `Crash` kills a process, `PowerLoss` the machine |
| `LegalHold` | hold keys, hold files, releases | `generate_key`, `WritePub`, `WriteKey`, `SealKey`; `place`, `PlaceSign`, `PlaceSave`; `sign_release`, `release`, `ReleaseRefused`, `ReleaseSave`; `Retention` is the sweep |
| `ModelRegistry` | submissions, tokens, signing key, tickets | `submit`, `SubmitSave`, `open_ticket`, `TicketReload`, `TicketStore`; `approve`, `load_or_create_signing_key`, `ApproveToken`, `ApproveSave`, `close_ticket`; `revoke`, `RevokeUnlink`, `RevokeSave`; `ImportToken`; `WriteFails` is a write of any of them that fails |
| `Tenancy` | workspace routes and namespaces | `create_workspace`, `CreateInsert`, `update_workspace`, `del_workspace`, `DeleteNetns`, `DeleteRow`, `DropTask` |
| `Governance` | `LegalHold`, `ModelRegistry` and `Tenancy` in one daemon; a crash stops all three | composition; a behaviour is about records (holds and approvals) or about workspaces (`subject`), which share nothing |
| `Isolation` | the isolator, the OUTPUT chain, the probe | `StartIsolator`, `reconfigure`, `remove_rules`, `OpenPolicy`, `apply_air_gap`, `apply_whitelist` are single iptables commands of the lock's holder; `Release`, `run_probe`, `StoreProbe` |
| `Reload` | start, reload and shutdown around `Isolation` (EXTENDS it) | `EditFile`, `Start`, `StartEnds`, `sighup`, `reload_config`, `ReloadIsolation`, `ReloadRag`, `replace_runtime`, `Probe`, `ProbeStored`, `shutdown` |
| `Classification` | the policy and its file | `set_collection`, `remove_collection`, `set_workspace`, `dlp_sync`; `check_access`, `check_all_collections`, `load_policy` are operators |
| `Retrieval` | documents on top of `Classification` and `Reload` (EXTENDS both) | `ingest_document`, `upload_documents`, `LabelCheck`, `Embed`, `Ensure`, `Insert`; `resummary_document`, `Summarize`; `delete_document`, `delete_collection`; `search`, `chat`, `retrieve`, `SearchNext`, `Searched`, `Prompt` |
| `ModelCache` | the engine's cache | `get_or_load`, `Loaded` (with `evict_lru`), `LoadFails`, `CallEnds` |
| `Serving` | `Retrieval` and `ModelCache` in one daemon with starts, crashes and shutdowns | composition; a behaviour has one kind of traffic: documents, labels, settings or models |
| `Chunking` | `chunk_text`, `find_break`, `pack_units` and the unit splitters of `chunk.rs` | the loops, one action per iteration: `ChunkNext`, `ChunkNothing`, `brace_units`, `python_units`, `LastUnit`, `PackUnit`, `PackRest` |
| `MC*` | instances for TLC | |
| `AuditLogProofs` (with `AuditChain` and `AuditTrail`), `InferenceQueueProofs` (with `ChatRequests` and `QuotaLedger`), `IncidentProofs` (with `BreakGlass`), `KeyCustodyProofs`, `IdentityProofs`, `ModelStoreProofs`, `ServingProofs` (with its components and `Chunking`) and `GovernanceProofs` (with its components) | theorems and proofs | each EXTENDS the module it is about |

Abstractions. An audit entry is its sequence number, its predecessor's hmac and
a stamp given out once per append; the stamp is both its timestamp and its
hmac, so the model's entries are equal exactly when they are the same append
(HMAC collisions and clock steps backwards are outside). A manifest row is kept
as the lines it was sealed from, from which its summary fields are functions. A
line that does not parse is `Junk`. Sizes are counted in lines. Retention and
age cutoffs are stamps chosen nondeterministically, never decreasing, the age
cutoff not before the retention cutoff when age rotation is on. The removal of
several expired segment files is one step. A failed rename of a prune is not
modelled: it leaves the log as it was. In `InferenceQueue` and
`ChatRequests` retrieval, prompts and tokens are left out; what remains of
retrieval is that it may end the request. The semaphore is tokio's (external):
first come, first served, and a dropped waiter leaves the line. `Workers` is the
number of runtime threads: there is no await between `check_capacity` and
`fetch_add`, so a thread can have one call between them. The memory of a
workspace's active models is the number of bytes in a set, with `Size` bytes for
each model, which is what summing over the distinct models comes to. `Incident` leaves out
the webhooks and audit records, which change none of its state; a crash is a
crash of the process, so a completed `tokio::fs::write` is kept.
In `KeyCustody` a wrapped DEK is the KEK it is wrapped under, a passphrase and a
PCR list are values that are equal or not, and a platform is a value of all PCRs
(the TPM is external: its object opens under the PCR list and the platform it was
made for). A file is truncated in one step and complete in a later one; a crash
between leaves it `Torn`. `sealed.pub` and `sealed.priv` are one object. The
bytes of a torn `master.key` can be sealed, as `tpm seal` does not check their
length. The rotation log, which nothing reads back, is left out. `spoiled`
records that a sealing was cut short and that none was completed since.

In `Identity` a password is its hash, an account's name its key, and time is a count
of ticks. `last_login` and `created_at` are left out, since nothing is decided by
them. Handlers that read and then only insert or delete are one step, because
whatever another process does between their statements has the effect of a step
before or after them; a handler that reads a row and writes all its columns back
is two, with the mutex (`txn`) held between them. Parsing and verification of SAML
assertions, LDAP binds and mails are outside: a subject, a name, an address and a
role come in. UUIDs and tokens are never generated twice. `order`, `raced`, `uses`
and `accepted` exist for the properties: the rows as ordered, the ids a command may
have spoilt, the times a one-time token was accepted, the instants of the attempts
let through from an address, in order. An
admin key is configured, so that the first start creates an account. Foreign keys
are enforced, as the bundled SQLite is compiled to.

In `KeyCustody`, `CarefulAdmin` describes an administrator who runs one process at a time, who
keeps `tpm.enabled` on once the sealed copy has replaced `master.key`, and who does
not shred then; the code enforces none of this (section 5).

In `ModelStore` a digest stands for its content, a blob is whole, torn (named
after a content it does not hold) or absent, and temporary files are counted.
`raced` and `cut` record the digests on which a removal of one process met an
import of another, and those of a pull that a power loss came after: a pull
renames without an fsync. Files that the bootstrap copies or downloads into
`models_dir` are not synced either, and a power loss leaves anything in them; a copy
that fails leaves what it has written. In `LegalHold` and `ModelRegistry` a key stands for its
pair, a signature is a record of what was signed, tickets are external; every file
written in place has a moment at which a crash leaves it torn. In `Tenancy` the
kernel's namespaces are external. `Isolation` has the destinations and the policy of
the OUTPUT chain of IPv4, the only one the code knows; INPUT rules and source
addresses are left out. A configuration
is its isolation part, the ingestion policy, the admin key and prompt logging. In
`Retrieval` a document's text is one chunk row, a vector is the embedding space
it was made in, and which chunks score is left open; what the code decides by
is kept: rows, dimensions, joins, foreign keys, labels. `told` is the
policy as its changes were acknowledged, `lapse` the names whose entry was not saved
when it changed last or went with a torn file. In `Chunking` a character is its
class (letter, blank, newline, full stop) and a line of code what the splitters
read off it; `symbol_label` and `extract_heading` only name a chunk. In `ModelCache`
an entry's `last_used` is an instant of a clock that advances at each use, as only the
order of the uses decides what `evict_lru` removes.

## 3. Runs

| Run | Checks | Shows |
|---|---|---|
| `audit_safe` | `NoAckedEntryLost`, `TailInSync`, `VerifiesUnlessInterrupted`, `ImplementsTrail` | size and age rotation, the sweep, crashes at every step and prunes while the daemon is down: no acknowledged entry is lost before its cutoff; after every restart `seq` and `last_hmac` are those of the newest entry on disk; the log verifies unless an operation was cut short; the files implement `AuditTrail` |
| `audit_faults` | `LossIsEvident` | torn writes, failing writes, fsyncs, seals, truncations: entries can be lost (a torn line swallows the next one), but then `verify_all` does not say the chain is intact |
| `queue` | `GuardsConserved`, `AdmissionBounded` (types, overshoot and `ParallelBound`), `AdmittedCallEnds` | guards are conserved however a call ends; the counter passes the limit by at most `Workers - 1`; at most `max_parallel` generations run for callers that wait for the whole answer; every admitted call ends |
| `chat` | `QuotasHold`, `ImplementsLedger`, `FreezeDrains` | requests in flight never exceed the workspace's three quotas; the counters implement `QuotaLedger`: a request is turned away for the quota only where its share would not fit beside the shares still held; under a lasting incident every chat but unread streams ends and its quota is free again, although baseline checks and summaries go on calling the engine |
| `incident` | `ActiveIsFrozen`, `FrozenIsActive`, `FreezeKeptByFile`, `CredentialsSound` | the flag is up whenever the incident is active, whatever fails; flag, phase and file agree across restarts until a handler is dropped or a write fails or is cut short; a credential is accepted twice only by requests that overlap, and never again after one was answered |
| `keys` | `KeyTypeOK`, `DeksReadable`, `KekKept` | first runs, seals to the TPM and in software, fallbacks, rotations, recovery bundles, lockouts, changed platforms, removal of `master.key`, crashes inside every file: the daemon never serves with another KEK than its DEKs are wrapped under; unless a sealing was cut short the KEK is in `master.key` or behind `meta.json` |
| `identity` | `OrdersStand`, `AccountsBound`, `OneTimeTokens`, `AttemptsBounded`, `OthersStaySignedIn` | handlers never undo one another's changes to an account, and a command does so only where it wrote an old copy; a subject has one account; a password never opens a single sign-on account, even after a reset gave it one; reset tokens and OIDC states work once; at most twice the limit of attempts passes in a span as long as the window; a request without the right to manage users ends only its own account's sessions |
| `store` | `RowsHaveBlobs`, `SpaceAccounted`, `LocalFilesServed`, `StartEnds` | imports, pulls and removals of daemon and commands on shared blobs, with failures, kills and power losses: a row's blob is whole but for the two kinds of digests named in section 4; blobs and temporary files belong to rows or jobs unless a fault left them, where processes meet on a digest too; a bootstrap that ends before any command or request has touched the store serves the local files; a start ends, in service or with an error, or waits at its prompt or for a download, and hangs nowhere else |
| `governance` | `HoldsSound`, `RegistrySound`, `TenancySound` | a confirmed hold stands until the holder of its key signs its release and is signed by the key it names; a model's record, token and ticket agree with what was answered, but for a token whose removal failed and a ticket whose number never came back; namespaces match the rows that ask for them; the overlaps and crashes that void each are named in the property |
| `hold_not_enforced` (violation) | `HeldEntriesKept` | the retention sweep removes entries that an active hold covers |
| `serving` | `EgressAsConfigured`, `SettingsInForce`, `StoreConsistent`, `LabelsEnforced`, `MemoryBounded`, `DeletedStaysGone`, `RecentKept`, `EgressNoticed` | IPv4 packets leave only as the config in force says, at every command of a reload except from the flush of a changed mode or port to the new DROP policy; isolation, retrieval and runtime settings come from one reading and flags outlive reloads; an open air-gap is noticed; collections, documents, chunks and their embedding model agree and a deleted document stays gone, whoever still works on it; a prompt has no text that was above its workspace's clearance, in the code's order of labels, once it had been found; loaded models stay within the limit and the calls, and eviction takes the one used least recently |
| `chunking` | `ChunksSound`, `ChunkingEnds` | every text and code file within the bounds is cut completely into chunks of the size, for every size and overlap, and the loops end |

Properties named as a conjunction put the module's type invariant together with what the
types serve: `TailInSync`, `AdmissionBounded`, `QuotasHold`, `CredentialsSound`, `AttemptsBounded`,
`SpaceAccounted`, `HoldsSound`, `RegistrySound`, `TenancySound`, `SettingsInForce`,
`ChunksSound`; the parts have names of their own in the modules.

Bounds. Four appends with `MaxLines = 2` give two sealed segments and a live
file, enough for a segment that straddles a cutoff, a second rotation after an
interrupted one, and an empty active file behind segments. Two faults give a
crash during the recovery from a crash, or a failed operation followed by one.
One administrator's prune is enough to move the head of the active file once at
any place. Four calls, two permits and two runtime threads give a full
semaphore, a waiter and two calls inside the check; limits 1 and 2 change under
them. Two requests on three workspaces, one for each quota that two requests can
exceed, give refusals on all three; `max_parallel` is 0, which the queue takes as
1. Four incident handlers and two crashes give a declaration,
its resolution and another declaration across restarts, and two callers two uses of one
credential at once. Two keys, passphrases,
PCR lists and platforms let each be replaced by another, and a lockout of two
attempts gives one before and one at the limit; nothing bounds the number of
commands, starts and crashes in `keys`. Three ids give an administrator, a user and a
third account that takes the place of a deleted one; two session tokens with the same
first characters let a revocation meet another's session; window 2 with limits 2 and
1 over four instants gives a burst at the end of one window and the beginning of the
next, `U32Max` 3 a saturated counter and `MapCap` 0 a pruning of the map at every
attempt. A behaviour of `identity` has one of four kinds of traffic from beginning to
end (`Gate`, `Rows`, `Subjects`, `Sessions`), each the handlers that can disturb one
another in some property; the proofs of section 4 have no such division.

In `store` two models share two contents, one command process runs beside the
daemon, two commands or requests and one fault: enough for a removal that meets an
import on a shared blob, a failed start followed by a second one, and a copy or a
download that a power loss spoils before the next start imports it. In `governance` four requests with two crashes, two
hold keys and three instants with two to a second give two holds in one second, a
key replaced under a hold and a release after it; two handlers and two tickets on
one digest give a resubmission beside a ticket task; two administrators on one slug
a creation beside a deletion. In `serving` the budget of requests depends on the
traffic (three about documents or labels, four changes of settings, five calls of
models), with two requests at a time, two documents in two collections, two embedding
models of one dimension, one crash, three models for a cache of two and three calls:
an ingestion beside a deletion and a restart with the other model, labels that
change under a chat, two reloads side by side, two loads of one model beside an
eviction. In `chunking` texts have up to six characters of four classes, code
files three lines of up to two characters (among the lines of braces some that open or
close two, and some that close one without ending a unit), sizes and overlaps go up to five, so that
the overlap passes the size and a window has all three kinds of breaks.

`chunking`, `governance`, `hold_not_enforced`, `serving` and `store` set
`CHECK_DEADLOCK FALSE`, because a computation ends or the bounded requests run
out; in the other runs the sweep, `Status` or a new call is always possible.

Symmetry is used where only safety is checked: of keys, passphrases, PCR lists and
platforms in `keys`, of ids, session tokens and requests in `identity` (its action
property does not tell them apart either), of keys, tickets and requests in
`governance`.

Fairness. `QueueFairness` and `ChatFairness` assume that the runtime polls a
task that can go on (weak fairness of a request's own steps and of the spawned
release) and that a non-streaming generation ends (it is bounded by
`max_tokens`). Nothing is assumed of a stream's thread: `blocking_send` waits for
a client that may never read. `ModelStore` assumes weak fairness of the daemon's
own jobs and of the steps of its bootstrap that wait for nothing but the disk
(`BootStep`), which run one after another in one thread; nothing of its prompt, its
downloads, which have no timeout, and commands. `Serving` assumes it of the probe, which a timer repeats for ever, and
of nothing else; `Chunking` of its one sequential computation. Nothing is assumed of
clients, administrators or crashes.

Exemptions. Some properties except what a history variable records: `raced` (commands that
overlap a handler in `Identity`, processes that meet on a digest in `ModelStore`), `spilled`,
`cut`, `tangled`, `doubt`, `astray`, `coherent`, `lapse`, `spoiled`. The code does go wrong in those cases,
and section 5 says how; such a property says that it goes wrong in no other, and that what
is exempt is set right by the next undisturbed operation where the variable is reset. It is no evidence
about the excepted case itself.

Mutants. Each property of each passing run has a mutant in its module (marked
`Mutant`), a plausible slip in the code that TLC finds with that property.

## 4. Proofs

All proofs are for every value of the constants that satisfy the named
assumptions of the modules (the `ASSUME`s, which TLC
evaluates in the runs).

Every invariant and every action property of the passing runs is proved. An argument is
always the same: an inductive invariant, checked with
TLC on small instances first, holds at the start and is kept by every action,
one lemma for each; a theorem then takes the property out of it.

### Audit log (`AuditLogProofs`)

- `TypeCorrect`: `Spec => []TypeOK`, for every configuration.
- Under `SafeConfig` (age rotation on, no torn or failing I/O, prunes only while the
  daemon is down, which is the configuration of `audit_safe`), for any number of
  appends, rotations, sweeps, prunes and crashes:
  - `AckedEntriesKept`: `Spec => []NoAckedEntryLost`. The property is not inductive:
    that truncation loses nothing rests on the content of the file having been sealed
    (and still being what is in the file), that the sweep's prune finds nothing rests on
    the age trigger having rotated everything older than the retention cutoff, and that
    an expired row holds only expired entries rests on lines being in the order of their
    stamps. `RetentionInv` collects these facts: chronological lines (`InOrder`), an
    attached handle (`Attached`), nobody at work in a daemon that is down (`Running`),
    what a prune has taken out of the log (`Pruning`), the state of the rotation for
    every `pc` (`Writing`, `Sealing`) and the sweep's cutoffs (`Sweeping`).
  - `TailStaysInSync` (`TailInSync`), `LogImplementsTrail` (the refinement
    `ImplementsTrail`) and `HonestLogVerifies` (`VerifiesUnlessInterrupted`), from
    `ChainInv`, which adds that entries on disk are ordered by stamp (`Ordered`), that
    each row and the log continue what comes before them (`RowsJoined`, `LogJoined`),
    that what expired is older than what is left (`GoneIsOldest`) and that memory has
    the newest entry (`TailIsNewest`). Two neighbouring files join without a gap unless a
    prune took lines from between them. In the refinement a prune or the removal of a
    segment is an expiry at the start of the trail, the append's write an extension at
    its end, everything else a stutter.
- `LossIsReported`: `LossIsEvident` under `FaultyConfig` (no retention, prunes only while
  the daemon is down), with torn and failing writes, failing seals and truncations and
  crashes anywhere. `LossInv` says that where an acknowledged entry is missing there is
  a line that does not parse, in the log or in a segment the manifest names (`Reports`), that
  a write, a rotation and a prune under way keep such lines where they look for them
  (`InWrite`, `InSeal`, `InPrune`), and `verify_all`, which sorts the rows first, meets
  every one of them (`SortedKeepsRows`). With retention the property is false, as a
  segment that holds the spoilt line can expire before the entry that was glued to it.

### Inference queue and chat (`InferenceQueueProofs`)

- `GuardsAreConserved`: `QueueSpec => [](QueueTypeOK /\ GuardsConserved /\
  OvershootBounded)` for any finite set of calls, and `AdmissionStaysBounded`
  (`AdmissionBounded`) with it. The strengthening ties the semaphore's line to the queued
  calls (each once) and the checked calls to the runtime threads.
- `ParallelBounded`: `QueueSpec => []ParallelBound`, with any streams, disconnects and
  reloads. A running thread that is neither a stream's nor of a call that was dropped belongs
  to a call that still awaits it, and that call holds a permit (`Awaited`).
- `QuotasAlwaysHold`: `ChatSpec => []QuotasHold`. `Accounts` says that the counts of a
  workspace are those of the requests that hold a share, request by request and model by
  model, and that a share waiting to be given back belongs to a handler that has ended;
  that a count never goes below zero follows.
- `UsageImplementsLedger`: `ChatSpec => ImplementsLedger`. The mapping (`Place`) lets a
  request hold its share from `acquire` until the task that `UsageGuard::drop` spawns has
  run, so shares are given back late, and only then. With `Accounts`, the checks of
  `run` on the counters and on the map of active models are the ledger's `Room` on the
  set of shares (`RoomChecked`); from that `TakeQuota` is `Grant` or `Refuse`, the task is
  `GiveBack`, a client that leaves before the check is `GiveUp`, and all other steps are
  stutters (`LedgerStep`). `QuotasHold` says that too much is never granted; the refinement
  adds that nothing is refused that would fit: no failed, cancelled or abandoned request
  takes quota away for good.

### Incidents and credentials (`IncidentProofs`)

- `ActiveIncidentFreezes`: `Spec => []ActiveIsFrozen`. The invariant
  adds what the holder of the lock guarantees: `declare` has raised the flag,
  `resolve` has closed the phase before the flag is lowered.
- `FreezeOutlivesRestarts`, `NoFreezeWithoutIncident`:
  `FreezeKeptByFile` and `FrozenIsActive`, from `KeepInv`: until the state is
  spoiled there is at most one write job, it belongs to the holder of the lock
  and carries its phase, and the file is torn only while that job has it open.
- `CredentialsUsedOnce`: `CredentialsSound`, for any number of callers. The code does not
  order the check of `is_used` and the write of two requests, so a credential can be accepted
  twice (section 5); `met`, a history variable, holds the credentials on which two requests
  were between check and answer together. The invariant (`CredentialsInv`) says that a
  credential whose file can still be accepted has not been answered for, that the file of a
  credential in use is torn or `used`, over crashes inside it, and that outside `met` an answered
  credential has no request left in that gap.

### Keys (`KeyCustodyProofs`)

- `KeyTypes`: `Spec => []KeyTypeOK`, for every administrator. The
  invariant adds what is known of a process that writes: a start carries a whole
  key, a TPM sealing has a PCR list.
- `DeksStayReadable`: `CarefulAdmin => (Spec => []DeksReadable)`.
  `DeksReadable` speaks of the daemon and the rows; what makes it inductive is that
  all places that can hold a key (file, blobs, bundles, rows, daemon, processes
  under way) hold the same one (`SameKey`), that before the first `master.key` is
  complete none does (`FreshHasNone`), and that a process writes `master.key` only
  then (`JobsFit`), because a sealed copy that has replaced the file is looked for
  (`Replaced`).
- `KekIsKept`: `CarefulAdmin => (Spec => []KekKept)`, from `CopyInv`:
  `meta.json` is written after the blob it leads to (`MetaLast`), torn bytes are
  sealed or exported only while `master.key` is torn (`Clean`), and between commands
  `meta.json` leads to a blob unless a sealing was cut short (`Complete`).

### Users and sessions (`IdentityProofs`)

- `OrdersAlwaysStand`: `Spec => []OrdersStand`. The invariant adds
  that the row a handler has read under the mutex is still the stored one, or is gone,
  unless a command came between (`ReadIsCurrent`), and that an id is used for one
  account only (`IdsMinted`), so that an UPDATE of a deleted row cannot hit its
  successor.
- `AccountsKeepTheirOwner`: `Spec => []AccountsBound`, on top of the same invariant: every
  write in preparation, in the daemon or in a command however old its copy, has the
  provider and subject of the stored row (`PendingBound`), because no statement changes
  these columns.
- `TokensWorkOnce`: `Spec => []OneTimeTokens`: a token that is still
  stored, or not yet generated, has not been used (`StatesOnce`, `ResetsOnce`).
- `AttemptsStayBounded`: `Spec => []AttemptsBounded`, for every limit of at least one and
  every window, over restarts and the pruning of the map. `RateInv` places the attempts
  let through: those since the window of the map's entry began are at most its count, and at
  most `MaxLogin` precede them within a window (`Within`); if the entry is gone all lie more
  than a window back (`Paced`); and of any `2 * MaxLogin + 1` attempts in a row the first and
  the last are at least a window apart (`Spread`).
- `SessionsEndedByOwner`: the action property `OthersStaySignedIn`. A request that found a session by its first characters deletes it
  after the mutex was given back; `RequestsInv` says that the session it found is its own unless it may manage users
  (`Known`), and that no other account has the token it came with (`TokensUnique`).

### Model store (`ModelStoreProofs`)

- `StoreTyped`: `Spec => []StoreTypeOK`, from `StoreConstants` (which
  has finitely many command processes) and `NoneIsNoJob`. That temporary files are
  never counted below zero rests on every job past its copy having one of them;
  `Visits` says that the bootstrap is only ever at files that are there.
- `RowsKeepBlobs`: `Spec => []RowsHaveBlobs`, for any processes,
  commands, crashes and power losses. The invariant adds what each job may rely on:
  an import that is about to insert its row has its blob in place (`Placed`), a removal
  about to unlink has no other row on its digest (`Unneeded`), both unless the digest
  is in `raced`; a torn blob is one a power loss cut (`TornIsCut`); and the digests on
  which a removal of one process meets an import of another are in `raced`
  (`Meeting`).
- `SpaceStaysAccounted`: `Spec => []SpaceAccounted`. The proof showed that the digests of
  `raced` need no exception here, and the property no longer makes one.
- `LocalFilesStayServed`: the action property `LocalFilesServed`. During a start before
  any command or request every file of the directory has its row, is being imported or is
  still to be visited (`Attended`).

### Retrieval, settings, labels and models (`ServingProofs`)

All seven follow from one invariant of the composed daemon, `ServingInv`; a component's
part is kept by the component's own steps, and the others leave its variables alone.

- `EgressStaysAsConfigured`, `SettingsStayInForce`: only the holder of the lock changes
  the chain (`Locked`); the destinations let through are those of the isolator's entries or
  leftovers of a failed command, whatever command is next, and the policy is DROP or the
  command that sets it was refused, at every command but those of `Rewriting` (`Firewall`); the
  flags of the command line are in every config taken over (`FlagsKept`), and the three
  copies of the settings are of one reading, a reload that nothing disturbed having applied
  what it is past (`Agreement`).
- `StoreStaysConsistent` and the action property `DeletedDocumentsStayGone`: an ingestion
  that is about to insert finds the collection it has ensured still of the present embedding
  model, or deleted (`Ensured`), and no job outlives its daemon (`Quiet`).
- `LabelsStayEnforced`: in the policy, and in the file as long as it parses, every name
  outside `lapse` has the entry that was acknowledged (`Acknowledged`); the collections a search goes through were all in the scope of
  its check (`Scoped`).
- `MemoryStaysBounded` and the action property `RecentModelsKept`: the cache fits its limit
  after each insertion (`Fits`), and an entry's instant is that of its last use, which it
  shares with no other (`Dated`).

### Holds, approvals and workspaces (`GovernanceProofs`)

- `NamespacesStayMatched` (`TenancySound`): for a slug no opposite requests have met on, a
  creation and a deletion are apart, a namespace without a row belongs to the one creation
  that made it, and a deletion removes it before the row (`SlugInv`).
- `AnswersStayTrue` (`RegistrySound`): per digest, a lone handler finds record, token and
  ticket as its step expects (`LoneOn`, `InHand`), what was answered stands otherwise
  (`Answered`), and every open ticket is recorded or in a handler's hand (`Followed`). A
  token that `remove_file` has left behind is a state of its own (`left`), which the property
  allows after a revocation and forbids after an approval.
- `HoldsStayInForce` (`HoldsSound`): without an overlap or a crash `hold.pub` is at most one
  file ahead of `hold.key` and a placement has read the present one (`KeysInv`); what is about
  to be written is signed (`JobSigned`, `JobInv`), and a hold confirmed is on file (`Kept`).
  A first version said that a key generation is alone. TLC agreed within the run's four
  requests; the proof failed on a release that overlaps it, and the corrected invariant was
  then checked with five.

### Cutting documents (`ServingProofs`)

- `ChunksStaySound` (`ChunksSound`): for texts, lines, sizes and overlaps of any length. The
  loop of `chunk_text` (`TextInv`) has left behind only characters that are white space or in
  a chunk, because a piece ends behind its start and within the size, and the next one starts
  behind this start and not behind this end (`BreakWithin`, `PieceFits`). In the loops over
  code (`CodeInv`) a line that is not blank is in the unit being collected, a unit still to
  pack, the buffer or a chunk, and the buffer fits. What is packed is measured by `Length`,
  which is recursive; that two runs of lines put together have the length of both
  (`LengthJoins`) takes an induction, done with sets: a set of naturals with 0 and every
  successor is all of them (`AllNaturals`), which follows from a least element of the rest.
- `CuttingAdvances`: the safety half of `ChunkingEnds`. `StepsLeft` is a natural number and
  falls with every step, so no document makes the splitters go on for ever.

### Only model-checked

The liveness properties `AdmittedCallEnds`, `FreezeDrains`, `StartEnds`, `EgressNoticed` and
`ChunkingEnds` need fairness and ENABLED, which are out of the provers' reach; of
`ChunkingEnds` the descent is proved (above). `HeldEntriesKept` is the property that the
code violates.

## 5. Divergences met while modelling

`hold_not_enforced` keeps the one that bears most on what the node promises: a hold
does not stop the sweep or a prune, since `guard_retention_delete` has no caller.
Others, which the models show when the exception that names them is taken out of a
property:

- A crash between `save_manifest` and the truncation of the active file leaves entries
  in two files, and `verify_all` reports the honest log (exempted in
  `VerifiesUnlessInterrupted`).
- With the default configuration (no age rotation) the sweep's `prune_log` renames a
  file over the log; the daemon keeps appending to the unlinked one, and loses
  acknowledged entries (excluded by `SafeConfig`).
- `docs/usage.md:166`: more than `max_parallel` streams generate at once, as a stream
  gives its permit back when its thread starts, and a call that was dropped while its thread
  runs (`ParallelBound` leaves both out).
- `ARCHITECTURE.md:10`, `HANDBOOK.md:1034`: an `InferenceStart` record that could not be
  written does not stop the generation; later append failures are ignored too
  (`chat.rs:398`).
- `declare` dropped between raising the flag and storing the incident leaves inference
  suspended with no incident to resolve (`spoiled` in `Incident`).
- `HANDBOOK.md:383` and `docs/compliance.md:89` say that the chain stays valid after
  a prune. A prune of the active file behind sealed segments leaves a gap that
  `verify_all` reports (exempted in `VerifiesUnlessInterrupted`); `retention.rs:9`
  itself says "HMAC chain is broken from the first row that remains".
- `HANDBOOK.md:400`: the chain "does not reset". When every entry has expired,
  `scan_tail` starts again at 0 (`log.rs:265-273`).
- After a failed fsync (`log.rs:125`) the line is in the file and its number is
  used again by the next append.
- `docs/usage.md:173`: more than `max_queue_depth` calls are let in when two runtime
  threads pass `check_capacity` together; `OvershootBounded` is what holds.
- `docs/receipt.md:3`: streamed answers have no receipt (`chat.rs:452-499`).
- The baseline check (`routes/baseline.rs:86`) and the summariser (`routes/rag.rs:146`) call
  the engine without reading `audit_frozen`: generations start during an incident
  (`CallAside`; `FreezeDrains` is about chats). `maranode-daemon/src/baseline_check.rs` would
  too, and has no caller.
- `HANDBOOK.md:688`: the sweep and `prune_log` do not read `audit_frozen`.
- A crash while `incident-state.json` is rewritten loses the incident (`spoiled`
  in `Incident`).
- Two overlapping `bg_use` requests are not ordered by any lock.
- `HANDBOOK.md:682` says that declaring an incident ends active sessions; a request
  past the check of `audit_frozen` (`chat.rs:88`) still starts its generation.
- Without `CarefulAdmin`, `DeksReadable` and `KekKept` do not hold: a daemon and a
  `workspace shred` that both find no `master.key` make two keys (`kek.rs:21-34`);
  `workspace shred` writes a new `master.key` beside a sealed copy
  (`commands/workspace.rs:41`), which `tpm seal` then seals over the real one;
  switching `tpm.enabled` off with `master.key` removed makes a new KEK
  (`main.rs:654`).
- `kek.rs:4-6` says that the KEK is stored as a sealed blob "instead of the plain hex
  file"; `load_master_kek` seals a copy and leaves `master.key` where it is, and
  `load_or_create_sealed` does not exist.
- `commands/tpm.rs:70`, import-recovery's `--pcrs`: "uses TPM default if omitted"; the
  key is then sealed in software (`rotation.rs:98-104`).
- `tests/integration/tpm_tests.rs:47,51,171` expect a software seal to keep its PCR
  list; `software_seal` records none (`seal.rs:293`).
- `docs/erasure.md` says that every retrieval chunk is encrypted; only the default
  workspace's DEK is loaded (`main.rs:352`) and that row is created without one.
- `workspace shred` appends its certificate from a second process while the daemon
  keeps its own `seq` and `last_hmac` (`commands/workspace.rs:66`).
- `tpm rotate` without `--pcrs` seals a TPM-bound key in software
  (`commands/tpm.rs:86`, `rotation.rs:135`).
- `docs/users.md:50`, "disable a user - login blocked": `maranode users set-password`
  writes back the whole row it read before its prompt, and enables an account that was
  disabled meanwhile (`commands/users.rs:167-190`; `raced` in `OrdersStand`).
- `state.rs:279` calls the login limit a sliding window; it is a fixed one that starts
  with an attempt, so that up to twice the limit passes within a minute
  (`LoginBurstBounded`).
- `ARCHITECTURE.md:276`: "Per-IP rate limiting is applied to all auth endpoints"; the
  OIDC and SAML endpoints and `confirm_reset` are not limited.
- `docs/threat-model.md:138` and `197` say that a session cannot be revoked by itself and
  that a restart ends all; `routes/users.rs:355` revokes one, and sessions are rows of
  `users.db`. A changed or reset password leaves the account's sessions valid.
- LDAP groups give a role at the first login only; a later change of groups does not
  reach the account (`upsert_sso_user_and_session`).
- `WorkspaceDb::rotate_kek` has no caller outside tests; an interrupted rotation cannot
  be repeated, since rows already rewrapped do not unwrap under the old key.

Model store:

- A removal and an import of two processes that meet on one digest leave a row
  without its blob (`store.rs:129`, `raced`); a pull's rename without an fsync can leave a
  torn blob after a power loss, and a later import of the same content keeps it, since it
  finds the name taken (`blob.rs`, `cut`).
- A default model whose row has neither a blob nor a local file stops every start; a
  removed model comes back at the next start if its file is in `models_dir`; an import
  under a name that is taken leaves its blob behind.
- A start can wait for ever: the download has no timeout (`download.rs:18-37`), and
  `prompt_download` blocks on the terminal (`bootstrap.rs:213-214`), before the daemon serves
  or isolates anything. `StartEnds` says that it hangs nowhere else.
- Whether a local file is an embedding model is decided once by its path and once by
  its name; the two can disagree.

Governance:

- `generate-key` replaces `hold.pub` whatever holds it serves, and returns the private
  key. `hold_recovery.rs:41` ("administrator CANNOT release a hold without this key") and
  `HANDBOOK.md:502-505` (release by two parties) do not hold: after a new key the
  administrator's own releases, and a signature made with `maranode hold sign-release`
  never verifies, because `release_hold` checks it against its own `Utc::now()`.
- Two holds placed in one second share a name, and the second replaces the first.
- `README.md:175`: an active incident places no hold.
- `HANDBOOK.md:553-555`, `README.md:229`: no approval token is asked for when a model is
  loaded; `LifecycleManager` and `BaselineChecker` are constructed nowhere, and the chat
  handler uses `blob_path` as it is (`chat.rs:145-151`). A torn signing key fails every
  approval; `approval_signing.pub` is never read.
- `revoke` answers ok although the token could not be removed (`registry.rs:255`); a ticket
  that the remote system made and whose answer was lost or had no number is not recorded, and
  with both systems configured a second one is opened in Jira (`changemgmt.rs:43-54`).
- Submitting an approved digest again makes it pending while its token stays; `revoke`
  never closes a ticket; the ticket task of a submission can save a revoked record back as
  pending.
- Creating a workspace under a taken slug leaves a namespace behind. Namespaces are
  lost at a reboot and nothing runs inside them. A workspace created since the start
  writes to the daemon's own audit log until a restart, and a slug used again continues
  the old log.

Documents and settings:

- `ARCHITECTURE.md:312` orders the labels "Public < Internal < Confidential < Restricted" and
  `HANDBOOK.md:583-584` lists `PUBLIC`, `CONFIDENTIAL`, `RESTRICTED` as ordered; the code has
  `Restricted` below `Confidential` (`classification.rs:8-14`, and `classification_tests.rs:277-283`
  says the same), so text labelled RESTRICTED reaches a workspace cleared for CONFIDENTIAL.
  `LabelsEnforced` is about the code's order, which is what labels as numbers stand for.
- A label that is raised after a chat's check (`chat.rs:274`) is not seen by the request that
  has passed it.
- Only `iptables` is run (`iptables.rs:95`): IPv6 packets leave whatever the mode, against
  `HANDBOOK.md:287`, "Nothing else leaves the machine". `EgressAsConfigured` is about IPv4.
- The upload endpoints skip the label check of ingestion and `/v1/rag/search` has no
  clearance check at all; search does not compare the collection's embedding model, only the
  dimension. A torn `policy.json` drops every label without a word. A DLP sync
  answers 200 though its save failed, and a failed save leaves memory changed.
- `HANDBOOK.md:285-292`, `README.md:164`: rules of hosts that left the whitelist stay
  unless mode or port change too, and after a kill. During a reconfiguration egress is open
  between the flush and the new policies (`iptables.rs:87-90`; `Rewriting`, where
  `EgressAsConfigured` says nothing).
  Downloads of the bootstrap run before the isolation (`docs/threat-model.md:15`). Starting
  with isolation disabled leaves a killed predecessor's DROP rules.
- A reload that fails at the system prompt leaves the isolation changed and
  `runtime.air_gap` old; two reloads can interleave and leave settings of both.
  `MARANODE_LOG_PROMPTS` and `MARANODE_TPM` take effect at the first reload, not at the
  start. Removing `config.toml` and reloading applies the built-in defaults; a daemon
  started without a file cannot reload.
- Embeddings bypass the queue's permits (`queue.rs:101`), and two first calls of one
  model load it twice (`MemoryBounded` counts the second copy).
- With an overlap near the size a chunk can lie wholly inside the one before it.

Real, and not covered by a property of a run: `verify_all` reading its files beside a
running daemon (`verify.rs:127`); `workspace shred` appending from a second process
(`commands/workspace.rs:66`); a role read once per request while the account changes
(`user_ctx.rs:141`).

## 6. Not modelled, and what comes next

Not modelled: audit export, bundles and signing, the forensic snapshot, metrics,
statistics and pages, the offline verifier and the benchmark format, sign or print what
was read and keep no state. Sampling, tokenisation, vector arithmetic and text extraction
are numeric or textual code whose values no property here depends on. Quotes, PCR policies
and TEE reports are hardware. `LifecycleManager`, `BaselineChecker` and `rotate_all` have no
caller. A SIGHUP that arrives during a shutdown, and INPUT rules of the firewall, are left
out.

Next, most important first:

1. Audit log: a verifier whose reads are separate steps beside a running daemon, and a
   second appending process.
2. The role a request was admitted with, beside changes to its account.
3. Proofs: `LossIsEvident` with a retention period, which has to be restated first, as a
   segment that retention drops can take with it the torn line that betrays a lost entry
   which has not expired.
