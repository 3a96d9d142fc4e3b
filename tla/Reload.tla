------------------------------- MODULE Reload -------------------------------
(***************************************************************************)
(* The configuration of a running daemon: the start reads config.toml and  *)
(* applies it, a reload (SIGHUP or the admin endpoint) reads it again and  *)
(* hands it to the isolator, the retrieval engine and the runtime          *)
(* settings, one after another.  Nothing serialises two reloads but the    *)
(* isolator's lock, and a reload that fails leaves what it has applied.    *)
(* The command line goes over the file at the start and at every reload,   *)
(* the environment's own overrides only at a reload.                       *)
(***************************************************************************)
EXTENDS Isolation

CONSTANTS
    Unset,
    NoFile,     \* there is no config.toml
    Launches    \* what a process may be started with: sets of Overrides

Overrides == {"no_isolation", "admin_key", "log_prompts"}

DaemonConfig ==
    [mode : Modes, api_port : Nat, whitelist : SUBSET Hosts,
     ingest : {"Anyone", "AdminOnly", "Allowlist"}, admin_key : BOOLEAN,
     log_prompts : BOOLEAN]

ASSUME ReloadConstants ==
    /\ Configs \subseteq DaemonConfig /\ NoFile \notin Configs
    /\ Unset \notin DaemonConfig
    /\ Launches \subseteq SUBSET Overrides
    /\ {"start", "sighup", "admin"} \subseteq Workers

VARIABLES
    file,       \* config.toml
    known,      \* the process knows the path of config.toml
    launch,     \* command line and environment of this process
    life,       \* "off", "starting" or "up"
    runtime,    \* RuntimeSettings, as the config they came from
    rag,        \* RagConfig, as the config it came from
    reloads,    \* per worker, what it does and with which config
    coherent    \* history: the last change of settings was alone and complete

cfgvars == << file, known, launch, life, runtime, rag, reloads, coherent >>

\* isolator, runtime and rag hold the config they were made from; a process
\* that does not run has none.
Idle == [pc |-> "idle", cfg |-> Unset, alone |-> TRUE]

Busy == {w \in Workers : reloads[w].pc # "idle"}

air_gap == life = "up" /\ runtime.mode # "Disabled"

DefaultConfig ==
    [mode |-> "AirGap", api_port |-> 11984, whitelist |-> {}, ingest |-> "Anyone",
     admin_key |-> FALSE, log_prompts |-> FALSE]

\* A missing file is as good as an empty one.
Read(f) == IF f = NoFile THEN DefaultConfig ELSE f

\* The environment sets what no flag exists for; unset variables change nothing.
apply_env_overrides(c, l) == [c EXCEPT !.log_prompts = @ \/ "log_prompts" \in l]

\* StartupPins::apply.
Pinned(c, l) ==
    [c EXCEPT !.mode = IF "no_isolation" \in l THEN "Disabled" ELSE @,
              !.admin_key = @ \/ "admin_key" \in l]

Goes(w, pc) == reloads' = [reloads EXCEPT ![w].pc = pc]

ReloadInit ==
    /\ file \in Configs \cup {NoFile} /\ known = FALSE /\ launch = {} /\ life = "off"
    /\ runtime = Unset /\ rag = Unset
    /\ reloads = [w \in Workers |-> Idle] /\ coherent = TRUE
    /\ isolator = Unset /\ output = "ACCEPT" /\ allowed = {} /\ kept = {}
    /\ holder = Nobody /\ step = "idle" /\ todo = {} /\ refused = FALSE
    /\ isolation_ok = TRUE /\ seen = "nothing"

\* The administrator edits or removes config.toml.
EditFile ==
    /\ \E c \in (Configs \cup {NoFile}) \ {file} : file' = c
    /\ UNCHANGED << known, launch, life, runtime, rag, reloads, coherent, isovars >>

----------------------------------------------------------------------------
(* Start: the isolator, then the settings, then the routes. *)
Start ==
    /\ life = "off" /\ life' = "starting"
    /\ known' = (file # NoFile)
    /\ \E l \in Launches : LET c == Pinned(Read(file), l) IN
         /\ launch' = l
         /\ reloads' = [reloads EXCEPT !["start"] = [Idle EXCEPT !.pc = "apply", !.cfg = c]]
         /\ StartIsolator("start", c)
    /\ UNCHANGED << file, runtime, rag, coherent >>

\* The rest of the start may fail too: a port in use, an unreadable prompt.
StartEnds ==
    /\ Returned("start") /\ Release("start")
    /\ \/ /\ step = "ok" /\ life' = "up" /\ coherent' = TRUE
          /\ runtime' = reloads["start"].cfg /\ rag' = reloads["start"].cfg
          /\ isolation_ok' = TRUE
       \/ life' = "off" /\ UNCHANGED << runtime, rag, coherent, isolation_ok >>
    /\ reloads' = [reloads EXCEPT !["start"] = Idle]
    /\ UNCHANGED << file, known, launch, isolator, output, allowed, todo, kept, refused,
                    seen >>

----------------------------------------------------------------------------
\* Worker w reloads with config c.
Reloads(w, c) ==
    /\ life = "up" /\ known /\ reloads[w].pc = "idle"
    /\ reloads' = [v \in Workers |->
                     IF v = w THEN [pc |-> "isolation", cfg |-> c, alone |-> Busy = {}]
                     ELSE [reloads[v] EXCEPT !.alone = FALSE]]

\* reload, up to the isolator.
load(w) ==
    /\ Reloads(w, Pinned(apply_env_overrides(Read(file), launch), launch))
    /\ UNCHANGED << file, known, launch, life, runtime, rag, coherent, isovars >>

sighup == load("sighup")

\* The admin endpoint is closed without a key in the settings.
reload_config == runtime.admin_key /\ load("admin")

ReloadIsolation(w) ==
    /\ reloads[w].pc = "isolation" /\ Goes(w, "apply")
    /\ reconfigure(w, reloads[w].cfg)
    /\ UNCHANGED << file, known, launch, life, runtime, rag, coherent >>

Fails(w) ==
    /\ reloads' = [reloads EXCEPT ![w] = Idle] /\ coherent' = FALSE

\* reconfigure returned: its error ends the reload.
ReloadApplied(w) ==
    /\ w # "start" /\ Returned(w) /\ Release(w)
    /\ IF step = "ok" THEN Goes(w, "prompt") /\ UNCHANGED coherent ELSE Fails(w)
    /\ UNCHANGED << file, known, launch, life, runtime, rag, isolator, output, allowed,
                    todo, kept, refused, isolation_ok, seen >>

\* Mutant: the engine keeps its settings until a restart.
ReloadRagLater(w) ==
    /\ reloads[w].pc = "prompt"
    /\ (Goes(w, "runtime") /\ UNCHANGED coherent) \/ Fails(w)
    /\ UNCHANGED << file, known, launch, life, runtime, rag, isovars >>

\* The system prompt's file may be unreadable; the isolation stays changed.
ReloadRag(w) ==
    /\ reloads[w].pc = "prompt"
    /\ \/ Goes(w, "runtime") /\ rag' = reloads[w].cfg /\ UNCHANGED coherent
       \/ Fails(w) /\ UNCHANGED rag
    /\ UNCHANGED << file, known, launch, life, runtime, isovars >>

\* The audit append that follows may fail, when everything is applied.
replace_runtime(w) ==
    /\ reloads[w].pc = "runtime"
    /\ runtime' = reloads[w].cfg
    /\ coherent' = reloads[w].alone
    /\ reloads' = [reloads EXCEPT ![w] = Idle]
    /\ UNCHANGED << file, known, launch, life, rag, isovars >>

ReloadStep ==
    \/ StartEnds
    \/ \E w \in Workers : ReloadIsolation(w) \/ ReloadApplied(w) \/ ReloadRag(w)
                            \/ replace_runtime(w)
    \/ IsolatorStep /\ UNCHANGED cfgvars

Probe == run_probe(air_gap) /\ UNCHANGED cfgvars
ProbeStored == StoreProbe /\ UNCHANGED cfgvars

----------------------------------------------------------------------------
(* The process ends; what it held in memory is gone, the rules are not. *)
Ends ==
    /\ life' = "off"
    /\ reloads' = [w \in Workers |-> Idle]
    /\ holder' = Nobody /\ step' = "idle" /\ todo' = {}
    /\ seen' = "nothing" /\ isolation_ok' = TRUE
    /\ runtime' = Unset /\ rag' = Unset /\ isolator' = Unset
    /\ coherent' = TRUE /\ known' = FALSE /\ launch' = {}
    /\ UNCHANGED << file, refused >>

ReloadCrash == life # "off" /\ Ends /\ UNCHANGED << output, allowed, kept >>

\* A graceful shutdown waits for the requests and takes the rules away, or fails to.
shutdown ==
    /\ life = "up" /\ Busy = {} /\ Ends
    /\ output' \in {"ACCEPT", output} /\ allowed' \in {{}, allowed} /\ kept' = allowed'

----------------------------------------------------------------------------
ReloadTypeOK ==
    /\ IsolationTypeOK
    /\ file \in Configs \cup {NoFile} /\ launch \in Launches \cup {{}}
    /\ known \in BOOLEAN /\ coherent \in BOOLEAN
    /\ life \in {"off", "starting", "up"}
    /\ holder # Nobody <=> \E w \in Workers : reloads[w].pc = "apply"
    /\ life = "up" => Unset \notin {runtime, rag, isolator}

\* At every command of a reload, a daemon with isolation in force lets IPv4 packets
\* out only to the destinations of the config it took over last. It does not from
\* the flush for a new mode or port to the command that sets the policy to DROP
\* again, after an iptables command failed, and for rules left by a killed process
\* or by a config of the same mode and port.
EgressAsConfigured ==
    life = "up" /\ isolator.mode # "Disabled" /\ ~Rewriting =>
      /\ output = "DROP" \/ refused
      /\ allowed \subseteq Entries(isolator) \cup kept

\* Once every reload has ended, the isolation, the retrieval settings and the
\* runtime settings (with the air-gap flag the probe, /health and the chat
\* handler read) come from one reading of config.toml, unless the last reload
\* failed half-way or ran beside another.
SettingsAgree ==
    life = "up" /\ Busy = {} /\ coherent => isolator = runtime /\ rag = runtime

\* What the command line said stays in force for the life of the process,
\* whatever config.toml says at a reload: isolation that was switched off is not
\* switched on, and the admin key it gave opens the admin endpoints.
FlagsOutliveReloads ==
    life = "up" =>
      /\ "no_isolation" \in launch => isolator.mode = "Disabled" /\ ~air_gap
      /\ "admin_key" \in launch => runtime.admin_key

\* While air-gap is set and egress stays open, a probe sooner or later turns
\* inference off, and while it stays closed, on again.
EgressNoticed ==
    /\ []<>~(air_gap /\ Reachable) \/ <>[]~isolation_ok
    /\ []<>~(air_gap /\ ~Reachable) \/ <>[]isolation_ok
=============================================================================
