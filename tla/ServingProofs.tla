--------------------------- MODULE ServingProofs ---------------------------
(***************************************************************************)
(* Proofs about Serving, for any configurations, hosts, collections,       *)
(* documents, models and numbers of requests and crashes, and about        *)
(* Chunking, for documents, lines and chunk sizes of any length.           *)
(***************************************************************************)
EXTENDS Serving, Chunking, FiniteSetTheorems, WellFoundedInduction, TLAPS

ServingNext == Request \/ Boot \/ Step \/ Probing \/ Crash \/ Shutdown

-----------------------------------------------------------------------------
(* Settings and isolation. *)

\* What a step of the daemon is to its settings.
ReloadNext ==
    \/ EditFile \/ sighup \/ reload_config \/ Start \/ ReloadStep
    \/ Probe \/ ProbeStored \/ ReloadCrash \/ shutdown

\* A step of the daemon is one about settings, or leaves them alone.
LEMMA StepOfSettings == [ServingNext]_servvars => [ReloadNext]_settings
BY DEF ServingNext, servvars, ReloadNext, Request, Boot, Step, Probing, Crash, Shutdown

ReloadJob ==
    [pc : {"idle", "isolation", "apply", "prompt", "runtime"},
     cfg : DaemonConfig \cup {Unset}, alone : BOOLEAN]

\* Who works with settings has a config, and so has a daemon that serves.
SettingsTyped ==
    /\ reloads \in [Workers -> ReloadJob]
    /\ isolator \in DaemonConfig \cup {Unset}
    /\ runtime \in DaemonConfig \cup {Unset} /\ rag \in DaemonConfig \cup {Unset}
    /\ \A w \in Workers : reloads[w].pc # "idle" => reloads[w].cfg \in DaemonConfig
    /\ life # "off" => isolator \in DaemonConfig
    /\ life = "up" => runtime \in DaemonConfig /\ rag \in DaemonConfig

\* The lock's holder is the one that applies its config; the start works alone.
Locked ==
    /\ \A w \in Workers : holder = w <=> reloads[w].pc = "apply"
    /\ \A w \in Workers : holder = w => isolator = reloads[w].cfg
    /\ life = "off" => \A w \in Workers : reloads[w].pc = "idle"
    /\ life = "starting" =>
         holder = "start" /\ \A w \in Workers : w # "start" => reloads[w].pc = "idle"
    /\ life = "up" => reloads["start"].pc = "idle"

SettingsInv == ReloadTypeOK /\ SettingsTyped /\ Locked

\* What is read, overridden and pinned is a config.
LEMMA ConfigTypes ==
  ASSUME NEW l
  PROVE  /\ DefaultConfig \in DaemonConfig
         /\ \A f \in Configs \cup {NoFile} : Read(f) \in DaemonConfig
         /\ \A c \in DaemonConfig : /\ Pinned(c, l) \in DaemonConfig
                                    /\ apply_env_overrides(c, l) \in DaemonConfig
<1>1. DefaultConfig \in DaemonConfig
  BY DEF DefaultConfig, DaemonConfig, Modes
<1>2. \A f \in Configs \cup {NoFile} : Read(f) \in DaemonConfig
  BY <1>1, ReloadConstants DEF Read
<1>3. ASSUME NEW c \in DaemonConfig
      PROVE  Pinned(c, l) \in DaemonConfig /\ apply_env_overrides(c, l) \in DaemonConfig
  BY DEF DaemonConfig, Pinned, apply_env_overrides, Modes
<1> QED
  BY <1>1, <1>2, <1>3

\* A worker without a reload.
LEMMA IdleTyped == Idle \in ReloadJob /\ Idle.pc = "idle"
BY DEF Idle, ReloadJob

\* What reload hands to the isolator.
Reading == Pinned(apply_env_overrides(Read(file), launch), launch)

\* What a reload reads is a config.
LEMMA ReadingTyped == file \in Configs \cup {NoFile} => Reading \in DaemonConfig
BY ConfigTypes DEF Reading

\* At the start no daemon runs and nobody reloads.
LEMMA SettingsInit == ReloadInit => SettingsInv
<1> SUFFICES ASSUME ReloadInit PROVE SettingsInv
  OBVIOUS
<1>1. IsolationTypeOK
  BY IsolationConstants DEF ReloadInit, IsolationTypeOK
<1>2. reloads \in [Workers -> ReloadJob] /\ \A w \in Workers : reloads[w].pc = "idle"
  BY IdleTyped DEF ReloadInit
<1>3. ReloadTypeOK
  BY <1>1, <1>2 DEF ReloadInit, ReloadTypeOK
<1>4. SettingsTyped
  BY <1>2 DEF ReloadInit, SettingsTyped
<1>5. Locked
  BY <1>2, IsolationConstants, ReloadConstants DEF ReloadInit, Locked
<1> QED
  BY <1>3, <1>4, <1>5 DEF SettingsInv

\* A step of the isolator's own: only its holder's progress changes.
LEMMA IsolatorStepSettings ==
  ASSUME SettingsInv, IsolatorStep, UNCHANGED cfgvars
  PROVE  SettingsInv'
<1>1. /\ holder' = holder /\ isolator' = isolator /\ holder # Nobody
      /\ step' # "idle"
  BY DEF IsolatorStep, remove_rules, OpenPolicy, apply_air_gap, apply_whitelist,
     SettingsInv, ReloadTypeOK, IsolationTypeOK, ApplyNext
<1>2. life # "off"
  BY <1>1 DEF SettingsInv, Locked, ReloadTypeOK, IsolationTypeOK
<1>3. Entries(isolator) \subseteq Hosts
  BY <1>2 DEF SettingsInv, SettingsTyped, DaemonConfig, Entries
<1>4. IsolationTypeOK'
  <2>1. CASE remove_rules
    BY <2>1, <1>1 DEF remove_rules, SettingsInv, ReloadTypeOK, IsolationTypeOK
  <2>2. CASE OpenPolicy
    BY <2>2, <1>1 DEF OpenPolicy, SettingsInv, ReloadTypeOK, IsolationTypeOK, ApplyNext
  <2>3. CASE apply_air_gap
    BY <2>3, <1>1, <1>3 DEF apply_air_gap, SettingsInv, ReloadTypeOK, IsolationTypeOK
  <2>4. CASE apply_whitelist
    BY <2>4, <1>1 DEF apply_whitelist, SettingsInv, ReloadTypeOK, IsolationTypeOK
  <2> QED
    BY <2>1, <2>2, <2>3, <2>4 DEF IsolatorStep
<1>5. ReloadTypeOK'
  BY <1>1, <1>4 DEF SettingsInv, ReloadTypeOK, cfgvars
<1>6. SettingsTyped' /\ Locked'
  BY <1>1 DEF SettingsInv, SettingsTyped, Locked, cfgvars
<1> QED
  BY <1>5, <1>6 DEF SettingsInv

\* A start keeps SettingsInv.
LEMMA StartSettings == SettingsInv /\ Start => SettingsInv'
<1> SUFFICES ASSUME SettingsInv, Start PROVE SettingsInv'
  OBVIOUS
<1>1. PICK l \in Launches :
        LET c == Pinned(Read(file), l)
        IN /\ launch' = l
           /\ reloads' = [reloads EXCEPT !["start"] = [Idle EXCEPT !.pc = "apply", !.cfg = c]]
           /\ StartIsolator("start", c)
  BY DEF Start
<1> DEFINE c == Pinned(Read(file), l)
           job == [Idle EXCEPT !.pc = "apply", !.cfg = c]
<1>2. c \in DaemonConfig
  BY ConfigTypes DEF SettingsInv, ReloadTypeOK
<1>3. job \in ReloadJob /\ job.pc = "apply" /\ job.cfg = c
  BY <1>2 DEF ReloadJob, Idle
<1> HIDE DEF c, job
<1>4. /\ reloads' = [reloads EXCEPT !["start"] = job] /\ holder' = "start"
      /\ isolator' = c /\ step' \in {"ok", "drop"} /\ kept' = allowed
      /\ UNCHANGED << output, allowed, todo, refused, isolation_ok, seen >>
  BY <1>1 DEF c, job, StartIsolator, ApplyNext
<1>5. /\ life = "off" /\ life' = "starting" /\ known' \in BOOLEAN
      /\ launch' \in Launches /\ UNCHANGED << file, runtime, rag, coherent >>
  BY <1>1 DEF Start
<1>6. "start" \in Workers /\ holder = Nobody /\ \A w \in Workers : reloads[w].pc = "idle"
  BY <1>5, ReloadConstants DEF SettingsInv, Locked, ReloadTypeOK, IsolationTypeOK
<1>7. reloads \in [Workers -> ReloadJob]
  BY DEF SettingsInv, SettingsTyped
<1>8. /\ reloads' \in [Workers -> ReloadJob] /\ reloads'["start"] = job
      /\ \A w \in Workers : w # "start" => reloads'[w] = reloads[w]
  BY <1>3, <1>4, <1>6, <1>7
<1>9. IsolationTypeOK'
  BY <1>4, <1>6, IsolationConstants DEF SettingsInv, ReloadTypeOK, IsolationTypeOK
<1>10. ReloadTypeOK'
  BY <1>3, <1>5, <1>4, <1>6, <1>8, <1>9, IsolationConstants DEF SettingsInv, ReloadTypeOK
<1>11. SettingsTyped'
  BY <1>2, <1>3, <1>4, <1>5, <1>6, <1>8 DEF SettingsInv, SettingsTyped
<1>12. Locked'
  BY <1>3, <1>4, <1>5, <1>6, <1>8 DEF Locked
<1> QED
  BY <1>10, <1>11, <1>12 DEF SettingsInv

\* The end of a start keeps SettingsInv.
LEMMA StartEndsSettings == SettingsInv /\ StartEnds => SettingsInv'
<1> SUFFICES ASSUME SettingsInv, StartEnds PROVE SettingsInv'
  OBVIOUS
<1>1. /\ holder = "start" /\ holder' = Nobody /\ step' = "idle"
      /\ reloads' = [reloads EXCEPT !["start"] = Idle]
      /\ UNCHANGED << file, known, launch, isolator, output, allowed, todo, kept, refused,
                      seen >>
  BY DEF StartEnds, Returned, Release
<1>2. \/ /\ life' = "up" /\ runtime' = reloads["start"].cfg
         /\ rag' = reloads["start"].cfg /\ isolation_ok' = TRUE /\ coherent' = TRUE
      \/ life' = "off" /\ UNCHANGED << runtime, rag, coherent, isolation_ok >>
  BY DEF StartEnds
<1>3. "start" \in Workers
  BY ReloadConstants
<1>4. /\ reloads["start"].pc = "apply" /\ life = "starting"
      /\ reloads \in [Workers -> ReloadJob]
      /\ \A w \in Workers : w # "start" => reloads[w].pc = "idle"
  BY <1>1, <1>3 DEF SettingsInv, Locked, SettingsTyped, ReloadTypeOK
<1>5. /\ reloads' \in [Workers -> ReloadJob] /\ \A w \in Workers : reloads'[w].pc = "idle"
  BY <1>1, <1>4, IdleTyped
<1>6. IsolationTypeOK'
  BY <1>1, <1>2, IsolationConstants DEF SettingsInv, ReloadTypeOK, IsolationTypeOK
<1>7. isolator \in DaemonConfig /\ reloads["start"].cfg \in DaemonConfig
  BY <1>3, <1>4 DEF SettingsInv, SettingsTyped
<1>8. ReloadTypeOK'
  BY <1>1, <1>2, <1>5, <1>6, <1>7, ReloadConstants DEF SettingsInv, ReloadTypeOK
<1>9. SettingsTyped'
  BY <1>1, <1>2, <1>5, <1>7 DEF SettingsInv, SettingsTyped
<1>10. Locked'
  BY <1>1, <1>2, <1>3, <1>5, IsolationConstants DEF Locked
<1> QED
  BY <1>8, <1>9, <1>10 DEF SettingsInv

\* A step that leaves the isolator alone and sets reloads to well-formed jobs,
\* of which the same ones apply.
LEMMA JobsSettings ==
  ASSUME SettingsInv, UNCHANGED << file, known, launch, life, isovars >>,
         reloads' \in [Workers -> ReloadJob], coherent' \in BOOLEAN,
         runtime' = runtime \/ runtime' \in DaemonConfig,
         rag' = rag \/ rag' \in DaemonConfig,
         \A w \in Workers :
           \/ reloads'[w].pc = "idle" /\ reloads[w].pc # "apply"
           \/ /\ reloads'[w].cfg \in DaemonConfig /\ w # "start" /\ life = "up"
              /\ reloads'[w].pc = "apply" <=> reloads[w].pc = "apply"
              /\ reloads[w].pc = "apply" => reloads'[w].cfg = reloads[w].cfg
           \/ reloads'[w] = reloads[w]
  PROVE  SettingsInv'
<1>1. IsolationTypeOK'
  BY DEF SettingsInv, ReloadTypeOK, IsolationTypeOK, isovars
<1>2. \A w \in Workers : reloads'[w].pc = "apply" <=> reloads[w].pc = "apply"
  OBVIOUS
<1>3. ReloadTypeOK'
  BY <1>1, <1>2, ReloadConstants DEF SettingsInv, ReloadTypeOK, isovars
<1>4. SettingsTyped'
  BY DEF SettingsInv, SettingsTyped, isovars
<1>5. Locked'
  BY <1>2, ReloadConstants DEF SettingsInv, Locked, isovars
<1> QED
  BY <1>3, <1>4, <1>5 DEF SettingsInv

\* A reload that begins keeps SettingsInv.
LEMMA LoadSettings ==
  ASSUME SettingsInv, NEW u \in Workers, u # "start", load(u)
  PROVE  SettingsInv'
<1>1. Reading \in DaemonConfig
  BY ReadingTyped DEF SettingsInv, ReloadTypeOK
<1> DEFINE job == [pc |-> "isolation", cfg |-> Reading, alone |-> Busy = {}]
<1>2. job \in ReloadJob
  BY <1>1 DEF ReloadJob
<1>3. /\ job.pc = "isolation" /\ job.cfg = Reading
  OBVIOUS
<1> HIDE DEF job
<1>4. /\ life = "up" /\ reloads[u].pc = "idle"
      /\ reloads' = [v \in Workers |-> IF v = u THEN job
                                       ELSE [reloads[v] EXCEPT !.alone = FALSE]]
      /\ UNCHANGED << file, known, launch, life, runtime, rag, coherent, isovars >>
  BY DEF load, Reloads, job, Reading
<1>5. reloads \in [Workers -> ReloadJob]
  BY DEF SettingsInv, SettingsTyped
<1>6. \A v \in Workers : LET x == [reloads[v] EXCEPT !.alone = FALSE]
                         IN x \in ReloadJob /\ x.pc = reloads[v].pc /\ x.cfg = reloads[v].cfg
  BY <1>5 DEF ReloadJob
<1>7. reloads' \in [Workers -> ReloadJob]
  BY <1>2, <1>4, <1>6
<1>8. ASSUME NEW w \in Workers
      PROVE  \/ reloads'[w].pc = "idle" /\ reloads[w].pc # "apply"
             \/ /\ reloads'[w].cfg \in DaemonConfig /\ w # "start" /\ life = "up"
                /\ reloads'[w].pc = "apply" <=> reloads[w].pc = "apply"
                /\ reloads[w].pc = "apply" => reloads'[w].cfg = reloads[w].cfg
             \/ reloads'[w] = reloads[w]
  <2>1. CASE w = u
    BY <2>1, <1>1, <1>3, <1>4
  <2>2. CASE w # u
    BY <2>2, <1>4, <1>6 DEF SettingsInv, SettingsTyped, Locked
  <2> QED
    BY <2>1, <2>2
<1> QED
  BY <1>4, <1>7, <1>8, JobsSettings DEF SettingsInv, ReloadTypeOK

\* A reload that goes on keeps its config.
LEMMA GoesTyped ==
  ASSUME SettingsInv, NEW w \in Workers, reloads[w].pc # "idle",
         NEW p \in {"isolation", "apply", "prompt", "runtime"}, Goes(w, p)
  PROVE  /\ reloads' \in [Workers -> ReloadJob]
         /\ reloads'[w].pc = p /\ reloads'[w].cfg = reloads[w].cfg
         /\ reloads'[w].alone = reloads[w].alone
         /\ reloads[w].cfg \in DaemonConfig
         /\ \A v \in Workers : v # w => reloads'[v] = reloads[v]
<1>1. reloads \in [Workers -> ReloadJob] /\ reloads[w].cfg \in DaemonConfig
  BY DEF SettingsInv, SettingsTyped
<1> DEFINE job == [reloads[w] EXCEPT !.pc = p]
<1>2. /\ job \in ReloadJob /\ job.pc = p /\ job.cfg = reloads[w].cfg
      /\ job.alone = reloads[w].alone
  BY <1>1 DEF ReloadJob
<1> HIDE DEF job
<1>3. reloads' = [reloads EXCEPT ![w] = job]
  BY DEF Goes, job
<1> QED
  BY <1>1, <1>2, <1>3

\* A reload that ends leaves the others alone.
LEMMA IdleAgain ==
  ASSUME SettingsInv, NEW w \in Workers, reloads' = [reloads EXCEPT ![w] = Idle]
  PROVE  /\ reloads' \in [Workers -> ReloadJob] /\ reloads'[w].pc = "idle"
         /\ \A v \in Workers : v # w => reloads'[v] = reloads[v]
BY IdleTyped DEF SettingsInv, SettingsTyped

\* A reload takes the isolator's lock and begins to reconfigure.
LEMMA ReloadIsolationSettings ==
  ASSUME SettingsInv, NEW w \in Workers, ReloadIsolation(w)
  PROVE  SettingsInv'
<1>1. /\ reloads[w].pc = "isolation" /\ Goes(w, "apply")
      /\ holder = Nobody /\ holder' = w /\ isolator' = reloads[w].cfg
      /\ step' \in {"flush", "ok", "drop"} /\ kept' \in {kept \cup allowed, {}}
      /\ UNCHANGED << output, allowed, todo, refused, isolation_ok, seen >>
      /\ UNCHANGED << file, known, launch, life, runtime, rag, coherent >>
  BY DEF ReloadIsolation, reconfigure, ApplyNext
<1>2. /\ reloads' \in [Workers -> ReloadJob]
      /\ reloads'[w].pc = "apply" /\ reloads'[w].cfg = reloads[w].cfg
      /\ reloads[w].cfg \in DaemonConfig
      /\ \A v \in Workers : v # w => reloads'[v] = reloads[v]
  BY <1>1, GoesTyped
<1>3. /\ w # "start" /\ life = "up"
      /\ \A v \in Workers : v # w => reloads[v].pc # "apply"
  BY <1>1, IsolationConstants DEF SettingsInv, Locked, ReloadTypeOK
<1>4. IsolationTypeOK'
  BY <1>1, IsolationConstants DEF SettingsInv, ReloadTypeOK, IsolationTypeOK
<1>5. ReloadTypeOK'
  BY <1>1, <1>2, <1>4, IsolationConstants, ReloadConstants DEF SettingsInv, ReloadTypeOK
<1>6. SettingsTyped'
  BY <1>1, <1>2 DEF SettingsInv, SettingsTyped
<1>7. Locked'
  BY <1>1, <1>2, <1>3, ReloadConstants DEF SettingsInv, Locked
<1> QED
  BY <1>5, <1>6, <1>7 DEF SettingsInv

\* A reload gives the isolator's lock back.
LEMMA ReloadAppliedSettings ==
  ASSUME SettingsInv, NEW w \in Workers, ReloadApplied(w)
  PROVE  SettingsInv'
<1>1. /\ w # "start" /\ holder = w /\ holder' = Nobody /\ step' = "idle"
      /\ UNCHANGED << file, known, launch, life, runtime, rag, isolator, output, allowed,
                      todo, kept, refused, isolation_ok, seen >>
  BY DEF ReloadApplied, Returned, Release
<1>2. /\ reloads[w].pc = "apply" /\ life = "up" /\ reloads[w].cfg \in DaemonConfig
      /\ \A v \in Workers : v # w => reloads[v].pc # "apply"
  BY <1>1 DEF SettingsInv, SettingsTyped, Locked, ReloadTypeOK
<1>3. /\ reloads' \in [Workers -> ReloadJob] /\ coherent' \in BOOLEAN
      /\ \/ reloads'[w].pc = "idle"
         \/ reloads'[w].pc = "prompt" /\ reloads'[w].cfg = reloads[w].cfg
      /\ \A v \in Workers : v # w => reloads'[v] = reloads[v]
  <2>1. CASE step = "ok"
    BY <2>1, <1>2, GoesTyped DEF ReloadApplied, SettingsInv, ReloadTypeOK
  <2>2. CASE step # "ok"
    BY <2>2, IdleAgain DEF ReloadApplied, Fails
  <2> QED
    BY <2>1, <2>2
<1>4. IsolationTypeOK'
  BY <1>1 DEF SettingsInv, ReloadTypeOK, IsolationTypeOK
<1>5. ReloadTypeOK'
  BY <1>1, <1>2, <1>3, <1>4, ReloadConstants DEF SettingsInv, ReloadTypeOK
<1>6. SettingsTyped'
  BY <1>1, <1>2, <1>3 DEF SettingsInv, SettingsTyped
<1>7. Locked'
  BY <1>1, <1>2, <1>3, IsolationConstants, ReloadConstants DEF SettingsInv, Locked
<1> QED
  BY <1>5, <1>6, <1>7 DEF SettingsInv

\* A reload that replaces the retrieval settings keeps SettingsInv.
LEMMA ReloadRagSettings ==
  ASSUME SettingsInv, NEW w \in Workers, ReloadRag(w)
  PROVE  SettingsInv'
<1>1. /\ reloads[w].pc = "prompt" /\ UNCHANGED << file, known, launch, life, isovars >>
      /\ runtime' = runtime
  BY DEF ReloadRag
<1>2. w # "start" /\ life = "up" /\ reloads[w].cfg \in DaemonConfig
  BY <1>1 DEF SettingsInv, Locked, SettingsTyped, ReloadTypeOK
<1>3. CASE Goes(w, "runtime") /\ rag' = reloads[w].cfg /\ UNCHANGED coherent
  BY <1>1, <1>2, <1>3, GoesTyped, JobsSettings DEF SettingsInv, ReloadTypeOK
<1>4. CASE Fails(w) /\ UNCHANGED rag
  BY <1>1, <1>4, IdleAgain, JobsSettings DEF Fails
<1> QED
  BY <1>3, <1>4 DEF ReloadRag

\* A reload that replaces the runtime settings keeps SettingsInv.
LEMMA ReplaceRuntimeSettings ==
  ASSUME SettingsInv, NEW w \in Workers, replace_runtime(w)
  PROVE  SettingsInv'
<1>1. /\ reloads[w].pc = "runtime" /\ UNCHANGED << file, known, launch, life, isovars >>
      /\ rag' = rag /\ runtime' = reloads[w].cfg /\ coherent' = reloads[w].alone
      /\ reloads' = [reloads EXCEPT ![w] = Idle]
  BY DEF replace_runtime
<1>2. reloads[w].cfg \in DaemonConfig /\ reloads[w].alone \in BOOLEAN
  BY <1>1 DEF SettingsInv, SettingsTyped, ReloadJob
<1> QED
  BY <1>1, <1>2, IdleAgain, JobsSettings

\* A daemon that ends leaves nobody at work and no lock held.
LEMMA EndsSettings ==
  ASSUME SettingsInv, Ends, output' \in {"ACCEPT", "DROP"},
         allowed' \subseteq Hosts, kept' \subseteq Hosts
  PROVE  SettingsInv'
<1>1. reloads' \in [Workers -> ReloadJob] /\ \A w \in Workers : reloads'[w].pc = "idle"
  BY IdleTyped DEF Ends
<1>2. IsolationTypeOK'
  BY DEF Ends, SettingsInv, ReloadTypeOK, IsolationTypeOK
<1>3. ReloadTypeOK'
  BY <1>1, <1>2 DEF Ends, SettingsInv, ReloadTypeOK
<1>4. SettingsTyped'
  BY <1>1 DEF Ends, SettingsTyped
<1>5. Locked'
  BY <1>1, IsolationConstants DEF Ends, Locked
<1> QED
  BY <1>3, <1>4, <1>5 DEF SettingsInv

\* Every step keeps SettingsInv, action by action.
LEMMA SettingsNext == SettingsInv /\ [ReloadNext]_settings => SettingsInv'
<1> SUFFICES ASSUME SettingsInv, [ReloadNext]_settings PROVE SettingsInv'
  OBVIOUS
<1>1. ASSUME UNCHANGED << reloads, life, runtime, rag, launch, coherent, known,
                          isolator, holder, step, allowed, kept, todo, output, refused >>,
             file' \in Configs \cup {NoFile}, isolation_ok' \in BOOLEAN,
             seen' \in {"nothing", "egress", "silence"}
      PROVE  SettingsInv'
  <2>1. ReloadTypeOK'
    BY <1>1 DEF SettingsInv, ReloadTypeOK, IsolationTypeOK
  <2> QED
    BY <1>1, <2>1 DEF SettingsInv, SettingsTyped, Locked
<1>2. CASE EditFile
  BY <1>1, <1>2 DEF EditFile, isovars, SettingsInv, ReloadTypeOK, IsolationTypeOK
<1>3. CASE sighup \/ reload_config
  BY <1>3, LoadSettings, ReloadConstants DEF sighup, reload_config
<1>4. CASE Start
  BY <1>4, StartSettings
<1>5. CASE ReloadStep
  BY <1>5, StartEndsSettings, ReloadIsolationSettings, ReloadAppliedSettings,
     ReloadRagSettings, ReplaceRuntimeSettings, IsolatorStepSettings DEF ReloadStep
<1>6. CASE Probe
  BY <1>1, <1>6 DEF Probe, run_probe, cfgvars, SettingsInv, ReloadTypeOK, IsolationTypeOK
<1>7. CASE ProbeStored
  BY <1>1, <1>7 DEF ProbeStored, StoreProbe, cfgvars, SettingsInv, ReloadTypeOK,
     IsolationTypeOK
<1>8. CASE ReloadCrash
  BY <1>8, EndsSettings DEF ReloadCrash, SettingsInv, ReloadTypeOK, IsolationTypeOK
<1>9. CASE shutdown
  BY <1>9, EndsSettings DEF shutdown, SettingsInv, ReloadTypeOK, IsolationTypeOK
<1>10. CASE UNCHANGED settings
  BY <1>1, <1>10 DEF settings, isovars, cfgvars, SettingsInv, ReloadTypeOK, IsolationTypeOK
<1> QED
  BY <1>2, <1>3, <1>4, <1>5, <1>6, <1>7, <1>8, <1>9, <1>10 DEF ReloadNext

-----------------------------------------------------------------------------
\* How far the firewall follows the isolator's config, at every command of its
\* holder: rules are only added for entries once the chain drops the rest, and
\* what a flush has not taken away is recorded.
Shut   == output = "DROP" \/ refused
Listed == allowed \subseteq Entries(isolator) \cup kept

Firewall ==
    /\ step \in {"open", "redrop", "drop"} => allowed \subseteq kept
    /\ step = "drop" /\ life = "up" => Shut
    /\ step = "allow" => output = "DROP" /\ Listed /\ todo \subseteq Entries(isolator)
    /\ step \in {"ok", "failed"} /\ isolator.mode # "Disabled" => Shut /\ Listed
    /\ step = "idle" /\ life = "up" /\ isolator.mode # "Disabled" => Shut /\ Listed

\* A step that touches neither chain nor isolator keeps Firewall.
LEMMA FirewallHeld ==
  ASSUME Firewall,
         UNCHANGED << step, life, isolator, output, refused, allowed, kept, todo >>
  PROVE  Firewall'
BY DEF Firewall, Shut, Listed

\* An iptables command of the lock's holder keeps Firewall.
LEMMA FirewallIsolator == SettingsInv /\ Firewall /\ IsolatorStep => Firewall'
<1> SUFFICES ASSUME SettingsInv, Firewall, IsolatorStep PROVE Firewall'
  OBVIOUS
<1>1. CASE remove_rules
  BY <1>1 DEF remove_rules, Firewall, Shut, Listed
<1>2. CASE OpenPolicy
  BY <1>2 DEF OpenPolicy, Firewall, Shut, Listed, ApplyNext
<1>3. CASE apply_air_gap
  BY <1>3 DEF apply_air_gap, Firewall, Shut, Listed, SettingsInv, ReloadTypeOK,
     IsolationTypeOK
<1>4. CASE apply_whitelist
  <2> USE <1>4 DEF apply_whitelist, Firewall, Shut, Listed
  <2>1. CASE \E h \in todo : /\ todo' = todo \ {h} /\ allowed' = allowed \cup {h}
                             /\ UNCHANGED step
    BY <2>1
  <2>2. CASE todo # {} /\ todo' = {} /\ step' = "failed" /\ UNCHANGED allowed
    BY <2>2
  <2>3. CASE todo = {} /\ step' = "ok" /\ UNCHANGED << todo, allowed >>
    BY <2>3
  <2> QED
    BY <2>1, <2>2, <2>3
<1> QED
  BY <1>1, <1>2, <1>3, <1>4 DEF IsolatorStep

\* Every step keeps Firewall.
LEMMA FirewallNext == SettingsInv /\ Firewall /\ [ReloadNext]_settings => Firewall'
<1> SUFFICES ASSUME SettingsInv, Firewall, [ReloadNext]_settings PROVE Firewall'
  OBVIOUS
<1>1. CASE EditFile \/ sighup \/ reload_config
  BY <1>1, FirewallHeld DEF EditFile, sighup, reload_config, load, isovars
<1>2. CASE Start
  <2>1. /\ step' \in {"ok", "drop"} /\ kept' = allowed
        /\ step' = "ok" => isolator'.mode = "Disabled"
        /\ UNCHANGED allowed /\ life' = "starting"
    BY <1>2 DEF Start, StartIsolator, ApplyNext
  <2> QED
    BY <2>1 DEF Firewall, Shut, Listed
<1>3. CASE StartEnds
  BY <1>3 DEF StartEnds, Returned, Release, Firewall, Shut, Listed
<1>4. ASSUME NEW w \in Workers, ReloadIsolation(w) PROVE Firewall'
  <2>1. /\ isolator' = reloads[w].cfg /\ UNCHANGED << allowed, output, refused >>
        /\ step = "idle" /\ life = "up"
        /\ step' = IF Flushes(isolator') THEN "flush" ELSE ApplyNext(isolator')
        /\ kept' = IF isolator'.mode = isolator.mode
                        /\ isolator'.api_port = isolator.api_port
                     THEN kept \cup allowed ELSE {}
    BY <1>4, IsolationConstants DEF ReloadIsolation, reconfigure, SettingsInv, Locked,
       ReloadTypeOK, IsolationTypeOK
  <2> QED
    BY <2>1 DEF Flushes, ApplyNext, Firewall, Shut, Listed
<1>5. ASSUME NEW w \in Workers, ReloadApplied(w) PROVE Firewall'
  BY <1>5 DEF ReloadApplied, Returned, Release, Firewall, Shut, Listed
<1>6. ASSUME NEW w \in Workers, ReloadRag(w) \/ replace_runtime(w) PROVE Firewall'
  BY <1>6, FirewallHeld DEF ReloadRag, replace_runtime, isovars
<1>7. CASE IsolatorStep /\ UNCHANGED cfgvars
  BY <1>7, FirewallIsolator
<1>8. CASE Probe \/ ProbeStored
  BY <1>8, FirewallHeld DEF Probe, ProbeStored, run_probe, StoreProbe, cfgvars
<1>9. CASE ReloadCrash \/ shutdown
  BY <1>9 DEF ReloadCrash, shutdown, Ends, Firewall
<1>10. CASE UNCHANGED settings
  BY <1>10, FirewallHeld DEF settings, isovars, cfgvars
<1> QED
  BY <1>1, <1>2, <1>3, <1>4, <1>5, <1>6, <1>7, <1>8, <1>9, <1>10 DEF ReloadNext, ReloadStep

\* At the start no daemon has isolation in force.
LEMMA FirewallInit == ReloadInit => Firewall
BY DEF ReloadInit, Firewall

-----------------------------------------------------------------------------
\* What the command line said of a config.
Keeps(c, l) ==
    /\ "no_isolation" \in l => c.mode = "Disabled"
    /\ "admin_key" \in l => c.admin_key

\* Every config in use or on its way has what the command line said.
FlagsKept ==
    /\ \A w \in Workers : reloads[w].pc # "idle" => Keeps(reloads[w].cfg, launch)
    /\ life # "off" => Keeps(isolator, launch)
    /\ life = "up" => Keeps(runtime, launch)

\* A reload that nothing disturbed has applied what it is past, and nobody else
\* works with the settings.
Agreement ==
    /\ SettingsAgree
    /\ \A w \in Workers : reloads[w].pc # "idle" /\ reloads[w].alone =>
         /\ \A v \in Workers : v # w => reloads[v].pc = "idle"
         /\ reloads[w].pc \in {"prompt", "runtime"} => isolator = reloads[w].cfg
         /\ reloads[w].pc = "runtime" => rag = reloads[w].cfg

\* A pinned config has the flags of the command line.
LEMMA PinnedKeeps ==
  ASSUME NEW c \in DaemonConfig, NEW l PROVE Keeps(Pinned(c, l), l)
<1>1. /\ Pinned(c, l).mode = IF "no_isolation" \in l THEN "Disabled" ELSE c.mode
      /\ Pinned(c, l).admin_key = (c.admin_key \/ "admin_key" \in l)
  BY DEF DaemonConfig, Pinned
<1> QED
  BY <1>1 DEF Keeps

\* At the start there is no config that could disagree.
LEMMA FlagsInit == ReloadInit => FlagsKept /\ Agreement
BY DEF ReloadInit, FlagsKept, Agreement, SettingsAgree, Idle

\* A step that touches no config keeps FlagsKept.
LEMMA FlagsHeld ==
  ASSUME FlagsKept, UNCHANGED << reloads, launch, life, isolator, runtime >>
  PROVE  FlagsKept'
BY DEF FlagsKept, Keeps

\* What a reload reads has the flags of the command line.
LEMMA ReadingKeeps == file \in Configs \cup {NoFile} => Keeps(Reading, launch)
BY ConfigTypes, PinnedKeeps DEF Reading

\* Every step keeps FlagsKept.
LEMMA FlagsNext == SettingsInv /\ FlagsKept /\ [ReloadNext]_settings => FlagsKept'
<1> SUFFICES ASSUME SettingsInv, FlagsKept, [ReloadNext]_settings PROVE FlagsKept'
  OBVIOUS
<1>1. reloads \in [Workers -> ReloadJob]
  BY DEF SettingsInv, SettingsTyped
<1>2. ASSUME NEW u \in Workers, load(u) PROVE FlagsKept'
  <2>1. Keeps(Reading, launch)
    BY ReadingKeeps DEF SettingsInv, ReloadTypeOK
  <2>2. /\ reloads'[u].cfg = Reading
        /\ \A v \in Workers : v # u => /\ reloads'[v].pc = reloads[v].pc
                                       /\ reloads'[v].cfg = reloads[v].cfg
        /\ UNCHANGED << launch, life, isolator, runtime >>
    BY <1>1, <1>2 DEF load, Reloads, Reading, isovars, ReloadJob
  <2> QED
    BY <2>1, <2>2 DEF FlagsKept
<1>3. CASE Start
  <2>1. PICK l \in Launches :
          LET c == Pinned(Read(file), l)
          IN /\ launch' = l
             /\ reloads' = [reloads EXCEPT !["start"] =
                              [Idle EXCEPT !.pc = "apply", !.cfg = c]]
             /\ StartIsolator("start", c)
    BY <1>3 DEF Start
  <2> DEFINE c == Pinned(Read(file), l)
             job == [Idle EXCEPT !.pc = "apply", !.cfg = c]
  <2>2. Keeps(c, l) /\ job.cfg = c
    BY ConfigTypes, PinnedKeeps DEF SettingsInv, ReloadTypeOK, Idle
  <2> HIDE DEF c, job
  <2>3. /\ reloads' = [reloads EXCEPT !["start"] = job] /\ isolator' = c
        /\ launch' = l /\ life' = "starting"
    BY <2>1, <1>3 DEF c, job, StartIsolator, Start
  <2>4. \A w \in Workers : reloads[w].pc = "idle"
    BY <1>3 DEF Start, SettingsInv, Locked, ReloadTypeOK
  <2> QED
    BY <1>1, <2>2, <2>3, <2>4 DEF FlagsKept
<1>4. CASE StartEnds
  <2>1. /\ "start" \in Workers /\ reloads["start"].pc = "apply"
        /\ Keeps(reloads["start"].cfg, launch) /\ life # "off"
    BY <1>4, ReloadConstants DEF StartEnds, Returned, FlagsKept, SettingsInv, Locked
  <2>2. /\ reloads'["start"].pc = "idle"
        /\ \A v \in Workers : v # "start" => reloads'[v] = reloads[v]
    BY <1>4, <2>1, IdleAgain DEF StartEnds
  <2>3. UNCHANGED << launch, isolator >> /\ (life' = "off" \/ runtime' = reloads["start"].cfg)
    BY <1>4 DEF StartEnds
  <2> QED
    BY <2>1, <2>2, <2>3 DEF FlagsKept
<1>5. ASSUME NEW w \in Workers,
             ReloadIsolation(w) \/ ReloadApplied(w) \/ ReloadRag(w) \/ replace_runtime(w)
      PROVE  FlagsKept'
  <2>1. reloads[w].pc # "idle" /\ w # "start"
    BY <1>5, ReloadConstants DEF ReloadIsolation, ReloadApplied, Returned, ReloadRag,
       replace_runtime, SettingsInv, Locked, ReloadTypeOK
  <2>2. /\ \A v \in Workers : v # w => reloads'[v] = reloads[v]
        /\ reloads'[w].pc = "idle" \/ reloads'[w].cfg = reloads[w].cfg
    <3>1. \/ \E p \in {"apply", "prompt", "runtime"} : Goes(w, p)
          \/ reloads' = [reloads EXCEPT ![w] = Idle]
      BY <1>5 DEF ReloadIsolation, ReloadApplied, ReloadRag, replace_runtime, Fails
    <3> QED
      BY <2>1, <3>1, GoesTyped, IdleAgain
  <2>3. /\ UNCHANGED << launch, life >>
        /\ isolator' \in {isolator, reloads[w].cfg} /\ runtime' \in {runtime, reloads[w].cfg}
    BY <1>5 DEF ReloadIsolation, reconfigure, ReloadApplied, ReloadRag, replace_runtime,
       isovars
  <2> QED
    BY <2>1, <2>2, <2>3 DEF FlagsKept
<1>6. CASE EditFile
  BY <1>6, FlagsHeld DEF EditFile, isovars
<1>7. CASE sighup \/ reload_config
  BY <1>7, <1>2, ReloadConstants DEF sighup, reload_config
<1>8. CASE IsolatorStep /\ UNCHANGED cfgvars
  BY <1>8, FlagsHeld DEF IsolatorStep, remove_rules, OpenPolicy, apply_air_gap,
     apply_whitelist, cfgvars
<1>9. CASE Probe \/ ProbeStored
  BY <1>9, FlagsHeld DEF Probe, ProbeStored, run_probe, StoreProbe, cfgvars
<1>10. CASE ReloadCrash \/ shutdown
  BY <1>10, IdleTyped DEF ReloadCrash, shutdown, Ends, FlagsKept
<1>11. CASE UNCHANGED settings
  BY <1>11, FlagsHeld DEF settings, isovars, cfgvars
<1> QED
  BY <1>3, <1>4, <1>5, <1>6, <1>7, <1>8, <1>9, <1>10, <1>11 DEF ReloadNext, ReloadStep

\* EgressAsConfigured and the last two parts of SettingsInForce, in every state
\* of the invariants.
LEMMA EgressFollows == SettingsInv /\ Firewall => EgressAsConfigured
BY IsolationConstants DEF SettingsInv, ReloadTypeOK, IsolationTypeOK, Firewall, Shut,
   Listed, EgressAsConfigured, Rewriting

\* FlagsKept is what the property says of a running daemon.
LEMMA FlagsFollow == SettingsInv /\ FlagsKept => FlagsOutliveReloads
<1> SUFFICES ASSUME SettingsInv, FlagsKept, life = "up" PROVE FlagsOutliveReloads
  BY DEF FlagsOutliveReloads
<1>1. /\ "no_isolation" \in launch => isolator.mode = "Disabled" /\ runtime.mode = "Disabled"
      /\ "admin_key" \in launch => runtime.admin_key
  BY DEF FlagsKept, Keeps
<1> QED
  BY <1>1 DEF FlagsOutliveReloads, air_gap

\* A step that touches no settings keeps Agreement.
LEMMA AgreementHeld ==
  ASSUME Agreement, UNCHANGED << reloads, life, isolator, runtime, rag, coherent >>
  PROVE  Agreement'
BY DEF Agreement, SettingsAgree, Busy

\* Every step keeps Agreement.
LEMMA AgreementNext == SettingsInv /\ Agreement /\ [ReloadNext]_settings => Agreement'
<1> SUFFICES ASSUME SettingsInv, Agreement, [ReloadNext]_settings PROVE Agreement'
  OBVIOUS
<1>1. reloads \in [Workers -> ReloadJob]
  BY DEF SettingsInv, SettingsTyped
<1>2. ASSUME NEW u \in Workers, load(u) PROVE Agreement'
  <2>1. /\ reloads'[u].pc = "isolation" /\ reloads'[u].alone = (Busy = {})
        /\ \A v \in Workers : v # u => /\ reloads'[v].pc = reloads[v].pc
                                       /\ reloads'[v].alone = FALSE
    BY <1>1, <1>2 DEF load, Reloads, ReloadJob
  <2>2. u \in Busy'
    BY <2>1 DEF Busy
  <2>3. SettingsAgree'
    BY <2>2 DEF SettingsAgree
  <2>4. Busy = {} => \A v \in Workers : reloads[v].pc = "idle"
    BY DEF Busy
  <2> QED
    BY <2>1, <2>3, <2>4 DEF Agreement
<1>3. CASE Start
  <2>1. /\ \A w \in Workers : w # "start" => reloads'[w] = reloads[w] /\ reloads[w].pc = "idle"
        /\ reloads'["start"].pc = "apply" /\ life' = "starting"
    BY <1>1, <1>3, ReloadConstants DEF Start, Idle, SettingsInv, Locked, ReloadTypeOK
  <2> QED
    BY <2>1 DEF Agreement, SettingsAgree
<1>4. CASE StartEnds
  <2>1. "start" \in Workers /\ isolator = reloads["start"].cfg /\ life = "starting"
    BY <1>4, ReloadConstants DEF StartEnds, Returned, SettingsInv, Locked, ReloadTypeOK
  <2>2. \A w \in Workers : reloads'[w].pc = "idle"
    BY <1>4, <2>1, IdleAgain DEF StartEnds, SettingsInv, Locked
  <2>3. /\ isolator' = isolator
        /\ life' = "off" \/ (runtime' = isolator /\ rag' = isolator)
    BY <1>4, <2>1 DEF StartEnds
  <2> QED
    BY <2>2, <2>3 DEF Agreement, SettingsAgree
<1>5. ASSUME NEW w \in Workers,
             ReloadIsolation(w) \/ ReloadApplied(w) \/ ReloadRag(w) \/ replace_runtime(w)
      PROVE  Agreement'
  <2>1. reloads[w].pc # "idle"
    BY <1>5 DEF ReloadIsolation, ReloadApplied, Returned, ReloadRag, replace_runtime,
       SettingsInv, Locked
  <2>2. \A v \in Workers : v # w /\ reloads[v].pc # "idle" => ~reloads[v].alone
    BY <2>1 DEF Agreement
  <2>3. ASSUME reloads' = [reloads EXCEPT ![w] = Idle], coherent' = FALSE
        PROVE  Agreement'
    BY <2>2, <2>3, IdleAgain DEF Agreement, SettingsAgree
  <2>4. ASSUME NEW p \in {"apply", "prompt", "runtime"}, Goes(w, p), UNCHANGED coherent,
               reloads[w].alone /\ p # "apply" => isolator' = reloads[w].cfg,
               reloads[w].alone /\ p = "runtime" => rag' = reloads[w].cfg
        PROVE  Agreement'
    <3>1. /\ reloads'[w].pc = p /\ reloads'[w].cfg = reloads[w].cfg
          /\ reloads'[w].alone = reloads[w].alone
          /\ \A v \in Workers : v # w => reloads'[v] = reloads[v]
      BY <2>1, <2>4, GoesTyped
    <3> QED
      BY <2>1, <2>2, <2>4, <3>1 DEF Agreement, SettingsAgree, Busy
  <2>5. CASE ReloadIsolation(w)
    BY <2>4, <2>5 DEF ReloadIsolation
  <2>6. CASE ReloadApplied(w)
    <3>1. isolator' = isolator /\ isolator = reloads[w].cfg
      BY <2>6 DEF ReloadApplied, Returned, SettingsInv, Locked
    <3> QED
      BY <2>3, <2>4, <2>6, <3>1 DEF ReloadApplied, Fails
  <2>7. CASE ReloadRag(w)
    <3>1. /\ isolator' = isolator
          /\ reloads[w].alone => isolator = reloads[w].cfg
      BY <2>7 DEF ReloadRag, isovars, Agreement
    <3> QED
      BY <2>3, <2>4, <2>7, <3>1 DEF ReloadRag, Fails
  <2>8. CASE replace_runtime(w)
    <3>1. /\ reloads[w].pc = "runtime" /\ runtime' = reloads[w].cfg
          /\ coherent' = reloads[w].alone /\ reloads' = [reloads EXCEPT ![w] = Idle]
          /\ UNCHANGED << isolator, rag >>
      BY <2>8 DEF replace_runtime, isovars
    <3>2. reloads[w].alone => /\ isolator = reloads[w].cfg /\ rag = reloads[w].cfg
      BY <3>1 DEF Agreement
    <3>3. SettingsAgree'
      BY <3>1, <3>2 DEF SettingsAgree
    <3> QED
      BY <2>2, <3>1, <3>3, IdleAgain DEF Agreement
  <2> QED
    BY <1>5, <2>5, <2>6, <2>7, <2>8
<1>6. CASE EditFile
  BY <1>6, AgreementHeld DEF EditFile, isovars
<1>7. CASE sighup \/ reload_config
  BY <1>7, <1>2, ReloadConstants DEF sighup, reload_config
<1>8. CASE IsolatorStep /\ UNCHANGED cfgvars
  BY <1>8, AgreementHeld DEF IsolatorStep, remove_rules, OpenPolicy, apply_air_gap,
     apply_whitelist, cfgvars
<1>9. CASE Probe \/ ProbeStored
  BY <1>9, AgreementHeld DEF Probe, ProbeStored, run_probe, StoreProbe, cfgvars
<1>10. CASE ReloadCrash \/ shutdown
  BY <1>10, IdleTyped DEF ReloadCrash, shutdown, Ends, Agreement, SettingsAgree
<1>11. CASE UNCHANGED settings
  BY <1>11, AgreementHeld DEF settings, isovars, cfgvars
<1> QED
  BY <1>3, <1>4, <1>5, <1>6, <1>7, <1>8, <1>9, <1>10, <1>11 DEF ReloadNext, ReloadStep

-----------------------------------------------------------------------------
(* Documents. *)

\* What a step of the daemon is to the documents.
RagNext == RetrievalRequest \/ RetrievalStep \/ RetrievalStart \/ RetrievalCrash

\* A step of the daemon is one about documents, or leaves them alone.
LEMMA StepOfRag == [ServingNext]_servvars => [RagNext]_ragvars
BY DEF ServingNext, servvars, RagNext, Request, Boot, Step, Probing, Crash, Shutdown,
   RetrievalRequest, LabelledRequest

\* The parts of Job.
LabelJob == [pc : {"label"}, kind : {"text"}, coll : Collections, left : {1},
             admin : BOOLEAN]
FileJob  == [pc : {"embed", "ensure", "insert"}, kind : {"text", "upload"},
             coll : Collections, left : Nat \ {0}]
NextJob  == [pc : {"embed", "ensure", "insert", "summarize"}, kind : {"upload"},
             doc : Docs, coll : Collections, left : Nat \ {0}]
AgainJob == [pc : {"summarize"}, kind : {"resummary"}, doc : Docs, left : {1}]
QueryJob == [pc : {"query", "search"}, kind : {"search", "chat"},
             ws : Workspaces \cup {"none"}, scope : SUBSET Collections,
             todo : SUBSET Collections, hits : SUBSET Chunk]
ChatJob  == [pc : {"prompt"}, kind : {"chat"}, hits : SUBSET Chunk,
             withheld : SUBSET Collections]

\* The kinds of jobs.
LEMMA JobParts ==
  Job = {Free} \cup LabelJob \cup FileJob \cup NextJob \cup AgainJob \cup QueryJob
          \cup ChatJob
BY DEF Job, LabelJob, FileJob, NextJob, AgainJob, QueryJob, ChatJob

\* The kind of a job follows from where it is.
LEMMA JobAt ==
  ASSUME NEW x \in Job
  PROVE  /\ x.pc = "label" => x \in LabelJob
         /\ x.pc \in {"embed", "ensure", "insert"} => x \in FileJob \cup NextJob
         /\ x.pc = "summarize" => x \in NextJob \cup AgainJob
         /\ x.pc \in {"query", "search"} => x \in QueryJob
         /\ x.pc = "prompt" => x \in ChatJob
         /\ x.pc = "free" => x = Free
         /\ x.pc \in {"free", "label", "embed", "ensure", "insert", "summarize", "query",
                      "search", "prompt"}
<1>1. /\ Free.pc = "free"
      /\ \A y \in LabelJob : y.pc = "label"
      /\ \A y \in FileJob : y.pc \in {"embed", "ensure", "insert"}
      /\ \A y \in NextJob : y.pc \in {"embed", "ensure", "insert", "summarize"}
      /\ \A y \in AgainJob : y.pc = "summarize"
      /\ \A y \in QueryJob : y.pc \in {"query", "search"}
      /\ \A y \in ChatJob : y.pc = "prompt"
  BY DEF Free, LabelJob, FileJob, NextJob, AgainJob, QueryJob, ChatJob
<1> QED
  BY <1>1, JobParts

\* An ingestion that goes on is still one into the same collection.
LEMMA FileJobs ==
  ASSUME NEW x \in FileJob \cup NextJob
  PROVE  /\ x.coll \in Collections /\ x.left \in Nat \ {0}
         /\ \A p \in {"embed", "ensure", "insert"} :
              [x EXCEPT !.pc = p] \in Job /\ [x EXCEPT !.pc = p].pc = p
         /\ \A p \in {"embed", "ensure", "insert"} :
              [x EXCEPT !.pc = p].coll = x.coll
         /\ x.kind # "text" => x.kind = "upload"
<1>1. CASE x \in FileJob
  BY <1>1, JobParts DEF FileJob
<1>2. CASE x \in NextJob
  BY <1>2, JobParts DEF NextJob
<1> QED
  BY <1>1, <1>2

\* After a file an ingestion goes on with the next, or is done.
LEMMA NextFileTyped ==
  ASSUME NEW x \in FileJob \cup NextJob \cup AgainJob
  PROVE  NextFile(x) \in Job /\ NextFile(x).pc \in {"free", "embed"}
<1>1. CASE x.left = 1
  BY <1>1, JobParts DEF NextFile, Free
<1>2. CASE x \in FileJob /\ x.left # 1
  <2>1. x.left - 1 \in Nat \ {0}
    BY <1>2 DEF FileJob
  <2>2. [x EXCEPT !.pc = "embed", !.left = x.left - 1] \in FileJob
    BY <1>2, <2>1 DEF FileJob
  <2>3. NextFile(x) = [x EXCEPT !.pc = "embed", !.left = x.left - 1]
    BY <1>2 DEF NextFile
  <2>4. NextFile(x).pc = "embed"
    BY <1>2 DEF NextFile, FileJob
  <2> QED
    BY <2>2, <2>3, <2>4, JobParts
<1>3. CASE x \in NextJob /\ x.left # 1
  <2>1. x.left - 1 \in Nat \ {0}
    BY <1>3 DEF NextJob
  <2>2. [x EXCEPT !.pc = "embed", !.left = x.left - 1] \in NextJob
    BY <1>3, <2>1 DEF NextJob
  <2>3. NextFile(x) = [x EXCEPT !.pc = "embed", !.left = x.left - 1]
    BY <1>3 DEF NextFile
  <2>4. NextFile(x).pc = "embed"
    BY <1>3 DEF NextFile, NextJob
  <2> QED
    BY <2>2, <2>3, <2>4, JobParts
<1> QED
  BY <1>1, <1>2, <1>3 DEF AgainJob

\* The requests that take a job, and the steps of a job.
Asks(j) ==
    \/ ingest_document(j) \/ upload_documents(j) \/ resummary_document(j)
    \/ search(j) \/ chat(j)

Works(j) ==
    \/ LabelCheck(j) \/ Embed(j) \/ Ensure(j) \/ Insert(j) \/ Summarize(j)
    \/ retrieve(j) \/ SearchNext(j) \/ Searched(j) \/ Prompt(j)

\* The steps about documents, by what they do.
LEMMA RagSteps ==
  RagNext => \/ \E j \in Jobs : Takes(j) /\ Asks(j)
             \/ \E j \in Jobs : Works(j)
             \/ delete_document \/ delete_collection \/ RetrievalStart \/ RetrievalCrash
BY DEF RagNext, RetrievalRequest, RetrievalStep, Asks, Works

\* What a job becomes: which steps lead to an insertion, to a summary, to a
\* search and to a prompt.
Outcome(j, x) ==
    /\ Becomes(j, x)
    /\ x.pc = "insert" => Ensure(j) /\ ~Mismatch(jobs[j].coll) /\ x.coll = jobs[j].coll
    /\ x.pc = "summarize" => x.doc \in issued'
    /\ x.pc = "query" => x.hits = {} /\ x.todo = {}
    /\ x.pc = "search" => retrieve(j) \/ SearchNext(j)
    /\ x.pc = "prompt" => Searched(j)

\* A request that begins has a job and changes no row.
LEMMA AsksOutcome ==
  ASSUME RetrievalTypeOK, NEW j \in Jobs, Asks(j)
  PROVE  /\ \E x \in Job : Outcome(j, x)
         /\ UNCHANGED << colls, docs, chunks, issued, embedder >>
<1>1. ASSUME NEW x \in Job, Becomes(j, x), UNCHANGED << colls, docs, chunks, issued, embedder >>,
             x.pc \in {"label", "embed"} \/ (x.pc = "summarize" /\ x.doc \in issued)
               \/ (x.pc = "query" /\ x.hits = {} /\ x.todo = {})
      PROVE  /\ \E y \in Job : Outcome(j, y)
             /\ UNCHANGED << colls, docs, chunks, issued, embedder >>
  BY <1>1 DEF Outcome
<1>2. CASE ingest_document(j)
  <2>1. PICK c \in Collections, by \in Callers :
          /\ Becomes(j, [pc |-> "label", kind |-> "text", coll |-> c, left |-> 1,
                         admin |-> by = "admin"])
          /\ UNCHANGED << colls, docs, chunks, issued, embedder >>
    BY <1>2 DEF ingest_document
  <2> DEFINE x == [pc |-> "label", kind |-> "text", coll |-> c, left |-> 1,
                   admin |-> by = "admin"]
  <2>2. x \in LabelJob /\ x.pc = "label"
    BY DEF LabelJob
  <2> HIDE DEF x
  <2> QED
    BY <1>1, <2>1, <2>2, JobParts DEF x
<1>3. CASE upload_documents(j)
  <2>1. PICK c \in Collections, n \in 1 .. MaxFiles :
          /\ Becomes(j, [pc |-> "embed", kind |-> "upload", coll |-> c, left |-> n])
          /\ UNCHANGED << colls, docs, chunks, issued, embedder >>
    BY <1>3 DEF upload_documents
  <2> DEFINE x == [pc |-> "embed", kind |-> "upload", coll |-> c, left |-> n]
  <2>2. x \in FileJob /\ x.pc = "embed"
    BY RetrievalConstants DEF FileJob
  <2> HIDE DEF x
  <2> QED
    BY <1>1, <2>1, <2>2, JobParts DEF x
<1>4. CASE resummary_document(j)
  <2>1. PICK d \in Present :
          Becomes(j, [pc |-> "summarize", kind |-> "resummary", doc |-> d, left |-> 1])
    BY <1>4 DEF resummary_document
  <2> DEFINE x == [pc |-> "summarize", kind |-> "resummary", doc |-> d, left |-> 1]
  <2>2. x \in AgainJob /\ x.pc = "summarize" /\ x.doc = d /\ d \in issued
    BY DEF AgainJob, RetrievalTypeOK, Present
  <2> HIDE DEF x
  <2> QED
    BY <1>1, <1>4, <2>1, <2>2, JobParts DEF x, resummary_document
<1>5. ASSUME NEW k \in {"search", "chat"}, NEW w \in Workspaces \cup {"none"},
             NEW s \in SUBSET Collections, Query(j, k, w, s)
      PROVE  /\ \E y \in Job : Outcome(j, y)
             /\ UNCHANGED << colls, docs, chunks, issued, embedder >>
  <2> DEFINE x == [pc |-> "query", kind |-> k, ws |-> w, scope |-> s, todo |-> {},
                   hits |-> {}]
  <2>1. x \in QueryJob /\ x.pc = "query" /\ x.hits = {} /\ x.todo = {}
    BY DEF QueryJob
  <2>2. Becomes(j, x) /\ UNCHANGED << colls, docs, chunks, issued, embedder >>
    BY <1>5 DEF Query
  <2> HIDE DEF x
  <2> QED
    BY <1>1, <2>1, <2>2, JobParts
<1>6. CASE search(j)
  <2>1. PICK c \in Collections : Query(j, "search", "none", {c})
    BY <1>6 DEF search
  <2> QED
    BY <1>5, <2>1
<1>7. CASE chat(j)
  <2>1. PICK w \in Workspaces :
          Query(j, "chat", w, {}) \/ \E c \in Collections : Query(j, "chat", w, {c})
    BY <1>7 DEF chat
  <2>2. PICK s \in SUBSET Collections : Query(j, "chat", w, s)
    BY <2>1
  <2> QED
    BY <1>5, <2>2
<1> QED
  BY <1>2, <1>3, <1>4, <1>6, <1>7 DEF Asks

\* A job's step leaves it with a job.
LEMMA WorksOutcome ==
  ASSUME RetrievalTypeOK, NEW j \in Jobs, Works(j)
  PROVE  \E x \in Job : Outcome(j, x)
<1>1. jobs \in [Jobs -> Job] /\ jobs[j] \in Job
  BY DEF RetrievalTypeOK
<1>2. Free \in Job /\ Free.pc = "free"
  BY JobParts DEF Free
<1>3. ASSUME NEW x \in Job, Becomes(j, x), x.pc \in {"free", "embed", "ensure"}
      PROVE  \E y \in Job : Outcome(j, y)
  BY <1>3 DEF Outcome
<1>4. CASE LabelCheck(j)
  <2> DEFINE x == [pc |-> "embed", kind |-> "text", coll |-> jobs[j].coll, left |-> 1]
  <2>1. jobs[j].coll \in Collections
    BY <1>1, <1>4, JobAt DEF LabelCheck, At, LabelJob
  <2>2. x \in FileJob /\ x.pc = "embed"
    BY <2>1 DEF FileJob
  <2>3. Becomes(j, Free) \/ Becomes(j, x)
    BY <1>4 DEF LabelCheck
  <2> HIDE DEF x
  <2> QED
    BY <1>2, <1>3, <2>2, <2>3, JobParts
<1>5. CASE Embed(j)
  <2>1. jobs[j] \in FileJob \cup NextJob
    BY <1>1, <1>5, JobAt DEF Embed, At
  <2> QED
    BY <1>3, <1>5, <2>1, FileJobs, NextFileTyped DEF Embed
<1>6. CASE Ensure(j)
  <2>1. jobs[j] \in FileJob \cup NextJob
    BY <1>1, <1>6, JobAt DEF Ensure, At
  <2>2. CASE Mismatch(jobs[j].coll)
    BY <1>3, <1>6, <2>1, <2>2, NextFileTyped DEF Ensure
  <2>3. CASE ~Mismatch(jobs[j].coll)
    BY <1>6, <2>1, <2>3, FileJobs DEF Ensure, Outcome
  <2> QED
    BY <2>2, <2>3
<1>7. CASE Insert(j)
  <2>1. jobs[j] \in FileJob \cup NextJob
    BY <1>1, <1>7, JobAt DEF Insert, At
  <2>2. CASE Refuses(jobs[j].coll)
    BY <1>3, <1>7, <2>1, <2>2, NextFileTyped DEF Insert
  <2>3. CASE ~Refuses(jobs[j].coll)
    <3>1. PICK d \in Docs \ issued :
            /\ insert_document(d, jobs[j].coll)
            /\ Becomes(j, IF jobs[j].kind = "text" THEN Free
                          ELSE [pc |-> "summarize", kind |-> "upload", doc |-> d,
                                coll |-> jobs[j].coll, left |-> jobs[j].left])
      BY <1>7, <2>3 DEF Insert
    <3> DEFINE x == [pc |-> "summarize", kind |-> "upload", doc |-> d,
                     coll |-> jobs[j].coll, left |-> jobs[j].left]
    <3>2. x \in NextJob /\ x.pc = "summarize" /\ x.doc = d
      BY <2>1, FileJobs DEF NextJob
    <3>3. d \in issued'
      BY <3>1 DEF insert_document
    <3>4. Becomes(j, Free) \/ Becomes(j, x)
      BY <3>1
    <3> HIDE DEF x
    <3>5. CASE Becomes(j, x)
      BY <3>2, <3>3, <3>5, JobParts DEF Outcome
    <3> QED
      BY <1>2, <1>3, <3>4, <3>5
  <2> QED
    BY <2>2, <2>3
<1>8. CASE Summarize(j)
  BY <1>1, <1>3, <1>8, JobAt, NextFileTyped DEF Summarize, At
<1>9. CASE retrieve(j)
  <2> DEFINE t == IF jobs[j].scope = {} THEN {c \in Collections : colls[c] # NoCollection}
                  ELSE jobs[j].scope
             x == [jobs[j] EXCEPT !.pc = "search", !.todo = t]
  <2>1. jobs[j] \in QueryJob
    BY <1>1, <1>9, JobAt DEF retrieve, At
  <2>2. t \in SUBSET Collections
    BY <2>1 DEF QueryJob
  <2> HIDE DEF t
  <2>3. x \in QueryJob /\ x.pc = "search"
    BY <2>1, <2>2 DEF QueryJob
  <2>4. Becomes(j, Free) \/ Becomes(j, x)
    BY <1>9 DEF retrieve, t
  <2> HIDE DEF x
  <2>5. CASE Becomes(j, x)
    BY <1>9, <2>3, <2>5, JobParts DEF Outcome
  <2> QED
    BY <1>2, <1>3, <2>4, <2>5
<1>10. CASE SearchNext(j)
  <2>1. jobs[j] \in QueryJob /\ jobs[j].pc = "search"
    BY <1>1, <1>10, JobAt DEF SearchNext, At
  <2>2. PICK c \in jobs[j].todo : \E found \in SUBSET Searchable(c) :
          Becomes(j, [jobs[j] EXCEPT !.todo = @ \ {c}, !.hits = @ \cup found])
    BY <1>10 DEF SearchNext
  <2>6. PICK found \in SUBSET Searchable(c) :
          Becomes(j, [jobs[j] EXCEPT !.todo = @ \ {c}, !.hits = @ \cup found])
    BY <2>2
  <2> DEFINE x == [jobs[j] EXCEPT !.todo = @ \ {c}, !.hits = @ \cup found]
  <2>3. found \subseteq Chunk
    BY DEF Searchable, RetrievalTypeOK
  <2>4. x \in QueryJob /\ x.pc = "search"
    BY <2>1, <2>3 DEF QueryJob
  <2>5. Becomes(j, x)
    BY <2>6
  <2> HIDE DEF x
  <2> QED
    BY <1>10, <2>4, <2>5, JobParts DEF Outcome
<1>11. CASE Searched(j)
  <2>1. jobs[j] \in QueryJob
    BY <1>1, <1>11, JobAt DEF Searched, At
  <2> DEFINE x == [pc |-> "prompt", kind |-> "chat", hits |-> jobs[j].hits,
                   withheld |-> Withheld(jobs[j].ws)]
  <2>2. x \in ChatJob /\ x.pc = "prompt"
    BY <2>1 DEF ChatJob, QueryJob, Withheld
  <2>3. Becomes(j, Free) \/ Becomes(j, x)
    BY <1>11 DEF Searched
  <2> HIDE DEF x
  <2>4. CASE Becomes(j, x)
    BY <1>11, <2>2, <2>4, JobParts DEF Outcome
  <2> QED
    BY <1>2, <1>3, <2>3, <2>4
<1>12. CASE Prompt(j)
  BY <1>2, <1>3, <1>12 DEF Prompt
<1> QED
  BY <1>4, <1>5, <1>6, <1>7, <1>8, <1>9, <1>10, <1>11, <1>12 DEF Works

\* A collection that a request has ensured is still of this embedding model, or
\* was deleted meanwhile.
Ensured ==
    \A j \in Jobs : jobs[j].pc = "insert" => colls[jobs[j].coll] \in {NoCollection, embedder}

StoreInv == RetrievalTypeOK /\ Ensured /\ StoreConsistent

\* A job that goes on keeps the types and the other jobs.
LEMMA OutcomeTyped ==
  ASSUME RetrievalTypeOK, NEW j \in Jobs, NEW x \in Job, Outcome(j, x), issued \subseteq issued'
  PROVE  /\ jobs' \in [Jobs -> Job] /\ jobs'[j] = x
         /\ \A i \in Jobs : i # j => jobs'[i] = jobs[i]
         /\ \A i \in Jobs : jobs'[i].pc = "summarize" => jobs'[i].doc \in issued'
BY DEF RetrievalTypeOK, Outcome, Becomes

\* Rows that only lose documents, and chunks with them.
LEMMA WithoutDocsStore ==
  ASSUME RetrievalTypeOK, NEW gone \in SUBSET Docs, WithoutDocs(gone)
  PROVE  /\ docs' \in [Docs -> DocRow \cup {NoDoc}] /\ chunks' \subseteq chunks
         /\ Present' = Present \ gone
         /\ \A d \in Docs \ gone : docs'[d] = docs[d]
         /\ \A k \in chunks' : k.doc \notin gone
BY DEF RetrievalTypeOK, WithoutDocs, Present

\* A document that is present was given out and has a collection.
LEMMA PresentRows ==
  ASSUME RetrievalTypeOK, NEW d \in Present
  PROVE  d \in Docs /\ d \in issued /\ docs[d] \in DocRow /\ docs[d].coll \in Collections
BY DEF RetrievalTypeOK, Present, DocRow

\* A collection is made in the daemon's embedding model, or found in it.
LEMMA EnsureStore ==
  ASSUME StoreInv, NEW j \in Jobs, Ensure(j)
  PROVE  StoreInv'
<1>1. PICK x \in Job : Outcome(j, x)
  BY WorksOutcome DEF StoreInv, Works
<1>2. jobs[j].coll \in Collections
  BY JobAt, FileJobs DEF Ensure, At, StoreInv, RetrievalTypeOK
<1>3. /\ UNCHANGED << docs, chunks, issued, embedder >>
      /\ colls' = colls \/ colls' = [colls EXCEPT ![jobs[j].coll] = embedder]
      /\ x.pc = "insert" => colls' = [colls EXCEPT ![jobs[j].coll] = embedder]
      /\ colls' # colls => colls[jobs[j].coll] = NoCollection
  <2>1. CASE Mismatch(jobs[j].coll)
    BY <1>1, <2>1 DEF Ensure, Outcome
  <2>2. CASE ~Mismatch(jobs[j].coll)
    BY <1>2, <2>2 DEF Ensure, Mismatch, ensure_collection, StoreInv, RetrievalTypeOK
  <2> QED
    BY <2>1, <2>2
<1>4. /\ jobs' \in [Jobs -> Job] /\ jobs'[j] = x
      /\ \A i \in Jobs : i # j => jobs'[i] = jobs[i]
      /\ \A i \in Jobs : jobs'[i].pc = "summarize" => jobs'[i].doc \in issued'
  BY <1>1, <1>3, OutcomeTyped DEF StoreInv
<1>5. /\ colls' \in [Collections -> Spaces \cup {NoCollection}]
      /\ \A c \in Collections : colls'[c] = colls[c]
                                  \/ (colls[c] = NoCollection /\ colls'[c] = embedder)
  BY <1>2, <1>3 DEF StoreInv, RetrievalTypeOK
<1>6. RetrievalTypeOK'
  BY <1>3, <1>4, <1>5 DEF StoreInv, RetrievalTypeOK, Present
<1>7. Ensured'
  <2>1. x.pc = "insert" => x.coll = jobs[j].coll /\ colls'[x.coll] = embedder
    BY <1>1, <1>2, <1>3 DEF Outcome, StoreInv, RetrievalTypeOK
  <2>2. \A i \in Jobs : jobs[i].pc = "insert" => jobs[i].coll \in Collections
    BY JobAt, FileJobs DEF StoreInv, RetrievalTypeOK
  <2> QED
    BY <1>3, <1>4, <1>5, <2>1, <2>2 DEF StoreInv, Ensured
<1>8. StoreConsistent'
  <2>1. \A d \in Present' : colls'[docs'[d].coll] # NoCollection
    BY <1>3, <1>5, PresentRows, RetrievalConstants DEF StoreInv, StoreConsistent, Present,
       RetrievalTypeOK
  <2>2. \A k \in chunks : k.coll \in Collections /\ k.space \in Spaces
    BY DEF StoreInv, RetrievalTypeOK, Chunk
  <2>3. \A k \in chunks' : /\ docs'[k.doc] # NoDoc /\ docs'[k.doc].coll = k.coll
                           /\ colls'[k.coll] = k.space
    BY <1>3, <1>5, <2>2, RetrievalConstants DEF StoreInv, StoreConsistent
  <2> QED
    BY <2>1, <2>3 DEF StoreConsistent
<1> QED
  BY <1>6, <1>7, <1>8 DEF StoreInv

\* A document is inserted where its collection is, with vectors of its model.
LEMMA InsertStore ==
  ASSUME StoreInv, NEW j \in Jobs, Insert(j)
  PROVE  StoreInv'
<1>1. PICK x \in Job : Outcome(j, x)
  BY WorksOutcome DEF StoreInv, Works
<1>2. jobs[j].coll \in Collections /\ jobs[j].pc = "insert"
  BY JobAt, FileJobs DEF Insert, At, StoreInv, RetrievalTypeOK
<1>3. x.pc # "insert"
  BY <1>1, <1>2 DEF Outcome, Ensure, At
<1>4. UNCHANGED << colls, embedder >>
  BY DEF Insert
<1>5. ASSUME issued \subseteq issued' PROVE Ensured'
  <2>1. \A i \in Jobs : jobs'[i].pc = "insert" => jobs'[i] = jobs[i]
    BY <1>1, <1>3, <1>5, OutcomeTyped DEF StoreInv
  <2> QED
    BY <1>4, <2>1 DEF StoreInv, Ensured
<1>6. CASE Refuses(jobs[j].coll)
  <2>1. UNCHANGED << docs, chunks, issued >>
    BY <1>6 DEF Insert
  <2>2. RetrievalTypeOK'
    BY <1>1, <1>4, <2>1, OutcomeTyped DEF StoreInv, RetrievalTypeOK, Present
  <2>3. StoreConsistent'
    BY <1>4, <2>1 DEF StoreInv, StoreConsistent, Present
  <2> QED
    BY <1>5, <2>1, <2>2, <2>3 DEF StoreInv
<1>7. CASE ~Refuses(jobs[j].coll)
  <2> DEFINE c == jobs[j].coll
  <2>1. PICK d \in Docs \ issued : insert_document(d, c)
    BY <1>7 DEF Insert
  <2> DEFINE row == [coll |-> c, summary |-> FALSE]
             new == [doc |-> d, coll |-> c, space |-> embedder]
  <2>2. /\ row \in DocRow /\ row.coll = c /\ new \in Chunk
        /\ new.doc = d /\ new.coll = c /\ new.space = embedder
    BY <1>2 DEF DocRow, Chunk, StoreInv, RetrievalTypeOK
  <2> HIDE DEF row, new
  <2>3. /\ docs' = [docs EXCEPT ![d] = row] /\ chunks' = chunks \cup {new}
        /\ issued' = issued \cup {d}
    BY <2>1 DEF insert_document, row, new
  <2>4. colls[c] = embedder /\ embedder # NoCollection
    BY <1>2, <1>7, RetrievalConstants DEF StoreInv, Ensured, Refuses, RetrievalTypeOK
  <2>5. /\ docs' \in [Docs -> DocRow \cup {NoDoc}] /\ docs'[d] = row
        /\ \A e \in Docs : e # d => docs'[e] = docs[e]
    BY <2>2, <2>3 DEF StoreInv, RetrievalTypeOK
  <2>6. Present' = Present \cup {d}
    BY <2>2, <2>5, RetrievalConstants DEF Present
  <2> HIDE DEF c
  <2>7. RetrievalTypeOK'
    BY <1>1, <1>4, <2>2, <2>3, <2>5, <2>6, OutcomeTyped DEF StoreInv, RetrievalTypeOK
  <2>8. \A k \in chunks : k.doc \in Docs /\ k.doc # d
    BY DEF StoreInv, StoreConsistent, RetrievalTypeOK, Present, Chunk
  <2>9. d \notin Present
    BY DEF StoreInv, RetrievalTypeOK
  <2>10. StoreConsistent'
    <3>1. \A e \in Present' : colls'[docs'[e].coll] # NoCollection
      BY <1>4, <2>2, <2>4, <2>5, <2>6, <2>9, PresentRows DEF StoreInv, StoreConsistent
    <3>2. \A k \in chunks' : /\ docs'[k.doc] # NoDoc /\ docs'[k.doc].coll = k.coll
                             /\ colls'[k.coll] = k.space
      BY <1>4, <2>2, <2>3, <2>4, <2>5, <2>8, RetrievalConstants DEF StoreInv, StoreConsistent
    <3> QED
      BY <3>1, <3>2 DEF StoreConsistent
  <2> QED
    BY <1>5, <2>3, <2>7, <2>10 DEF StoreInv
<1> QED
  BY <1>6, <1>7

\* A summary changes its document and brings none back.
LEMMA SummarizeStore ==
  ASSUME StoreInv, NEW j \in Jobs, Summarize(j)
  PROVE  StoreInv' /\ Present' = Present
<1>1. PICK x \in Job : Outcome(j, x)
  BY WorksOutcome DEF StoreInv, Works
<1>2. jobs[j].doc \in Docs /\ jobs[j].pc = "summarize"
  BY DEF Summarize, At, StoreInv, RetrievalTypeOK
<1>3. UNCHANGED << colls, chunks, issued, embedder >>
  BY DEF Summarize
<1>4. /\ docs' \in [Docs -> DocRow \cup {NoDoc}]
      /\ \A d \in Docs : /\ docs'[d] = NoDoc <=> docs[d] = NoDoc
                         /\ docs[d] # NoDoc => docs'[d].coll = docs[d].coll
  <2>1. CASE docs' = docs
    BY <2>1 DEF StoreInv, RetrievalTypeOK
  <2>2. CASE docs' # docs
    <3> DEFINE e == jobs[j].doc
               row == [docs[e] EXCEPT !.summary = TRUE]
    <3>1. docs[e] # NoDoc /\ docs' = [docs EXCEPT ![e] = row]
      BY <2>2 DEF Summarize, set_summary
    <3>2. docs[e] \in DocRow
      BY <1>2, <3>1 DEF StoreInv, RetrievalTypeOK
    <3>3. row \in DocRow /\ row.coll = docs[e].coll
      BY <3>2 DEF DocRow
    <3> HIDE DEF row
    <3> QED
      BY <1>2, <3>1, <3>3, RetrievalConstants DEF StoreInv, RetrievalTypeOK
  <2> QED
    BY <2>1, <2>2
<1>5. Present' = Present
  BY <1>4 DEF Present
<1>6. RetrievalTypeOK'
  BY <1>1, <1>3, <1>4, <1>5, OutcomeTyped DEF StoreInv, RetrievalTypeOK
<1>7. Ensured'
  <2>1. x.pc # "insert"
    BY <1>1, <1>2 DEF Outcome, Ensure, At
  <2> QED
    BY <1>1, <1>3, <2>1, OutcomeTyped DEF StoreInv, Ensured
<1>8. StoreConsistent'
  <2>1. \A d \in Present' : colls'[docs'[d].coll] # NoCollection
    BY <1>3, <1>4, <1>5, PresentRows DEF StoreInv, StoreConsistent, Present
  <2>2. \A k \in chunks : k.doc \in Docs
    BY DEF StoreInv, RetrievalTypeOK, Chunk
  <2> QED
    BY <1>3, <1>4, <2>1, <2>2 DEF StoreInv, StoreConsistent
<1> QED
  BY <1>5, <1>6, <1>7, <1>8 DEF StoreInv

\* Documents go with their chunks, a collection with its documents.
LEMMA DeleteStore ==
  ASSUME StoreInv, NEW gone \in SUBSET Docs, WithoutDocs(gone),
         UNCHANGED << issued, embedder, jobs >>,
         \/ colls' = colls
         \/ \E c \in Collections : /\ colls' = [colls EXCEPT ![c] = NoCollection]
                                   /\ \A d \in Present : docs[d].coll = c => d \in gone
  PROVE  StoreInv'
<1>1. /\ docs' \in [Docs -> DocRow \cup {NoDoc}] /\ chunks' \subseteq chunks
      /\ Present' = Present \ gone
      /\ \A d \in Docs \ gone : docs'[d] = docs[d]
      /\ \A k \in chunks' : k.doc \notin gone
  BY WithoutDocsStore DEF StoreInv
<1>2. colls' \in [Collections -> Spaces \cup {NoCollection}]
  BY DEF StoreInv, RetrievalTypeOK
<1>3. \A d \in Present \ gone : colls'[docs[d].coll] = colls[docs[d].coll]
  BY PresentRows DEF StoreInv, RetrievalTypeOK
<1>4. RetrievalTypeOK'
  BY <1>1, <1>2 DEF StoreInv, RetrievalTypeOK
<1>5. Ensured'
  <2>1. \A j \in Jobs : jobs[j].pc = "insert" => jobs[j].coll \in Collections
    BY JobAt, FileJobs DEF StoreInv, RetrievalTypeOK
  <2> QED
    BY <2>1 DEF StoreInv, Ensured, RetrievalTypeOK
<1>6. \A d \in Present' : colls'[docs'[d].coll] # NoCollection
  BY <1>1, <1>3, PresentRows DEF StoreInv, StoreConsistent
<1>7. \A k \in chunks' : /\ docs'[k.doc] # NoDoc /\ docs'[k.doc].coll = k.coll
                         /\ colls'[k.coll] = k.space
  <2>1. \A k \in chunks : k.doc \in Present
    BY DEF StoreInv, StoreConsistent, RetrievalTypeOK, Chunk, Present
  <2> QED
    BY <1>1, <1>3, <2>1, PresentRows DEF StoreInv, StoreConsistent
<1> QED
  BY <1>4, <1>5, <1>6, <1>7 DEF StoreInv, StoreConsistent

\* A process that does not serve has no requests under way.
Quiet == life # "up" => \A j \in Jobs : jobs[j] = Free

\* No job is one of the kinds.
LEMMA FreeJobs == Free \in Job /\ Free.pc = "free"
BY JobParts DEF Free

\* Every step keeps StoreInv, if the embedding model changes only while nobody works.
LEMMA StoreNext ==
  ASSUME StoreInv, [RagNext]_ragvars,
         embedder' # embedder => \A j \in Jobs : jobs[j] = Free
  PROVE  StoreInv'
<1>1. ASSUME NEW j \in Jobs, NEW x \in Job, Outcome(j, x), ~Ensure(j),
             UNCHANGED << colls, docs, chunks, issued, embedder >>
      PROVE  StoreInv'
  <2>1. x.pc # "insert"
    BY <1>1 DEF Outcome
  <2>2. RetrievalTypeOK'
    BY <1>1, OutcomeTyped DEF StoreInv, RetrievalTypeOK, Present
  <2>3. Ensured'
    BY <1>1, <2>1, OutcomeTyped DEF StoreInv, Ensured
  <2> QED
    BY <1>1, <2>2, <2>3 DEF StoreInv, StoreConsistent, Present
<1>2. ASSUME NEW j \in Jobs, Takes(j), Asks(j) PROVE StoreInv'
  BY <1>1, <1>2, AsksOutcome, FreeJobs DEF StoreInv, Takes, Ensure, At
<1>3. ASSUME NEW j \in Jobs, Works(j) PROVE StoreInv'
  <2>1. PICK x \in Job : Outcome(j, x)
    BY <1>3, WorksOutcome DEF StoreInv
  <2>2. CASE LabelCheck(j) \/ Embed(j) \/ retrieve(j) \/ SearchNext(j) \/ Searched(j)
               \/ Prompt(j)
    <3>1. UNCHANGED << colls, docs, chunks, issued, embedder >> /\ ~Ensure(j)
      BY <2>2 DEF LabelCheck, Embed, retrieve, SearchNext, Searched, Prompt, Ensure, At
    <3> QED
      BY <1>1, <2>1, <3>1
  <2> QED
    BY <1>3, <2>2, EnsureStore, InsertStore, SummarizeStore DEF Works
<1>4. CASE delete_document
  <2>1. PICK d \in Present : WithoutDocs({d})
    BY <1>4 DEF delete_document
  <2> QED
    BY <1>4, <2>1, DeleteStore DEF delete_document, Present
<1>5. CASE delete_collection
  <2>1. PICK c \in Collections : /\ colls' = [colls EXCEPT ![c] = NoCollection]
                                 /\ WithoutDocs({d \in Present : docs[d].coll = c})
    BY <1>5 DEF delete_collection
  <2> DEFINE gone == {d \in Present : docs[d].coll = c}
  <2>2. gone \in SUBSET Docs /\ \A d \in Present : docs[d].coll = c => d \in gone
    BY DEF Present
  <2> QED
    BY <1>5, <2>1, <2>2, DeleteStore DEF delete_collection
<1>6. CASE RetrievalStart /\ embedder' # embedder
  <2>1. \A j \in Jobs : jobs[j].pc = "free"
    BY <1>6, FreeJobs
  <2>2. RetrievalTypeOK'
    BY <1>6 DEF RetrievalStart, StoreInv, RetrievalTypeOK, Present
  <2> QED
    BY <1>6, <2>1, <2>2 DEF RetrievalStart, StoreInv, Ensured, StoreConsistent, Present
<1>7. CASE RetrievalCrash
  <2>1. \A j \in Jobs : jobs'[j] \in Job /\ jobs'[j].pc = "free"
    BY <1>7, FreeJobs DEF RetrievalCrash
  <2>2. RetrievalTypeOK'
    BY <1>7, <2>1 DEF RetrievalCrash, StoreInv, RetrievalTypeOK, Present
  <2> QED
    BY <1>7, <2>1, <2>2 DEF RetrievalCrash, StoreInv, Ensured, StoreConsistent, Present
<1>8. CASE UNCHANGED ragvars
  <2>1. RetrievalTypeOK'
    BY <1>8 DEF ragvars, StoreInv, RetrievalTypeOK, Present
  <2> QED
    BY <1>8, <2>1 DEF ragvars, StoreInv, Ensured, StoreConsistent, Present
<1> QED
  BY <1>2, <1>3, <1>4, <1>5, <1>6, <1>7, <1>8, RagSteps DEF RetrievalStart, ragvars

\* At the start there are no documents.
LEMMA StoreInit == RetrievalInit => StoreInv
<1> SUFFICES ASSUME RetrievalInit PROVE StoreInv
  OBVIOUS
<1>1. embedder \in Spaces
  BY RetrievalConstants DEF RetrievalInit
<1>2. /\ Present = {} /\ chunks = {} /\ issued = {}
      /\ docs \in [Docs -> DocRow \cup {NoDoc}]
      /\ colls \in [Collections -> Spaces \cup {NoCollection}]
      /\ jobs \in [Jobs -> Job] /\ \A j \in Jobs : jobs[j].pc = "free"
  BY FreeJobs DEF RetrievalInit, Present
<1>3. RetrievalTypeOK
  BY <1>1, <1>2 DEF RetrievalTypeOK
<1> QED
  BY <1>2, <1>3 DEF StoreInv, Ensured, StoreConsistent

\* No step brings a document back.
LEMMA NoReturn ==
  ASSUME StoreInv, [RagNext]_ragvars
  PROVE  (Present' \cap (issued \ Present)) = {}
<1>1. ASSUME docs' = docs PROVE Present' = Present
  BY <1>1 DEF Present
<1>2. ASSUME NEW j \in Jobs, Insert(j) PROVE (Present' \cap (issued \ Present)) = {}
  <2>1. CASE docs' = docs
    BY <1>1, <2>1
  <2>2. CASE docs' # docs
    <3>1. PICK d \in Docs \ issued :
            docs' = [docs EXCEPT ![d] = [coll |-> jobs[j].coll, summary |-> FALSE]]
      BY <1>2, <2>2 DEF Insert, insert_document
    <3>2. Present' \subseteq Present \cup {d}
      BY <3>1 DEF Present, StoreInv, RetrievalTypeOK
    <3> QED
      BY <3>2
  <2> QED
    BY <2>1, <2>2
<1>3. ASSUME NEW j \in Jobs, Summarize(j) PROVE Present' = Present
  BY <1>3, SummarizeStore
<1>4. CASE delete_document \/ delete_collection
  <2>1. PICK gone \in SUBSET Docs : WithoutDocs(gone)
    BY <1>4 DEF delete_document, delete_collection, Present
  <2> QED
    BY <2>1, WithoutDocsStore DEF StoreInv
<1>5. ASSUME NEW j \in Jobs, Works(j), ~Insert(j), ~Summarize(j) PROVE docs' = docs
  BY <1>5 DEF Works, LabelCheck, Embed, Ensure, retrieve, SearchNext, Searched, Prompt
<1>6. ASSUME NEW j \in Jobs, Asks(j) PROVE docs' = docs
  BY <1>6, AsksOutcome DEF StoreInv
<1>7. CASE RetrievalStart \/ RetrievalCrash \/ UNCHANGED ragvars
  BY <1>1, <1>7 DEF RetrievalStart, RetrievalCrash, ragvars
<1> QED
  BY <1>1, <1>2, <1>3, <1>4, <1>5, <1>6, <1>7, RagSteps

\* No job outlives its daemon.
LEMMA QuietNext ==
  ASSUME SettingsInv, Quiet, [ServingNext]_servvars
  PROVE  Quiet'
<1>1. ASSUME UNCHANGED jobs, life' = life \/ life # "up" PROVE Quiet'
  BY <1>1 DEF Quiet
<1>2. CASE Request
  BY <1>1, <1>2 DEF Request, Quiet, settings, cfgvars, ragvars, EditFile, sighup,
     reload_config, load
<1>3. CASE Boot
  BY <1>1, <1>3 DEF Boot, Start, RetrievalStart
<1>4. CASE Step
  <2>1. CASE RetrievalStep /\ UNCHANGED settings
    <3>1. PICK j \in Jobs : Works(j)
      BY <2>1 DEF RetrievalStep, Works
    <3>2. jobs[j] # Free
      BY <3>1, FreeJobs DEF Works, LabelCheck, Embed, Ensure, Insert, Summarize, retrieve,
         SearchNext, Searched, Prompt, At
    <3> QED
      BY <2>1, <3>2 DEF Quiet, settings, cfgvars
  <2>2. CASE ReloadStep /\ UNCHANGED ragvars
    <3>1. StartEnds => life # "up"
      BY ReloadConstants DEF StartEnds, Returned, SettingsInv, Locked
    <3>2. life' = life \/ StartEnds
      BY <2>2 DEF ReloadStep, ReloadIsolation, ReloadApplied, ReloadRag, replace_runtime,
         cfgvars
    <3> QED
      BY <1>1, <2>2, <3>1, <3>2 DEF ragvars
  <2>3. CASE UNCHANGED << settings, ragvars >>
    BY <1>1, <2>3 DEF settings, cfgvars, ragvars
  <2> QED
    BY <1>4, <2>1, <2>2, <2>3 DEF Step
<1>5. CASE Probing
  BY <1>1, <1>5 DEF Probing, Probe, ProbeStored, cfgvars, ragvars
<1>6. CASE Crash
  BY <1>6 DEF Crash, RetrievalCrash, Quiet
<1>7. CASE Shutdown
  BY <1>7 DEF Shutdown, Quiet, ragvars
<1>8. CASE UNCHANGED servvars
  BY <1>1, <1>8 DEF servvars, settings, cfgvars, ragvars
<1> QED
  BY <1>2, <1>3, <1>4, <1>5, <1>6, <1>7, <1>8 DEF ServingNext

\* The embedding model changes at a start, when nobody works.
LEMMA EmbedderChanges ==
  ASSUME SettingsInv, Quiet, [ServingNext]_servvars, embedder' # embedder
  PROVE  \A j \in Jobs : jobs[j] = Free
<1>1. CASE Boot
  BY <1>1 DEF Boot, Start, Quiet
<1>2. embedder' = embedder \/ Boot
  <2>1. RetrievalRequest => embedder' = embedder
    BY DEF RetrievalRequest, ingest_document, upload_documents, resummary_document, search,
       chat, Query, delete_document, delete_collection
  <2>2. LabelledRequest => embedder' = embedder
    BY DEF LabelledRequest, ingest_document, chat, Query
  <2>3. RetrievalStep => embedder' = embedder
    BY DEF RetrievalStep, LabelCheck, Embed, Ensure, Insert, Summarize, retrieve,
       SearchNext, Searched, Prompt
  <2> QED
    BY <2>1, <2>2, <2>3 DEF ServingNext, servvars, ragvars, Request, Step, Probing, Crash,
       Shutdown, RetrievalCrash
<1> QED
  BY <1>1, <1>2

-----------------------------------------------------------------------------
(* Labels. *)

\* What a collection may have is an entry or none.
LEMMA EntryTypes ==
  /\ NoEntry \in CollectionPolicy /\ EmptyPolicy \in ClassificationPolicy
  /\ \A l \in Labels, b \in BOOLEAN : [label |-> l, block |-> b \/ l = 0] \in CollectionPolicy
<1>1. 0 \in Labels
  BY ClassificationConstants DEF Labels
<1>2. NoEntry \in CollectionPolicy
  BY <1>1 DEF NoEntry, CollectionPolicy
<1>3. EmptyPolicy \in ClassificationPolicy
  BY <1>1, <1>2 DEF EmptyPolicy, ClassificationPolicy
<1>4. \A l \in Labels, b \in BOOLEAN : [label |-> l, block |-> b \/ l = 0] \in CollectionPolicy
  BY DEF CollectionPolicy
<1> QED
  BY <1>2, <1>3, <1>4

\* q is p but for the entry of n.
ButFor(p, q, n) ==
    /\ \A c \in Collections : c # n => q.collections[c] = p.collections[c]
    /\ \A w \in Workspaces : w # n => q.workspaces[w] = p.workspaces[w]

\* A new entry of a collection leaves the rest of the policy alone.
LEMMA CollectionChanges ==
  ASSUME NEW p \in ClassificationPolicy, NEW c \in Collections, NEW e \in CollectionPolicy
  PROVE  /\ [p EXCEPT !.collections[c] = e] \in ClassificationPolicy
         /\ [p EXCEPT !.collections[c] = e].collections[c] = e
         /\ ButFor(p, [p EXCEPT !.collections[c] = e], c)
BY DEF ClassificationPolicy, ButFor

\* So does a new clearance.
LEMMA ClearanceChanges ==
  ASSUME NEW p \in ClassificationPolicy, NEW w \in Workspaces, NEW l \in Labels
  PROVE  /\ set_clearance(p, w, l) \in ClassificationPolicy
         /\ set_clearance(p, w, l).workspaces[w] = l
         /\ ButFor(p, set_clearance(p, w, l), w)
BY DEF ClassificationPolicy, ButFor, set_clearance

\* Outside of lapse, p has the entries that were acknowledged.
Matches(p) ==
    /\ \A c \in Collections \ lapse : p.collections[c] = told.collections[c]
    /\ \A w \in Workspaces \ lapse : p.workspaces[w] = told.workspaces[w]

\* The policy in force has them, and so has the one on disk as long as it parses.
Acknowledged == Matches(policy) /\ (policyFile # TornPolicy => Matches(policyFile))

LabelInv == ClassificationTypeOK /\ Acknowledged

ClassNext == ClassificationRequest \/ ClassificationStart \/ ClassificationCrash

\* At the start policy, file and what was acknowledged are empty.
LEMMA LabelInit == ClassificationInit => LabelInv
BY EntryTypes DEF ClassificationInit, LabelInv, ClassificationTypeOK, Acknowledged, Matches

\* An entry that is saved is acknowledged, or its save has failed.
LEMMA SaveLabels ==
  ASSUME LabelInv, NEW n \in Collections \cup Workspaces, NEW new \in ClassificationPolicy,
         NEW ack \in ClassificationPolicy, save(n, new),
         ButFor(policy, new, n), ButFor(told, ack, n),
         n \in Collections => new.collections[n] = ack.collections[n],
         n \in Workspaces => new.workspaces[n] = ack.workspaces[n],
         told' = ack \/ Acknowledges(n, ack)
  PROVE  LabelInv'
<1>1. told' \in {told, ack} /\ (n \notin lapse' => told' = ack)
  BY DEF Acknowledges
<1>2. CASE policyFile' = new /\ lapse' = lapse \ {n}
  <2>1. told' = ack
    BY <1>1, <1>2
  <2>2. ASSUME NEW c \in Collections \ lapse' PROVE new.collections[c] = ack.collections[c]
    BY <1>2 DEF LabelInv, Acknowledged, Matches, ButFor
  <2>3. ASSUME NEW w \in Workspaces \ lapse' PROVE new.workspaces[w] = ack.workspaces[w]
    BY <1>2 DEF LabelInv, Acknowledged, Matches, ButFor
  <2> QED
    BY <1>2, <2>1, <2>2, <2>3 DEF save, LabelInv, ClassificationTypeOK, Acknowledged, Matches
<1>3. CASE policyFile' \in {policyFile, TornPolicy} /\ lapse' = lapse \cup {n}
  <2>1. ASSUME NEW c \in Collections \ lapse'
        PROVE  /\ new.collections[c] = told'.collections[c]
               /\ told'.collections[c] = told.collections[c] /\ c \in Collections \ lapse
    BY <1>1, <1>3 DEF LabelInv, Acknowledged, Matches, ButFor
  <2>2. ASSUME NEW w \in Workspaces \ lapse'
        PROVE  /\ new.workspaces[w] = told'.workspaces[w]
               /\ told'.workspaces[w] = told.workspaces[w] /\ w \in Workspaces \ lapse
    BY <1>1, <1>3 DEF LabelInv, Acknowledged, Matches, ButFor
  <2>3. Acknowledged'
    BY <1>3, <2>1, <2>2 DEF save, LabelInv, Acknowledged, Matches
  <2> QED
    BY <1>1, <1>3, <2>3 DEF save, LabelInv, ClassificationTypeOK
<1> QED
  BY <1>2, <1>3 DEF save

\* A change of a collection's entry, whatever is acknowledged.
LEMMA EntrySaved ==
  ASSUME LabelInv, NEW c \in Collections, NEW e \in CollectionPolicy,
         save(c, [policy EXCEPT !.collections[c] = e]),
         \/ told' = [told EXCEPT !.collections[c] = e]
         \/ Acknowledges(c, [told EXCEPT !.collections[c] = e])
  PROVE  LabelInv'
<1>1. policy \in ClassificationPolicy /\ told \in ClassificationPolicy /\ c \notin Workspaces
  BY ClassificationConstants DEF LabelInv, ClassificationTypeOK
<1> DEFINE new == [policy EXCEPT !.collections[c] = e]
           ack == [told EXCEPT !.collections[c] = e]
<1>2. /\ new \in ClassificationPolicy /\ new.collections[c] = e /\ ButFor(policy, new, c)
      /\ ack \in ClassificationPolicy /\ ack.collections[c] = e /\ ButFor(told, ack, c)
  BY <1>1, CollectionChanges
<1>3. save(c, new) /\ (told' = ack \/ Acknowledges(c, ack))
  OBVIOUS
<1> HIDE DEF new, ack
<1> QED
  BY <1>1, <1>2, <1>3, SaveLabels

\* Every step keeps LabelInv.
LEMMA LabelNext == LabelInv /\ [ClassNext]_classvars => LabelInv'
<1> SUFFICES ASSUME LabelInv, [ClassNext]_classvars PROVE LabelInv'
  OBVIOUS
<1>1. policy \in ClassificationPolicy /\ told \in ClassificationPolicy
  BY DEF LabelInv, ClassificationTypeOK
<1>2. CASE set_collection
  <2>1. PICK c \in Collections, l \in Labels, b \in BOOLEAN :
          /\ save(c, set_collection_label(policy, c, l, b))
          /\ Acknowledges(c, set_collection_label(told, c, l, b))
    BY <1>2 DEF set_collection
  <2> QED
    BY <2>1, EntryTypes, EntrySaved DEF set_collection_label
<1>3. CASE remove_collection
  <2>1. PICK c \in Collections :
          save(c, remove_label(policy, c)) /\ Acknowledges(c, remove_label(told, c))
    BY <1>3 DEF remove_collection
  <2> QED
    BY <2>1, EntryTypes, EntrySaved DEF remove_label
<1>4. CASE set_workspace
  <2>1. PICK w \in Workspaces, l \in Labels :
          /\ save(w, set_clearance(policy, w, l))
          /\ Acknowledges(w, set_clearance(told, w, l))
    BY <1>4 DEF set_workspace
  <2>2. w \notin Collections
    BY ClassificationConstants
  <2> QED
    BY <1>1, <2>1, <2>2, ClearanceChanges, SaveLabels
<1>5. CASE dlp_sync
  <2>1. PICK c \in Collections, l \in Labels :
          /\ save(c, set_collection_label(policy, c, l, TRUE))
          /\ told' = set_collection_label(told, c, l, TRUE)
    BY <1>5 DEF dlp_sync
  <2> QED
    BY <2>1, EntryTypes, EntrySaved DEF set_collection_label
<1>6. CASE ClassificationStart
  BY <1>1, <1>6, EntryTypes, ClassificationConstants DEF ClassificationStart, load_policy,
     LabelInv, ClassificationTypeOK, Acknowledged, Matches
<1>7. CASE ClassificationCrash
  BY <1>7 DEF ClassificationCrash, LabelInv, ClassificationTypeOK, Acknowledged, Matches
<1>8. CASE UNCHANGED classvars
  BY <1>8 DEF classvars, LabelInv, ClassificationTypeOK, Acknowledged, Matches
<1> QED
  BY <1>2, <1>3, <1>4, <1>5, <1>6, <1>7, <1>8 DEF ClassNext, ClassificationRequest

\* A step of the daemon is one about labels, or leaves them alone.
LEMMA StepOfLabels == [ServingNext]_servvars => [ClassNext]_classvars
BY DEF ServingNext, servvars, ClassNext, Request, Boot, Step, Probing, Crash, Shutdown

\* A search stays in its scope.
InScope(x) ==
    /\ x.pc = "query" => x.hits = {}
    /\ x.pc = "search" /\ x.scope # {} => /\ x.todo \subseteq x.scope
                                          /\ \A k \in x.hits : k.coll \in x.scope

Scoped == \A j \in Jobs : InScope(jobs[j])

\* A search stays in the scope of its check, and its prompt has nothing withheld.
LEMMA WorksScoped ==
  ASSUME RetrievalTypeOK, LabelInv, NEW j \in Jobs, InScope(jobs[j]),
         NEW x \in Job, Outcome(j, x)
  PROVE  /\ InScope(x)
         /\ x.pc = "prompt" => \A k \in x.hits : k.coll \notin x.withheld
<1>1. jobs'[j] = x /\ jobs[j] \in Job
  BY DEF Outcome, Becomes, RetrievalTypeOK
<1>2. Free.pc = "free"
  BY DEF Free
<1>3. x.pc = "query" => x.hits = {}
  BY DEF Outcome
<1>4. CASE retrieve(j) /\ x.pc = "search"
  <2>1. jobs[j] \in QueryJob /\ jobs[j].pc = "query"
    BY <1>1, <1>4, JobAt DEF retrieve, At
  <2> DEFINE t == IF jobs[j].scope = {} THEN {c \in Collections : colls[c] # NoCollection}
                  ELSE jobs[j].scope
             y == [jobs[j] EXCEPT !.pc = "search", !.todo = t]
  <2>2. y.scope = jobs[j].scope /\ y.hits = jobs[j].hits /\ y.todo = t
    BY <2>1 DEF QueryJob
  <2>3. Becomes(j, y) \/ Becomes(j, Free)
    BY <1>4 DEF retrieve
  <2> HIDE DEF y
  <2>4. x = y
    BY <1>1, <1>2, <1>4, <2>3 DEF Becomes, RetrievalTypeOK
  <2> QED
    BY <1>4, <2>1, <2>2, <2>4 DEF InScope
<1>5. CASE SearchNext(j) /\ x.pc = "search"
  <2>1. jobs[j] \in QueryJob /\ jobs[j].pc = "search"
    BY <1>1, <1>5, JobAt DEF SearchNext, At
  <2>2. PICK c \in jobs[j].todo : \E f \in SUBSET Searchable(c) :
          Becomes(j, [jobs[j] EXCEPT !.todo = @ \ {c}, !.hits = @ \cup f])
    BY <1>5 DEF SearchNext
  <2>3. PICK f \in SUBSET Searchable(c) :
          Becomes(j, [jobs[j] EXCEPT !.todo = @ \ {c}, !.hits = @ \cup f])
    BY <2>2
  <2> DEFINE y == [jobs[j] EXCEPT !.todo = @ \ {c}, !.hits = @ \cup f]
  <2>4. y.scope = jobs[j].scope /\ y.hits = jobs[j].hits \cup f /\ y.todo = jobs[j].todo \ {c}
    BY <2>1 DEF QueryJob
  <2>5. Becomes(j, y)
    BY <2>3
  <2> HIDE DEF y
  <2>6. x = y
    BY <1>1, <2>5 DEF Becomes, RetrievalTypeOK
  <2>7. \A k \in f : k.coll = c
    BY DEF Searchable
  <2> QED
    BY <1>5, <2>1, <2>2, <2>4, <2>6, <2>7 DEF InScope
<1>6. CASE Searched(j) /\ x.pc = "prompt"
  <2>1. jobs[j] \in QueryJob /\ jobs[j].pc = "search"
    BY <1>1, <1>6, JobAt DEF Searched, At
  <2> DEFINE y == [pc |-> "prompt", kind |-> "chat", hits |-> jobs[j].hits,
                   withheld |-> Withheld(jobs[j].ws)]
  <2>2. \/ Violations(jobs[j]) = {} /\ Becomes(j, y)
        \/ Becomes(j, Free)
    BY <1>6 DEF Searched
  <2>3. y.hits = jobs[j].hits /\ y.withheld = Withheld(jobs[j].ws)
    OBVIOUS
  <2> HIDE DEF y
  <2>4. x = y /\ Violations(jobs[j]) = {}
    BY <1>1, <1>2, <1>6, <2>2 DEF Becomes, RetrievalTypeOK
  <2>5. ASSUME NEW k \in jobs[j].hits, k.coll \in Withheld(jobs[j].ws) PROVE FALSE
    <3>1. /\ k.coll \in Collections \ lapse /\ jobs[j].ws \in Workspaces \ lapse
          /\ policy.collections[k.coll] = told.collections[k.coll]
          /\ policy.workspaces[jobs[j].ws] = told.workspaces[jobs[j].ws]
      BY <2>5 DEF Withheld, LabelInv, Acknowledged, Matches
    <3>2. CASE jobs[j].scope = {}
      BY <2>4, <2>5, <3>1, <3>2 DEF Violations, check_all_collections, Exceeds, Withheld
    <3>3. CASE jobs[j].scope # {}
      <4>1. k.coll \in jobs[j].scope
        BY <2>1, <3>3 DEF InScope
      <4>2. check_access(policy, jobs[j].ws, k.coll) = {}
        BY <2>4, <3>3, <4>1 DEF Violations
      <4> QED
        BY <2>5, <3>1, <4>2 DEF check_access, Exceeds, Withheld
    <3> QED
      BY <3>2, <3>3
  <2> QED
    BY <1>6, <2>3, <2>4, <2>5 DEF InScope
<1> QED
  BY <1>3, <1>4, <1>5, <1>6 DEF Outcome, InScope

\* Every step keeps Scoped and LabelsEnforced.
LEMMA ScopedNext ==
  ASSUME StoreInv, LabelInv, Scoped, LabelsEnforced, [ServingNext]_servvars
  PROVE  Scoped' /\ LabelsEnforced'
<1>1. [RagNext]_ragvars
  BY StepOfRag
<1>2. ASSUME NEW j \in Jobs, NEW x \in Job, Outcome(j, x)
      PROVE  Scoped' /\ LabelsEnforced'
  <2>1. /\ jobs'[j] = x /\ \A i \in Jobs : i # j => jobs'[i] = jobs[i]
    BY <1>2 DEF Outcome, Becomes, StoreInv, RetrievalTypeOK
  <2>2. /\ InScope(x)
        /\ x.pc = "prompt" => \A k \in x.hits : k.coll \notin x.withheld
    BY <1>2, WorksScoped DEF StoreInv, Scoped
  <2>3. Scoped'
    BY <2>1, <2>2 DEF Scoped, InScope
  <2> QED
    BY <2>1, <2>2, <2>3 DEF LabelsEnforced
<1>3. ASSUME UNCHANGED jobs PROVE Scoped' /\ LabelsEnforced'
  BY <1>3 DEF Scoped, InScope, LabelsEnforced
<1>4. CASE RetrievalCrash
  BY <1>4, FreeJobs DEF RetrievalCrash, Scoped, InScope, LabelsEnforced
<1>5. CASE UNCHANGED ragvars
  BY <1>3, <1>5 DEF ragvars
<1> QED
  BY <1>1, <1>2, <1>3, <1>4, <1>5, AsksOutcome, WorksOutcome, RagSteps
     DEF delete_document, delete_collection, RetrievalStart, StoreInv

\* At the start nobody searches.
LEMMA ScopedInit == RetrievalInit => Scoped /\ LabelsEnforced
BY FreeJobs DEF RetrievalInit, Scoped, InScope, LabelsEnforced

-----------------------------------------------------------------------------
(* Models in memory. *)

CacheNext == CacheRequest \/ CacheStep \/ CacheCrash

\* A step of the daemon is one of the model cache, or leaves it alone.
LEMMA StepOfCache == [ServingNext]_servvars => [CacheNext]_cachevars
BY DEF ServingNext, servvars, CacheNext, Request, Boot, Step, Probing, Crash, Shutdown

\* The cache keeps to its limit.
Fits == MaxLoaded > 0 => Cardinality(InCache) <= MaxLoaded

\* The entries say when their models were used last, and no two at once.
Dated ==
    \A p \in InCache : /\ used[p] = recent[p]
                       /\ \A q \in InCache : p # q => used[p] # used[q]

CacheInv == CacheTypeOK /\ Fits /\ Dated

\* What a call's type says of its fields.
LEMMA CallTypes ==
  /\ NoCall \in Call /\ NoCall.at = "idle"
  /\ \A p \in Paths : [at |-> "load", path |-> p] \in Call
  /\ \A p \in Paths, n \in Copies : [at |-> "run", path |-> p, copy |-> n] \in Call
  /\ \A x \in Call : /\ x.at = "run" => x.path \in Paths /\ x.copy \in Copies
                     /\ x.at = "load" => x.path \in Paths
BY DEF Call, NoCall

\* A non-empty set of naturals has a least element.
LEMMA LeastNatural ==
  ASSUME NEW T \in SUBSET Nat, T # {}
  PROVE  \E x \in T : \A y \in T : x <= y
<1>1. PICK x \in T : \A y \in T : << y, x >> \notin OpToRel(<, Nat)
  BY NatLessThanWellFounded, WFMin
<1>2. \A y \in T : ~(y < x)
  BY <1>1 DEF OpToRel
<1> QED
  BY <1>2

\* Induction: a set with 0 and every successor has all naturals.
LEMMA AllNaturals ==
  ASSUME NEW T \in SUBSET Nat, 0 \in T, \A n \in T : n + 1 \in T
  PROVE  T = Nat
<1> SUFFICES ASSUME Nat \ T # {} PROVE FALSE
  OBVIOUS
<1>1. PICK x \in Nat \ T : \A y \in Nat \ T : x <= y
  BY LeastNatural
<1>2. x # 0 /\ x - 1 \in Nat /\ ~(x <= x - 1)
  BY <1>1
<1>3. x - 1 \in T
  BY <1>1, <1>2
<1> QED
  BY <1>1, <1>2, <1>3

\* An entry that no other is older than.
LEMMA OldestEntry ==
  ASSUME NEW S, S # {}, NEW f \in [S -> Nat]
  PROVE  \E v \in S : \A q \in S : f[v] <= f[q]
<1> DEFINE T == {f[s] : s \in S}
<1>1. T \in SUBSET Nat /\ T # {}
  OBVIOUS
<1>2. PICK x \in T : \A y \in T : x <= y
  BY <1>1, LeastNatural
<1> QED
  BY <1>2

\* The models in the cache can be counted.
LEMMA CachedPaths ==
  ASSUME CacheTypeOK
  PROVE  InCache \subseteq Paths /\ IsFiniteSet(InCache) /\ Cardinality(InCache) \in Nat
BY CacheConstants, FS_Subset, FS_CardinalityType DEF InCache

\* Room is made when it is needed.
LEMMA Evicts ==
  ASSUME CacheInv, NEW p \in Paths, MaxLoaded > 0
  PROVE  Cardinality((InCache \cup {p}) \ evict_lru(p)) <= MaxLoaded
<1>1. MaxLoaded \in Nat
  BY CacheConstants
<1>2. /\ InCache \subseteq Paths /\ IsFiniteSet(InCache) /\ Cardinality(InCache) \in Nat
      /\ Cardinality(InCache) <= MaxLoaded
  BY CachedPaths DEF CacheInv, Fits
<1> DEFINE S == InCache \cup {p}
<1>3. /\ IsFiniteSet(S) /\ Cardinality(S) \in Nat
      /\ Cardinality(S) = IF p \in InCache THEN Cardinality(InCache) ELSE Cardinality(InCache) + 1
  BY <1>2, FS_AddElement, FS_CardinalityType
<1>4. CASE Overfull(p)
  <2>1. p \notin InCache /\ Cardinality(InCache) = MaxLoaded
    BY <1>1, <1>2, <1>3, <1>4 DEF Overfull
  <2>2. InCache \ {p} # {}
    BY <1>1, <1>2, <2>1, FS_EmptySet
  <2>3. [q \in InCache \ {p} |-> used[q]] \in [InCache \ {p} -> Nat]
    BY <1>2 DEF CacheInv, CacheTypeOK
  <2>4. PICK v \in InCache \ {p} : \A q \in InCache \ {p} : used[v] <= used[q]
    <3> DEFINE f == [q \in InCache \ {p} |-> used[q]]
    <3>1. \E v \in InCache \ {p} : \A q \in InCache \ {p} : f[v] <= f[q]
      <4> HIDE DEF f
      <4> QED
        BY <2>2, <2>3, OldestEntry DEF f
    <3> QED
      BY <3>1
  <2>5. v \in evict_lru(p)
    BY <1>4, <2>4 DEF evict_lru
  <2>6. /\ IsFiniteSet(S \ {v}) /\ Cardinality(S \ {v}) = Cardinality(S) - 1
    BY <1>3, <2>4, FS_RemoveElement
  <2>7. S \ evict_lru(p) \subseteq S \ {v}
    BY <2>5
  <2>8. /\ Cardinality(S \ evict_lru(p)) <= Cardinality(S \ {v})
        /\ Cardinality(S \ evict_lru(p)) \in Nat
    BY <2>6, <2>7, FS_Subset, FS_CardinalityType
  <2> QED
    BY <1>1, <1>3, <2>1, <2>6, <2>8
<1>5. CASE ~Overfull(p)
  <2>1. evict_lru(p) = {} /\ Cardinality(S) <= MaxLoaded
    BY <1>1, <1>3, <1>5 DEF evict_lru, Overfull
  <2> QED
    BY <2>1
<1> QED
  BY <1>4, <1>5

\* A loaded model is inserted and the least recently used one makes room.
LEMMA LoadedCache ==
  ASSUME CacheInv, NEW c \in Calls, Loaded(c)
  PROVE  /\ CacheInv'
         /\ \A p \in InCache \ InCache', q \in InCache \cap InCache' : recent'[p] < recent'[q]
<1> DEFINE p == calls[c].path
<1>1. p \in Paths
  BY CallTypes DEF Loaded, CacheInv, CacheTypeOK
<1>2. PICK n \in Copies :
        /\ copyOf' = [q \in Paths |-> IF q = p THEN n
                                      ELSE IF q \in evict_lru(p) THEN NoCopy ELSE copyOf[q]]
        /\ used' = [q \in Paths |-> IF q = p THEN now + 1
                                    ELSE IF q \in evict_lru(p) THEN 0 ELSE used[q]]
        /\ Uses(p)
        /\ calls' = [calls EXCEPT ![c] = [at |-> "run", path |-> p, copy |-> n]]
  BY DEF Loaded
<1> HIDE DEF p
<1> DEFINE gone == evict_lru(p)
<1>3. gone \subseteq InCache \ {p}
  BY DEF evict_lru
<1>4. n # NoCopy
  BY CacheConstants
<1>5. InCache' = (InCache \cup {p}) \ gone
  BY <1>1, <1>2, <1>3, <1>4 DEF InCache
<1>6. \A v \in gone, q \in InCache \ {p} : used[v] <= used[q]
  BY DEF evict_lru
<1> HIDE DEF gone
<1>7. /\ now' = now + 1 /\ now \in Nat
      /\ \A q \in Paths : used[q] \in 0 .. now /\ recent[q] \in 0 .. now
      /\ recent' = [recent EXCEPT ![p] = now + 1]
  BY <1>2 DEF Uses, CacheInv, CacheTypeOK
<1>8. CacheTypeOK'
  <2>1. copyOf' \in [Paths -> Copies \cup {NoCopy}]
    BY <1>2 DEF CacheInv, CacheTypeOK
  <2>2. calls' \in [Calls -> Call]
    BY <1>1, <1>2, CallTypes DEF CacheInv, CacheTypeOK
  <2>3. used' \in [Paths -> 0 .. now'] /\ recent' \in [Paths -> 0 .. now']
    BY <1>1, <1>2, <1>7 DEF CacheInv, CacheTypeOK
  <2> QED
    BY <1>7, <2>1, <2>2, <2>3 DEF CacheTypeOK
<1>9. Fits'
  BY <1>1, <1>5, Evicts DEF Fits, gone
<1>10. /\ used'[p] = now + 1 /\ recent'[p] = now + 1
       /\ \A q \in Paths : q # p => recent'[q] = recent[q]
       /\ \A q \in InCache' : q # p => used'[q] = used[q] /\ q \in InCache
  BY <1>1, <1>2, <1>5, <1>7 DEF CacheInv, CacheTypeOK, InCache, gone
<1>11. InCache \subseteq Paths /\ InCache' \subseteq Paths
  BY DEF InCache
<1>12. Dated'
  BY <1>7, <1>10, <1>11 DEF CacheInv, Dated
<1>13. ASSUME NEW v \in InCache \ InCache', NEW q \in InCache \cap InCache'
       PROVE  recent'[v] < recent'[q]
  <2>1. v \in gone /\ v # p
    BY <1>3, <1>5
  <2>2. recent'[v] = recent[v] /\ recent[v] \in 0 .. now /\ used[v] = recent[v]
    BY <1>7, <1>10, <1>11, <2>1 DEF CacheInv, Dated
  <2>3. CASE q = p
    BY <1>7, <1>10, <2>2, <2>3
  <2>4. CASE q # p
    <3>1. used[v] <= used[q] /\ used[v] # used[q] /\ used[q] = recent[q]
      BY <1>6, <2>1, <2>4 DEF CacheInv, Dated
    <3> QED
      BY <1>7, <1>10, <1>11, <2>2, <2>4, <3>1
  <2> QED
    BY <2>3, <2>4
<1> QED
  BY <1>8, <1>9, <1>12, <1>13 DEF CacheInv

\* An empty cache fits.
LEMMA CacheInitial ==
  ASSUME copyOf = [p \in Paths |-> NoCopy], used = [p \in Paths |-> 0],
         recent = [p \in Paths |-> 0], now = 0, calls = [c \in Calls |-> NoCall]
  PROVE  CacheInv
<1>1. InCache = {}
  BY DEF InCache
<1>2. CacheTypeOK
  BY CallTypes DEF CacheTypeOK
<1> QED
  BY <1>1, <1>2, FS_EmptySet, CacheConstants DEF CacheInv, Fits, Dated

\* Every step keeps CacheInv, and evicts only what was used least recently.
LEMMA CacheStepInv ==
  ASSUME CacheInv, [CacheNext]_cachevars
  PROVE  /\ CacheInv'
         /\ \A p \in InCache \ InCache', q \in InCache \cap InCache' : recent'[p] < recent'[q]
<1>1. ASSUME copyOf' = copyOf, used' = used, recent' = recent, now' = now,
             calls' \in [Calls -> Call]
      PROVE  InCache' = InCache /\ CacheInv'
  <2>1. InCache' = InCache
    BY <1>1 DEF InCache
  <2>2. CacheTypeOK'
    BY <1>1 DEF CacheInv, CacheTypeOK
  <2> QED
    BY <1>1, <2>1, <2>2 DEF CacheInv, Fits, Dated
<1>2. ASSUME NEW c \in Calls, NEW p \in Paths, get_or_load(c, p)
      PROVE  InCache' = InCache /\ CacheInv'
  <2>1. CASE p \notin InCache
    BY <1>1, <1>2, <2>1, CallTypes DEF get_or_load, CacheInv, CacheTypeOK
  <2>2. CASE p \in InCache
    <3>1. /\ copyOf' = copyOf /\ now' = now + 1
          /\ used' = [used EXCEPT ![p] = now + 1] /\ recent' = [recent EXCEPT ![p] = now + 1]
          /\ calls' = [calls EXCEPT ![c] = [at |-> "run", path |-> p, copy |-> copyOf[p]]]
      BY <1>2, <2>2 DEF get_or_load, Hit, Uses
    <3>2. InCache' = InCache /\ InCache \subseteq Paths
      BY <3>1 DEF InCache
    <3>3. copyOf[p] \in Copies
      BY <2>2 DEF InCache, CacheInv, CacheTypeOK
    <3>4. CacheTypeOK'
      <4>1. calls' \in [Calls -> Call]
        BY <3>1, <3>3, CallTypes DEF CacheInv, CacheTypeOK
      <4>2. /\ now' \in Nat /\ used' \in [Paths -> 0 .. now']
            /\ recent' \in [Paths -> 0 .. now']
        BY <3>1 DEF CacheInv, CacheTypeOK
      <4> QED
        BY <3>1, <4>1, <4>2 DEF CacheInv, CacheTypeOK
    <3>5. \A q \in Paths : used[q] \in 0 .. now /\ now \in Nat
      BY DEF CacheInv, CacheTypeOK
    <3>6. Dated'
      <4>1. /\ used'[p] = now + 1 /\ recent'[p] = now + 1
            /\ \A q \in Paths : q # p => used'[q] = used[q] /\ recent'[q] = recent[q]
        BY <3>1 DEF CacheInv, CacheTypeOK
      <4> QED
        BY <3>2, <3>5, <4>1 DEF CacheInv, Dated
    <3> QED
      BY <3>2, <3>4, <3>6 DEF CacheInv, Fits
  <2> QED
    BY <2>1, <2>2
<1>3. ASSUME NEW c \in Calls, LoadFails(c) \/ CallEnds(c)
      PROVE  InCache' = InCache /\ CacheInv'
  BY <1>1, <1>3, CallTypes DEF LoadFails, CallEnds, CacheInv, CacheTypeOK
<1>4. CASE CacheCrash
  <2>1. InCache' = {}
    BY <1>4 DEF CacheCrash, InCache
  <2>2. CacheTypeOK'
    BY <1>4, CallTypes DEF CacheCrash, CacheTypeOK
  <2> QED
    BY <2>1, <2>2, FS_EmptySet, CacheConstants DEF CacheInv, Fits, Dated
<1>5. CASE UNCHANGED cachevars
  BY <1>1, <1>5 DEF cachevars, CacheInv, CacheTypeOK
<1> QED
  BY <1>2, <1>3, <1>4, <1>5, LoadedCache DEF CacheNext, CacheRequest, CacheStep

\* A set has no more elements than one that is mapped onto it.
LEMMA ImageBound ==
  ASSUME NEW S, IsFiniteSet(S), NEW T, NEW f \in [S -> T], \A t \in T : \E s \in S : f[s] = t
  PROVE  /\ IsFiniteSet(T) /\ Cardinality(T) <= Cardinality(S)
         /\ Cardinality(T) \in Nat
<1>1. f \in Surjection(S, T)
  BY DEF Surjection
<1> QED
  BY <1>1, FS_Surjection, FS_CardinalityType

\* Memory holds the cached copies and those that only calls hold.
LEMMA MemoryFollows == CacheInv => MemoryBounded
<1> SUFFICES ASSUME CacheInv, MaxLoaded > 0
             PROVE  Cardinality(InMemory) <=
                      MaxLoaded + Cardinality({c \in Running : calls[c].copy
                                                                # copyOf[calls[c].path]})
  BY DEF MemoryBounded
<1> DEFINE Own == {c \in Running : calls[c].copy # copyOf[calls[c].path]}
           A   == {copyOf[p] : p \in InCache}
           B   == {calls[c].copy : c \in Own}
<1>1. InMemory \subseteq A \cup B
  <2>1. ASSUME NEW c \in Running, c \notin Own PROVE calls[c].copy \in A
    <3>1. calls[c].copy = copyOf[calls[c].path] /\ calls[c].path \in Paths
            /\ calls[c].copy # NoCopy
      BY <2>1, CallTypes, CacheConstants DEF Running, CacheInv, CacheTypeOK
    <3> QED
      BY <3>1 DEF InCache
  <2> QED
    BY <2>1 DEF InMemory
<1>2. /\ IsFiniteSet(InCache) /\ Cardinality(InCache) \in Nat
      /\ Cardinality(InCache) <= MaxLoaded /\ MaxLoaded \in Nat
  BY CachedPaths, CacheConstants DEF CacheInv, Fits
<1>3. IsFiniteSet(A) /\ Cardinality(A) <= Cardinality(InCache) /\ Cardinality(A) \in Nat
  <2> DEFINE f == [p \in InCache |-> copyOf[p]]
  <2>1. f \in [InCache -> A] /\ \A t \in A : \E p \in InCache : f[p] = t
    OBVIOUS
  <2> HIDE DEF f, A
  <2> QED
    BY <1>2, <2>1, ImageBound
<1>4. IsFiniteSet(Own) /\ Cardinality(Own) \in Nat
  <2>1. IsFiniteSet(Calls)
    BY CacheConstants, FS_Interval DEF Calls
  <2>2. Own \subseteq Calls
    BY DEF Running
  <2> QED
    BY <2>1, <2>2, FS_Subset, FS_CardinalityType
<1>5. IsFiniteSet(B) /\ Cardinality(B) <= Cardinality(Own) /\ Cardinality(B) \in Nat
  <2> DEFINE f == [c \in Own |-> calls[c].copy]
  <2>1. f \in [Own -> B] /\ \A t \in B : \E c \in Own : f[c] = t
    OBVIOUS
  <2> HIDE DEF f, B, Own
  <2> QED
    BY <1>4, <2>1, ImageBound
<1> HIDE DEF A, B, Own
<1>6. /\ IsFiniteSet(A \cup B) /\ Cardinality(A \cup B) \in Nat
      /\ Cardinality(A \cup B) <= Cardinality(A) + Cardinality(B)
  <2>1. /\ IsFiniteSet(A \cup B)
        /\ Cardinality(A \cup B) = Cardinality(A) + Cardinality(B) - Cardinality(A \cap B)
    BY <1>3, <1>5, FS_Union
  <2>2. Cardinality(A \cap B) \in Nat
    BY <1>3, FS_Intersection, FS_CardinalityType
  <2> QED
    BY <1>3, <1>5, <2>1, <2>2, FS_CardinalityType
<1>7. Cardinality(InMemory) \in Nat /\ Cardinality(InMemory) <= Cardinality(A \cup B)
  BY <1>1, <1>6, FS_Subset, FS_CardinalityType
<1> QED
  BY <1>2, <1>3, <1>4, <1>5, <1>6, <1>7 DEF Own

-----------------------------------------------------------------------------
(* The daemon. *)

Counters ==
    /\ traffic \in Traffic
    /\ requests \in 0 .. Budget[traffic] /\ crashes \in 0 .. MaxCrashes

ServingInv ==
    /\ SettingsInv /\ Firewall /\ FlagsKept /\ Agreement
    /\ StoreInv /\ Quiet
    /\ LabelInv /\ Scoped /\ LabelsEnforced
    /\ CacheInv /\ Counters

\* Every step keeps the budgets of requests and crashes.
LEMMA CountersNext == Counters /\ [ServingNext]_servvars => Counters'
<1> SUFFICES ASSUME Counters, [ServingNext]_servvars PROVE Counters'
  OBVIOUS
<1>1. Budget[traffic] \in Nat /\ MaxCrashes \in Nat
  BY ServingConstants DEF Counters
<1>2. /\ traffic' = traffic
      /\ requests' = requests \/ (requests < Budget[traffic] /\ requests' = requests + 1)
      /\ crashes' = crashes \/ (crashes < MaxCrashes /\ crashes' = crashes + 1)
  BY DEF ServingNext, servvars, Request, Counted, Boot, Step, Probing, Crash, Shutdown
<1> QED
  BY <1>1, <1>2 DEF Counters

\* The daemon starts with ServingInv.
LEMMA ServingInitial == ServingInit => ServingInv
<1> SUFFICES ASSUME ServingInit PROVE ServingInv
  OBVIOUS
<1>1. SettingsInv /\ Firewall /\ FlagsKept /\ Agreement
  BY SettingsInit, FirewallInit, FlagsInit DEF ServingInit
<1>2. StoreInv /\ Quiet /\ Scoped /\ LabelsEnforced
  BY StoreInit, ScopedInit DEF ServingInit, Quiet, RetrievalInit
<1>3. LabelInv /\ CacheInv
  BY LabelInit, CacheInitial DEF ServingInit, CacheInit
<1>4. Counters
  BY ServingConstants DEF ServingInit, Counters
<1> QED
  BY <1>1, <1>2, <1>3, <1>4 DEF ServingInv

\* Every step of the daemon keeps ServingInv, part by part.
LEMMA ServingStep == ServingInv /\ [ServingNext]_servvars => ServingInv'
<1> SUFFICES ASSUME ServingInv, [ServingNext]_servvars PROVE ServingInv'
  OBVIOUS
<1>1. (SettingsInv /\ Firewall /\ FlagsKept /\ Agreement)'
  BY StepOfSettings, SettingsNext, FirewallNext, FlagsNext, AgreementNext DEF ServingInv
<1>2. StoreInv' /\ Quiet'
  BY StepOfRag, StoreNext, EmbedderChanges, QuietNext DEF ServingInv
<1>3. LabelInv' /\ Scoped' /\ LabelsEnforced'
  BY StepOfLabels, LabelNext, ScopedNext DEF ServingInv
<1>4. CacheInv' /\ Counters'
  BY StepOfCache, CacheStepInv, CountersNext DEF ServingInv
<1> QED
  BY <1>1, <1>2, <1>3, <1>4 DEF ServingInv

\* ServingInv is an invariant of the daemon.
LEMMA ServingInductive == ServingSpec => []ServingInv
BY ServingInitial, ServingStep, PTL DEF ServingSpec, ServingNext

\* Whatever the configurations, the hosts and the number of reloads, starts and
\* crashes: before and after every iptables command of Isolator::reconfigure a
\* daemon with isolation in force lets IPv4 packets out only to the destinations of
\* the config it took over last, except from a flush to the DROP policy that follows
\* it, after a failed command, and for rules no flush took away.
THEOREM EgressStaysAsConfigured == ServingSpec => []EgressAsConfigured
<1>1. ServingInv => EgressAsConfigured
  BY EgressFollows DEF ServingInv
<1> QED
  BY <1>1, ServingInductive, PTL

\* The three holders of settings agree after every reload that was alone and
\* complete, what the command line said outlives every reload, and every variable
\* of the daemon keeps its type.
THEOREM SettingsStayInForce == ServingSpec => []SettingsInForce
<1>1. ServingInv => ServingTypeOK
  BY DEF ServingInv, SettingsInv, StoreInv, LabelInv, CacheInv, Counters, ServingTypeOK
<1>2. ServingInv => SettingsAgree /\ FlagsOutliveReloads
  BY FlagsFollow DEF ServingInv, Agreement
<1>3. ServingInv => SettingsInForce
  BY <1>1, <1>2 DEF SettingsInForce
<1> QED
  BY <1>3, ServingInductive, PTL

\* For any number of requests in flight, documents, collections and embedding
\* spaces: rows keep their parents and vectors their collection's embedding
\* model, although ensure_collection and insert_document are two steps.
THEOREM StoreStaysConsistent == ServingSpec => []StoreConsistent
<1>1. ServingInv => StoreConsistent
  BY DEF ServingInv, StoreInv
<1> QED
  BY <1>1, ServingInductive, PTL

\* set_summary is an update, so that no summary under way brings a deleted
\* document back, in any interleaving of requests.
THEOREM DeletedDocumentsStayGone == ServingSpec => DeletedStaysGone
<1>1. ServingInv /\ [ServingNext]_servvars
        => [(Present' \cap (issued \ Present)) = {}]_ragvars
  BY StepOfRag, NoReturn DEF ServingInv
<1> QED
  BY <1>1, ServingInductive, PTL DEF ServingSpec, ServingNext, DeletedStaysGone

\* For any labels, workspaces and collections: no prompt holds text that the
\* acknowledged labels kept from its workspace at the end of the search, whatever
\* changed while it ran, but for entries whose own save failed or that a start
\* lost with a policy.json it could not parse.
THEOREM LabelsStayEnforced == ServingSpec => []LabelsEnforced
<1>1. ServingInv => LabelsEnforced
  BY DEF ServingInv
<1> QED
  BY <1>1, ServingInductive, PTL

\* For any number of models and threads and any limit: the copies in memory
\* exceed max_loaded_models only by those that calls alone hold.
THEOREM MemoryStaysBounded == ServingSpec => []MemoryBounded
<1>1. ServingInv => MemoryBounded
  BY MemoryFollows DEF ServingInv
<1> QED
  BY <1>1, ServingInductive, PTL

\* evict_lru takes the model whose last use is the oldest, however the lookups
\* and insertions of concurrent calls interleave with the loading.
THEOREM RecentModelsKept == ServingSpec => RecentKept
<1>1. ServingInv /\ [ServingNext]_servvars
        => [\A p \in InCache \ InCache', q \in InCache \cap InCache' :
              recent'[p] < recent'[q]]_cachevars
  BY StepOfCache, CacheStepInv DEF ServingInv
<1> QED
  BY <1>1, ServingInductive, PTL DEF ServingSpec, ServingNext, RecentKept

-----------------------------------------------------------------------------
(* Chunking. *)

\* The last break that find_break looks for exists.
LEMMA LastIn ==
  ASSUME NEW a \in Nat, NEW b \in Nat, NEW S \in SUBSET (a .. b - 1), S # {}
  PROVE  Last(S) \in S
<1> DEFINE T == {b - i : i \in S}
<1>1. T \in SUBSET Nat /\ T # {}
  <2>1. \A i \in S : b - i \in Nat
    OBVIOUS
  <2> QED
    BY <2>1
<1>2. PICK x \in T : \A y \in T : x <= y
  BY <1>1, LeastNatural
<1>3. PICK i \in S : x = b - i
  BY <1>2
<1>4. \A k \in S : b - i <= b - k
  BY <1>2, <1>3
<1>5. \A k \in S : k <= i
  BY <1>4
<1>6. \E j \in S : \A k \in S : k <= j
  BY <1>5
<1> QED
  BY <1>6, Zenon DEF Last

\* Where find_break stops: behind the start and not behind the hard end.
LEMMA BreakWithin ==
  ASSUME NEW start \in Nat, NEW hard_end \in Nat, start < hard_end
  PROVE  /\ find_break(start, hard_end) \in Nat
         /\ start < find_break(start, hard_end) /\ find_break(start, hard_end) <= hard_end
<1> DEFINE a == start + ((hard_end - start) * 6) \div 10
           window == a .. hard_end - 1
<1>1. a \in Nat /\ a >= start
  <2>1. \A n \in Nat : (n * 6) \div 10 \in Nat
    OBVIOUS
  <2>2. hard_end - start \in Nat
    OBVIOUS
  <2> QED
    BY <2>1, <2>2
<1> HIDE DEF a
<1>2. ASSUME NEW S \in SUBSET window, S # {}
      PROVE  Last(S) + 1 \in Nat /\ start < Last(S) + 1 /\ Last(S) + 1 <= hard_end
  <2>1. Last(S) \in window
    BY <1>1, <1>2, LastIn
  <2> QED
    BY <1>1, <2>1
<1>3. /\ Paragraphs(start, window) \in SUBSET window /\ Sentences(window) \in SUBSET window
      /\ Blanks(window) \in SUBSET window
  BY DEF Paragraphs, Sentences, Blanks
<1>4. find_break(start, hard_end) =
        IF Paragraphs(start, window) # {} THEN Last(Paragraphs(start, window)) + 1
        ELSE IF Sentences(window) # {} THEN Last(Sentences(window)) + 1
        ELSE IF Blanks(window) # {} THEN Last(Blanks(window)) + 1
        ELSE hard_end
  BY DEF find_break, a
<1> HIDE DEF window
<1> QED
  BY <1>2, <1>3, <1>4

\* A piece is not empty, fits the size and ends within the text; the next one starts
\* behind the start of this one and leaves no gap, whatever the overlap.
LEMMA PieceFits ==
  ASSUME NEW start \in Nat, Len(input) \in Nat, start < Len(input), size \in Nat, overlap \in Nat
  PROVE  /\ EffectiveSize \in Nat
         /\ PieceEnd(start) \in Nat /\ start < PieceEnd(start)
         /\ PieceEnd(start) <= Len(input) /\ PieceEnd(start) - start <= EffectiveSize
         /\ NextStart(start, PieceEnd(start)) \in Nat
         /\ start < NextStart(start, PieceEnd(start))
         /\ NextStart(start, PieceEnd(start)) <= PieceEnd(start)
<1>1. EffectiveSize \in Nat /\ EffectiveSize >= 1
  BY DEF EffectiveSize, Larger
<1>2. EffectiveOverlap \in Nat
  BY <1>1 DEF EffectiveOverlap, Smaller
<1> DEFINE hard_end == Smaller(start + EffectiveSize, Len(input))
           end == PieceEnd(start)
<1>3. /\ hard_end \in Nat /\ start < hard_end /\ hard_end <= Len(input)
      /\ hard_end - start <= EffectiveSize
  BY <1>1 DEF Smaller
<1>4. end = IF hard_end = Len(input) THEN hard_end ELSE find_break(start, hard_end)
  BY DEF PieceEnd
<1> HIDE DEF hard_end, end
<1>5. end \in Nat /\ start < end /\ end <= hard_end
  BY <1>3, <1>4, BreakWithin
<1>6. end <= Len(input) /\ end - start <= EffectiveSize
  BY <1>1, <1>3, <1>5
<1>7. /\ NextStart(start, end) \in Nat /\ start < NextStart(start, end)
      /\ NextStart(start, end) <= end
  BY <1>2, <1>5 DEF NextStart, Larger
<1> QED
  BY <1>1, <1>5, <1>6, <1>7 DEF end

\* The character at i is white space, or in a chunk of o.
InChunk(o, i) ==
    IsWhitespace(Elem(i)) \/ \E k \in 1 .. Len(o) : o[k][1] <= i /\ i < o[k][2]

\* The loop of chunk_text: chunks are pieces of the text that fit, and what the window
\* has left behind is in one of them.
TextInv ==
    /\ pc \in {"cut", "done"} /\ depth = 0 /\ units = << >>
    /\ input \in Seq(Chars) /\ size \in Nat /\ overlap \in Nat /\ pos \in 0 .. Len(input)
    /\ out \in Seq(Nat \X Nat)
    /\ \A k \in 1 .. Len(out) : /\ out[k][1] < out[k][2] /\ out[k][2] <= Len(input)
                                /\ out[k][2] - out[k][1] <= EffectiveSize
    /\ \A i \in 0 .. Len(input) - 1 : i < pos \/ pc = "done" => InChunk(out, i)

\* An iteration of the loop.
LEMMA TextNext == lang = "prose" /\ TextInv /\ [ChunkingNext]_chunkvars => TextInv'
<1> SUFFICES ASSUME lang = "prose", TextInv, [ChunkingNext]_chunkvars PROVE TextInv'
  OBVIOUS
<1>1. CASE ChunkNext
  <2> DEFINE end == PieceEnd(pos)
             next == NextStart(pos, end)
             piece == << pos, end >>
  <2>1. /\ pos \in Nat /\ Len(input) \in Nat /\ pos < Len(input) /\ size \in Nat
        /\ overlap \in Nat
    BY <1>1 DEF ChunkNext, TextInv
  <2>2. /\ EffectiveSize \in Nat /\ end \in Nat /\ pos < end /\ end <= Len(input)
        /\ end - pos <= EffectiveSize /\ next \in Nat /\ pos < next /\ next <= end
    BY <2>1, PieceFits
  <2>3. /\ out' = IF Blank(pos, end) THEN out ELSE Append(out, piece)
        /\ pc' = IF end >= Len(input) THEN "done" ELSE "cut"
        /\ pos' = next
        /\ UNCHANGED << lang, input, size, overlap, cur, depth, units, buf >>
    BY <1>1 DEF ChunkNext
  <2> HIDE DEF end, next
  <2>4. EffectiveSize' = EffectiveSize /\ \A i : Elem(i)' = Elem(i)
    BY <2>3 DEF EffectiveSize, Larger, Elem
  <2>5. /\ piece \in Nat \X Nat /\ piece[1] = pos /\ piece[2] = end
    BY <2>1, <2>2
  <2> HIDE DEF piece
  <2>6. /\ out' \in Seq(Nat \X Nat) /\ Len(out') \in Nat /\ Len(out') >= Len(out)
        /\ \A k \in 1 .. Len(out) : out'[k] = out[k]
        /\ \A k \in 1 .. Len(out') : k \in 1 .. Len(out) \/ out'[k] = piece
        /\ Blank(pos, end) \/ (out'[Len(out')] = piece /\ Len(out') \in 1 .. Len(out'))
    <3>1. CASE Blank(pos, end)
      BY <2>3, <3>1 DEF TextInv
    <3>2. CASE ~Blank(pos, end)
      BY <2>3, <2>5, <3>2 DEF TextInv
    <3> QED
      BY <3>1, <3>2
  <2>7. \A k \in 1 .. Len(out') : /\ out'[k][1] < out'[k][2] /\ out'[k][2] <= Len(input)
                                  /\ out'[k][2] - out'[k][1] <= EffectiveSize
    BY <2>2, <2>5, <2>6 DEF TextInv
  <2>8. ASSUME NEW i \in 0 .. Len(input) - 1, i < next \/ pc' = "done" PROVE InChunk(out, i)'
    <3>1. i < end
      BY <2>1, <2>2, <2>3, <2>8
    <3>2. CASE i < pos
      <4>1. InChunk(out, i)
        BY <3>2, <2>8 DEF TextInv
      <4>2. 1 .. Len(out) \subseteq 1 .. Len(out')
        BY <2>6 DEF TextInv
      <4> QED
        BY <4>1, <4>2, <2>6, <2>4 DEF InChunk
    <3>3. CASE pos <= i /\ Blank(pos, end)
      <4>1. i \in pos .. end - 1
        BY <2>1, <2>2, <2>8, <3>1, <3>3
      <4> QED
        BY <4>1, <3>3, <2>4 DEF Blank, InChunk
    <3>4. CASE pos <= i /\ ~Blank(pos, end)
      BY <3>1, <3>4, <2>5, <2>6 DEF InChunk
    <3> QED
      BY <2>1, <2>8, <3>2, <3>3, <3>4
  <2> QED
    BY <2>1, <2>2, <2>3, <2>4, <2>6, <2>7, <2>8 DEF TextInv
<1>2. CASE ChunkNothing
  <2>1. /\ pc' = "done"
        /\ UNCHANGED << lang, input, size, overlap, pos, cur, depth, units, buf, out >>
    BY <1>2 DEF ChunkNothing
  <2>2. EffectiveSize' = EffectiveSize /\ \A i : InChunk(out, i)' = InChunk(out, i)
    BY <2>1 DEF EffectiveSize, Larger, InChunk, Elem
  <2>3. pos >= Len(input) /\ pos \in 0 .. Len(input) /\ Len(input) \in Nat
    BY <1>2 DEF ChunkNothing, TextInv
  <2>4. \A i \in 0 .. Len(input) - 1 : i < pos
    BY <2>3
  <2>5. \A i \in 0 .. Len(input) - 1 : InChunk(out, i)
    BY <2>4 DEF TextInv
  <2> QED
    BY <2>1, <2>2, <2>5 DEF TextInv
<1>3. CASE UNCHANGED chunkvars
  BY <1>3 DEF chunkvars, TextInv, InChunk, Elem, EffectiveSize, Larger
<1>4. ~brace_units /\ ~python_units /\ ~LastUnit /\ ~PackUnit /\ ~PackRest
  BY DEF TextInv, brace_units, python_units, LastUnit, PackUnit, PackRest
<1> QED
  BY <1>1, <1>2, <1>3, <1>4 DEF ChunkingNext

\* Length over the lines of a given source file t.
LengthIn(t, ls) ==
    LET upTo[k \in 0 .. Len(ls)] == IF k = 0 THEN 0 ELSE upTo[k - 1] + t[ls[k]].len
    IN upTo[Len(ls)]

\* f counts the characters of the first k lines of ls, for every k up to n.
Counts(t, f, ls, n) ==
    f = [k \in 0 .. n |-> IF k = 0 THEN 0 ELSE f[k - 1] + t[ls[k]].len]

\* The recursion of Length has a solution, by induction on the number of lines.
LEMMA CountsExist ==
  ASSUME NEW t, NEW ls
  PROVE  \A n \in Nat : \E f : Counts(t, f, ls, n)
<1> DEFINE T == {n \in Nat : \E f : Counts(t, f, ls, n)}
<1>1. 0 \in T
  <2>1. Counts(t, [k \in 0 .. 0 |-> 0], ls, 0)
    BY DEF Counts
  <2> QED
    BY <2>1
<1>2. ASSUME NEW n \in T PROVE n + 1 \in T
  <2>1. PICK f : Counts(t, f, ls, n)
    OBVIOUS
  <2> DEFINE g == [k \in 0 .. n + 1 |-> IF k = 0 THEN 0 ELSE f[k - 1] + t[ls[k]].len]
  <2>2. n \in Nat /\ \A k \in 0 .. n : g[k] = f[k]
    BY <2>1 DEF Counts
  <2>3. g = [k \in 0 .. n + 1 |-> IF k = 0 THEN 0 ELSE f[k - 1] + t[ls[k]].len]
    OBVIOUS
  <2> HIDE DEF g, T
  <2>4. \A k \in 0 .. n + 1 : k # 0 => g[k - 1] = f[k - 1]
    <3> SUFFICES ASSUME NEW k \in 0 .. n + 1, k # 0 PROVE g[k - 1] = f[k - 1]
      OBVIOUS
    <3>1. k - 1 \in 0 .. n
      BY <2>2
    <3> QED
      BY <2>2, <3>1
  <2>5. Counts(t, g, ls, n + 1)
    BY <2>4, <2>3 DEF Counts
  <2> QED
    BY <2>2, <2>5 DEF T
<1> HIDE DEF T
<1>3. T = Nat
  BY <1>1, <1>2, AllNaturals DEF T
<1> QED
  BY <1>3 DEF T

\* Length is what such a count comes to.
LEMMA LengthCounts ==
  ASSUME NEW t, NEW ls, Len(ls) \in Nat
  PROVE  \E f : Counts(t, f, ls, Len(ls)) /\ LengthIn(t, ls) = f[Len(ls)]
<1>1. \E f : Counts(t, f, ls, Len(ls))
  BY CountsExist
<1> DEFINE F == CHOOSE f : Counts(t, f, ls, Len(ls))
<1>2. Counts(t, F, ls, Len(ls))
  BY <1>1
<1>3. LengthIn(t, ls) = F[Len(ls)]
  BY DEF LengthIn, Counts
<1> QED
  BY <1>2, <1>3

\* The steps of a count.
LEMMA CountSteps ==
  ASSUME NEW t, NEW f, NEW ls, NEW n \in Nat, Counts(t, f, ls, n)
  PROVE  f[0] = 0 /\ \A k \in 0 .. n - 1 : f[k + 1] = f[k] + t[ls[k + 1]].len
<1>1. f[0] = 0
  <2>1. 0 \in 0 .. n
    OBVIOUS
  <2> QED
    BY <2>1 DEF Counts
<1>2. ASSUME NEW k \in 0 .. n - 1 PROVE f[k + 1] = f[k] + t[ls[k + 1]].len
  <2>1. k + 1 \in 0 .. n /\ k + 1 # 0 /\ k + 1 - 1 = k
    OBVIOUS
  <2> QED
    BY <2>1 DEF Counts
<1> QED
  BY <1>1, <1>2

\* Lines of t with their lengths.
Lined(t) == DOMAIN t = 1 .. Len(t) /\ Len(t) \in Nat /\ \A n \in 1 .. Len(t) : t[n].len \in Nat

\* Two counts of the same lines agree, and are natural numbers, by induction.
LEMMA CountTyped ==
  ASSUME NEW t, Lined(t), NEW ls \in Seq(1 .. Len(t)), NEW f, Counts(t, f, ls, Len(ls))
  PROVE  \A k \in 0 .. Len(ls) : f[k] \in Nat
<1> DEFINE T == {k \in Nat : k <= Len(ls) => f[k] \in Nat}
<1>1. Len(ls) \in Nat
  OBVIOUS
<1>2. f[0] = 0 /\ \A k \in 0 .. Len(ls) - 1 : f[k + 1] = f[k] + t[ls[k + 1]].len
  BY <1>1, CountSteps
<1>3. 0 \in T
  BY <1>2
<1>4. ASSUME NEW k \in T PROVE k + 1 \in T
  <2>1. k \in Nat /\ (k <= Len(ls) => f[k] \in Nat)
    OBVIOUS
  <2>2. (k + 1 <= Len(ls) => f[k + 1] \in Nat) => k + 1 \in T
    BY <2>1
  <2> HIDE DEF T
  <2>3. ASSUME k + 1 <= Len(ls) PROVE f[k + 1] \in Nat
    <3>1. k \in 0 .. Len(ls) - 1 /\ f[k] \in Nat /\ k + 1 \in 1 .. Len(ls)
      BY <1>1, <2>1, <2>3
    <3>2. ls[k + 1] \in 1 .. Len(t)
      BY <3>1
    <3>3. t[ls[k + 1]].len \in Nat
      BY <3>2 DEF Lined
    <3>4. f[k + 1] = f[k] + t[ls[k + 1]].len
      BY <1>2, <3>1
    <3> QED
      BY <3>1, <3>3, <3>4
  <2> QED
    BY <2>2, <2>3
<1> HIDE DEF T
<1>5. T = Nat
  BY <1>3, <1>4, AllNaturals DEF T
<1> QED
  BY <1>1, <1>5 DEF T

\* A number of characters is a natural number.
LEMMA LengthTyped ==
  ASSUME NEW t, Lined(t), NEW ls \in Seq(1 .. Len(t))
  PROVE  LengthIn(t, ls) \in Nat
<1>1. PICK f : Counts(t, f, ls, Len(ls)) /\ LengthIn(t, ls) = f[Len(ls)]
  BY LengthCounts
<1> QED
  BY <1>1, CountTyped

\* No lines have no characters.
LEMMA LengthEmpty == \A t : LengthIn(t, << >>) = 0
<1> TAKE t
<1>1. PICK f : Counts(t, f, << >>, 0) /\ LengthIn(t, << >>) = f[0]
  BY LengthCounts
<1> QED
  BY <1>1, CountSteps

\* The characters of two runs of lines put together are those of the one and of the
\* other: what chunk_code adds up before it packs.
LEMMA LengthJoins ==
  ASSUME NEW t, Lined(t), NEW a \in Seq(1 .. Len(t)), NEW b \in Seq(1 .. Len(t))
  PROVE  LengthIn(t, a \o b) = LengthIn(t, a) + LengthIn(t, b)
<1> DEFINE ab == a \o b
<1>1. /\ Len(a) \in Nat /\ Len(b) \in Nat /\ Len(ab) \in Nat
      /\ Len(ab) = Len(a) + Len(b)
  OBVIOUS
<1>2. /\ \A k \in 1 .. Len(a) : ab[k] = a[k]
      /\ \A k \in 1 .. Len(b) : ab[Len(a) + k] = b[k]
  OBVIOUS
<1> HIDE DEF ab
<1>3. PICK f : Counts(t, f, a, Len(a)) /\ LengthIn(t, a) = f[Len(a)]
  BY <1>1, LengthCounts
<1>4. PICK g : Counts(t, g, b, Len(b)) /\ LengthIn(t, b) = g[Len(b)]
  BY <1>1, LengthCounts
<1>5. PICK h : Counts(t, h, ab, Len(ab)) /\ LengthIn(t, ab) = h[Len(ab)]
  <2>1. Len(ab) \in Nat
    BY <1>1
  <2> QED
    BY <2>1, LengthCounts
<1>6. f[0] = 0 /\ \A k \in 0 .. Len(a) - 1 : f[k + 1] = f[k] + t[a[k + 1]].len
  BY <1>1, <1>3, CountSteps
<1>7. g[0] = 0 /\ \A k \in 0 .. Len(b) - 1 : g[k + 1] = g[k] + t[b[k + 1]].len
  BY <1>1, <1>4, CountSteps
<1>8. h[0] = 0 /\ \A k \in 0 .. Len(a) + Len(b) - 1 : h[k + 1] = h[k] + t[ab[k + 1]].len
  <2>1. Len(ab) \in Nat
    BY <1>1
  <2>2. h[0] = 0 /\ \A k \in 0 .. Len(ab) - 1 : h[k + 1] = h[k] + t[ab[k + 1]].len
    BY <2>1, <1>5, CountSteps
  <2>3. Len(ab) - 1 = Len(a) + Len(b) - 1
    BY <1>1
  <2> QED
    BY <2>2, <2>3, Zenon
<1>9. \A k \in 0 .. Len(a) : h[k] = f[k]
  <2> DEFINE T == {k \in Nat : k <= Len(a) => h[k] = f[k]}
  <2>1. 0 \in T
    BY <1>6, <1>8
  <2>2. ASSUME NEW k \in T PROVE k + 1 \in T
    <3>1. CASE k + 1 <= Len(a)
      <4>1. k \in 0 .. Len(a) - 1 /\ k \in 0 .. Len(a) + Len(b) - 1 /\ h[k] = f[k]
        BY <1>1, <3>1
      <4>2. ab[k + 1] = a[k + 1]
        BY <1>2, <1>1, <4>1
      <4>3. h[k + 1] = f[k + 1]
        BY <1>6, <1>8, <4>1, <4>2
      <4> QED
        BY <4>3
    <3> QED
      BY <1>1, <3>1
  <2> HIDE DEF T
  <2>3. T = Nat
    BY <2>1, <2>2, AllNaturals DEF T
  <2> QED
    BY <1>1, <2>3 DEF T
<1>10. f[Len(a)] \in Nat /\ \A k \in 0 .. Len(b) : g[k] \in Nat
  BY <1>1, <1>3, <1>4, CountTyped
<1>11. \A k \in 0 .. Len(b) : h[Len(a) + k] = f[Len(a)] + g[k]
  <2> DEFINE T == {k \in Nat : k <= Len(b) => h[Len(a) + k] = f[Len(a)] + g[k]}
  <2>1. 0 \in T
    BY <1>1, <1>7, <1>9, <1>10
  <2>2. ASSUME NEW k \in T PROVE k + 1 \in T
    <3>1. k \in Nat /\ (k <= Len(b) => h[Len(a) + k] = f[Len(a)] + g[k])
      OBVIOUS
    <3>2. (k + 1 <= Len(b) => h[Len(a) + (k + 1)] = f[Len(a)] + g[k + 1]) => k + 1 \in T
      BY <3>1
    <3> HIDE DEF T
    <3>3. CASE k + 1 <= Len(b)
      <4>1. /\ k \in 0 .. Len(b) - 1 /\ Len(a) + k \in 0 .. Len(a) + Len(b) - 1
            /\ h[Len(a) + k] = f[Len(a)] + g[k] /\ k + 1 \in 1 .. Len(b)
            /\ Len(a) + k + 1 = Len(a) + (k + 1)
        BY <1>1, <3>3, <3>1
      <4>2. ab[Len(a) + (k + 1)] = b[k + 1] /\ b[k + 1] \in 1 .. Len(t)
        BY <1>2, <4>1
      <4>3. ab[Len(a) + k + 1] = b[k + 1] /\ t[b[k + 1]].len \in Nat
        BY <4>1, <4>2 DEF Lined
      <4>4. /\ h[Len(a) + k + 1] = h[Len(a) + k] + t[b[k + 1]].len
            /\ g[k + 1] = g[k] + t[b[k + 1]].len
        <5>1. g[k + 1] = g[k] + t[b[k + 1]].len
          BY <1>7, <4>1
        <5>2. h[Len(a) + k + 1] = h[Len(a) + k] + t[ab[Len(a) + k + 1]].len
          BY <1>8, <4>1
        <5> QED
          BY <4>3, <5>1, <5>2
      <4>5. k \in 0 .. Len(b)
        BY <1>1, <4>1
      <4>6. g[k] \in Nat /\ f[Len(a)] \in Nat
        BY <1>10, <4>5
      <4>7. h[Len(a) + (k + 1)] = (f[Len(a)] + g[k]) + t[b[k + 1]].len
        BY <4>1, <4>4, Zenon
      <4>8. h[Len(a) + (k + 1)] = f[Len(a)] + g[k + 1]
        BY <4>6, <4>7, <4>3, <4>4
      <4> QED
        BY <3>2, <4>8
    <3> QED
      BY <3>3, <3>2
  <2> HIDE DEF T
  <2>3. T = Nat
    BY <2>1, <2>2, AllNaturals DEF T
  <2>4. ASSUME NEW k \in 0 .. Len(b) PROVE h[Len(a) + k] = f[Len(a)] + g[k]
    <3>1. k \in T /\ k <= Len(b)
      BY <1>1, <2>3
    <3> QED
      BY <3>1 DEF T
  <2> QED
    BY <2>4
<1>12. Len(b) \in 0 .. Len(b)
  BY <1>1
<1>13. h[Len(a) + Len(b)] = f[Len(a)] + g[Len(b)]
  BY <1>11, <1>12
<1> QED
  BY <1>1, <1>3, <1>4, <1>5, <1>13 DEF ab

\* Length is LengthIn for the file being cut.
LEMMA LengthIs == \A ls : Length(ls) = LengthIn(input, ls)
BY DEF Length, LengthIn

\* The line n is among ls; in a unit of us from number i on; in a chunk of o.
HasLine(ls, n)    == \E m \in 1 .. Len(ls) : ls[m] = n
InUnit(us, i, n)  == \E k \in i .. Len(us) : HasLine(us[k], n)
InPacked(o, n)    == \E k \in 1 .. Len(o) : HasLine(o[k].lines, n)

\* The chunks of code, for line numbers S.
Packed(S) == [lines : Seq(S), split : BOOLEAN]

\* The loops over lines and units: every line that is not blank is in the unit
\* being collected, a unit still to pack, the buffer or a chunk, and what is packed fits.
CodeInv ==
    /\ pc \in {"units", "pack", "done"} /\ size \in Nat
    /\ input \in Seq(Line(BraceLines \cup PythonLines)) /\ Len(input) <= MaxLines
    /\ depth \in 0 .. 2 * MaxLines /\ (pc = "units" => depth <= 2 * pos)
    /\ cur \in Seq(1 .. Len(input)) /\ buf \in Seq(1 .. Len(input))
    /\ units \in Seq(Seq(1 .. Len(input))) /\ out \in Seq(Packed(1 .. Len(input)))
    /\ pc = "units" => pos \in 0 .. Len(input) /\ Len(units) <= pos
    /\ pc # "units" => pos \in 0 .. Len(units) /\ Len(units) <= Len(input) + 1
    /\ LengthIn(input, buf) <= size
    /\ \A k \in 1 .. Len(out) : out[k].split \/ LengthIn(input, out[k].lines) <= size
    /\ \A n \in 1 .. Len(input) :
         \/ input[n].kind = "blank"
         \/ pc = "units" /\ (n > pos \/ HasLine(cur, n) \/ InUnit(units, 1, n))
         \/ pc = "pack" /\ (InUnit(units, pos + 1, n) \/ HasLine(buf, n) \/ InPacked(out, n))
         \/ pc = "done" /\ InPacked(out, n)

\* Appending to a sequence: what it had, and the new element at the end.
LEMMA Appended ==
  ASSUME NEW S, NEW s \in Seq(S), NEW e \in S
  PROVE  /\ Append(s, e) \in Seq(S) /\ Len(s) \in Nat /\ Len(Append(s, e)) = Len(s) + 1
         /\ \A k \in 1 .. Len(s) : Append(s, e)[k] = s[k]
         /\ Append(s, e)[Len(s) + 1] = e
         /\ Len(s) + 1 \in 1 .. Len(s) + 1 /\ 1 .. Len(s) \subseteq 1 .. Len(s) + 1
         /\ \A k \in 1 .. Len(s) + 1 : k \in 1 .. Len(s) \/ k = Len(s) + 1
OBVIOUS

\* A line appended to a unit is in it, with the lines that were there.
LEMMA LineAppended ==
  ASSUME NEW S, NEW s \in Seq(S), NEW e \in S
  PROVE  HasLine(Append(s, e), e) /\ \A n : HasLine(s, n) => HasLine(Append(s, e), n)
<1> DEFINE a == Append(s, e)
<1>1. /\ Len(a) = Len(s) + 1 /\ \A k \in 1 .. Len(s) : a[k] = s[k]
      /\ a[Len(s) + 1] = e
      /\ Len(s) + 1 \in 1 .. Len(s) + 1 /\ 1 .. Len(s) \subseteq 1 .. Len(s) + 1
  BY Appended
<1> HIDE DEF a
<1>2. HasLine(a, e)
  BY <1>1 DEF HasLine
<1>3. \A n : HasLine(s, n) => HasLine(a, n)
  BY <1>1 DEF HasLine
<1> QED
  BY <1>2, <1>3 DEF a

\* push_unit keeps every line that is not blank.
LEMMA UnitPushed ==
  ASSUME NEW S, NEW us \in Seq(Seq(S)), NEW c \in Seq(S)
  PROVE  /\ push_unit(us, c) \in Seq(Seq(S))
         /\ Len(push_unit(us, c)) \in Len(us) .. Len(us) + 1
         /\ \A n : HasLine(c, n) \/ InUnit(us, 1, n) =>
              input[n].kind = "blank" \/ InUnit(push_unit(us, c), 1, n)
<1>1. CASE AllBlank(c)
  <2>1. push_unit(us, c) = us
    BY <1>1 DEF push_unit
  <2>2. \A n : HasLine(c, n) => input[n].kind = "blank"
    BY <1>1 DEF AllBlank, HasLine
  <2>3. Len(us) \in Len(us) .. Len(us) + 1
    OBVIOUS
  <2> QED
    BY <2>1, <2>2, <2>3
<1>2. CASE ~AllBlank(c)
  <2> DEFINE a == Append(us, c)
  <2>1. push_unit(us, c) = a
    BY <1>2 DEF push_unit
  <2>2. /\ a \in Seq(Seq(S)) /\ Len(us) \in Nat /\ Len(a) = Len(us) + 1
        /\ \A k \in 1 .. Len(us) : a[k] = us[k]
        /\ a[Len(us) + 1] = c
        /\ Len(us) + 1 \in 1 .. Len(us) + 1 /\ 1 .. Len(us) \subseteq 1 .. Len(us) + 1
    BY Appended
  <2> HIDE DEF a
  <2>3. Len(a) \in Len(us) .. Len(us) + 1
    BY <2>2
  <2>4. \A n : HasLine(c, n) => InUnit(a, 1, n)
    BY <2>2 DEF InUnit
  <2>5. \A n : InUnit(us, 1, n) => InUnit(a, 1, n)
    BY <2>2 DEF InUnit
  <2> QED
    BY <2>1, <2>2, <2>3, <2>4, <2>5
<1> QED
  BY <1>1, <1>2

\* A chunk appended is among the chunks, with the ones that were there.
LEMMA ChunkAppended ==
  ASSUME NEW t, NEW S, NEW o \in Seq(Packed(S)), NEW c \in Packed(S), NEW sz,
         \A k \in 1 .. Len(o) : o[k].split \/ LengthIn(t, o[k].lines) <= sz,
         c.split \/ LengthIn(t, c.lines) <= sz
  PROVE  /\ Append(o, c) \in Seq(Packed(S))
         /\ \A k \in 1 .. Len(Append(o, c)) :
              Append(o, c)[k].split \/ LengthIn(t, Append(o, c)[k].lines) <= sz
         /\ \A n : HasLine(c.lines, n) \/ InPacked(o, n) => InPacked(Append(o, c), n)
<1> DEFINE a == Append(o, c)
<1>1. /\ a \in Seq(Packed(S)) /\ Len(a) = Len(o) + 1
      /\ \A k \in 1 .. Len(o) : a[k] = o[k]
      /\ a[Len(o) + 1] = c
      /\ Len(o) + 1 \in 1 .. Len(o) + 1 /\ 1 .. Len(o) \subseteq 1 .. Len(o) + 1
      /\ \A k \in 1 .. Len(o) + 1 : k \in 1 .. Len(o) \/ k = Len(o) + 1
  BY Appended
<1> HIDE DEF a
<1>2. \A k \in 1 .. Len(a) : a[k].split \/ LengthIn(t, a[k].lines) <= sz
  BY <1>1
<1>3. \A n : HasLine(c.lines, n) => InPacked(a, n)
  BY <1>1 DEF InPacked
<1>4. \A n : InPacked(o, n) => InPacked(a, n)
  BY <1>1 DEF InPacked
<1> QED
  BY <1>1, <1>2, <1>3, <1>4 DEF a

\* mk_chunk keeps every line that is not blank, and what it makes fits.
LEMMA ChunkMade ==
  ASSUME NEW S, NEW o \in Seq(Packed(S)), NEW b \in Seq(S), NEW sz,
         \A k \in 1 .. Len(o) : o[k].split \/ LengthIn(input, o[k].lines) <= sz,
         LengthIn(input, b) <= sz
  PROVE  /\ mk_chunk(o, b) \in Seq(Packed(S))
         /\ \A k \in 1 .. Len(mk_chunk(o, b)) :
              mk_chunk(o, b)[k].split \/ LengthIn(input, mk_chunk(o, b)[k].lines) <= sz
         /\ \A n : HasLine(b, n) \/ InPacked(o, n) =>
              input[n].kind = "blank" \/ InPacked(mk_chunk(o, b), n)
<1>1. CASE AllBlank(b)
  <2>1. mk_chunk(o, b) = o
    BY <1>1 DEF mk_chunk
  <2>2. \A n : HasLine(b, n) => input[n].kind = "blank"
    BY <1>1 DEF AllBlank, HasLine
  <2> QED
    BY <2>1, <2>2
<1>2. CASE ~AllBlank(b)
  <2> DEFINE c == [lines |-> b, split |-> FALSE]
  <2>1. c \in Packed(S) /\ c.lines = b
    BY DEF Packed
  <2>2. mk_chunk(o, b) = Append(o, c)
    BY <1>2 DEF mk_chunk
  <2> HIDE DEF c
  <2>3. c.split \/ LengthIn(input, c.lines) <= sz
    BY <2>1
  <2>4. /\ Append(o, c) \in Seq(Packed(S))
        /\ \A k \in 1 .. Len(Append(o, c)) :
             Append(o, c)[k].split \/ LengthIn(input, Append(o, c)[k].lines) <= sz
        /\ \A n : HasLine(c.lines, n) \/ InPacked(o, n) => InPacked(Append(o, c), n)
    BY <2>1, <2>3, ChunkAppended
  <2> QED
    BY <2>1, <2>2, <2>4
<1> QED
  BY <1>1, <1>2

\* Lines put together.
LEMMA LinesJoined ==
  ASSUME NEW S, NEW a \in Seq(S), NEW b \in Seq(S)
  PROVE  \A n : HasLine(a, n) \/ HasLine(b, n) => HasLine(a \o b, n)
<1> DEFINE ab == a \o b
<1>1. /\ Len(a) \in Nat /\ Len(b) \in Nat /\ Len(ab) = Len(a) + Len(b)
      /\ \A k \in 1 .. Len(a) : ab[k] = a[k]
      /\ \A k \in 1 .. Len(b) : ab[Len(a) + k] = b[k]
  OBVIOUS
<1> HIDE DEF ab
<1>2. 1 .. Len(a) \subseteq 1 .. Len(ab) /\ \A k \in 1 .. Len(b) : Len(a) + k \in 1 .. Len(ab)
  BY <1>1
<1>3. \A n : HasLine(a, n) => HasLine(ab, n)
  BY <1>1, <1>2 DEF HasLine
<1>4. \A n : HasLine(b, n) => HasLine(ab, n)
  BY <1>1, <1>2 DEF HasLine
<1> QED
  BY <1>3, <1>4 DEF ab

\* The lines of a source file.
LEMMA CodeLined == CodeInv => Lined(input) /\ Len(input) \in Nat
<1> SUFFICES ASSUME CodeInv PROVE Lined(input) /\ Len(input) \in Nat
  OBVIOUS
<1>1. input \in Seq(Line(BraceLines \cup PythonLines))
  BY DEF CodeInv
<1>2. /\ DOMAIN input = 1 .. Len(input) /\ Len(input) \in Nat
      /\ \A n \in 1 .. Len(input) : input[n] \in Line(BraceLines \cup PythonLines)
  BY <1>1
<1>3. \A l \in Line(BraceLines \cup PythonLines) : l.len \in Nat
  BY ChunkingConstants DEF Line
<1> QED
  BY <1>2, <1>3 DEF Lined

\* A line goes to the unit being collected, or closes it; either way no line is lost.
\* The depth of braces grows by at most two.
LEMMA BraceLine == CodeInv /\ brace_units => CodeInv'
<1> SUFFICES ASSUME CodeInv, brace_units PROVE CodeInv'
  OBVIOUS
<1> DEFINE S    == 1 .. Len(input)
           line == Elem(pos)
           here == Append(cur, pos + 1)
           d    == Nested(line)
<1>1. /\ pc = "units" /\ pos \in Nat /\ pos < Len(input) /\ Len(input) \in Nat
      /\ Len(input) <= MaxLines /\ MaxLines \in Nat
      /\ depth \in Nat /\ depth <= 2 * pos /\ cur \in Seq(S) /\ units \in Seq(Seq(S))
      /\ Len(units) <= pos /\ pos + 1 \in S
  BY CodeLined, ChunkingConstants DEF CodeInv, brace_units
<1>2. /\ depth' = d
      /\ IF d = 0 /\ EndsUnit(line)
           THEN units' = push_unit(units, here) /\ cur' = << >>
           ELSE cur' = here /\ units' = units
      /\ pos' = pos + 1
      /\ UNCHANGED << lang, input, size, overlap, buf, out, pc >>
  BY DEF brace_units
<1>3. d \in 0 .. 2 * MaxLines /\ d <= 2 * (pos + 1)
  <2>1. brace_delta(line) \in {2, 1, -1, -2, 0}
    BY DEF brace_delta
  <2> HIDE DEF line
  <2> QED
    BY <1>1, <2>1 DEF Nested, Larger
<1>4. here \in Seq(S)
  BY <1>1, Appended
<1>5. HasLine(here, pos + 1) /\ \A n : HasLine(cur, n) => HasLine(here, n)
  BY <1>1, LineAppended
<1> HIDE DEF line, d, here, S
<1>6. /\ cur' \in Seq(S) /\ units' \in Seq(Seq(S)) /\ Len(units') <= pos + 1
      /\ \A n : n = pos + 1 \/ HasLine(cur, n) \/ InUnit(units, 1, n) =>
           input[n].kind = "blank" \/ HasLine(cur', n) \/ InUnit(units', 1, n)
  <2>1. CASE d = 0 /\ EndsUnit(line)
    <3>1. /\ push_unit(units, here) \in Seq(Seq(S))
          /\ Len(push_unit(units, here)) \in Len(units) .. Len(units) + 1
          /\ \A n : HasLine(here, n) \/ InUnit(units, 1, n) =>
               input[n].kind = "blank" \/ InUnit(push_unit(units, here), 1, n)
      BY <1>1, <1>4, UnitPushed
    <3>2. units' = push_unit(units, here) /\ cur' = << >>
      BY <1>2, <2>1
    <3>3. Len(units') <= pos + 1 /\ << >> \in Seq(S)
      BY <1>1, <3>1, <3>2
    <3> QED
      BY <1>5, <3>1, <3>2, <3>3
  <2>2. CASE ~(d = 0 /\ EndsUnit(line))
    <3>1. units' = units /\ cur' = here
      BY <1>2, <2>2
    <3>2. Len(units') <= pos + 1
      BY <1>1, <3>1
    <3> QED
      BY <1>1, <1>4, <1>5, <3>1, <3>2
  <2> QED
    BY <2>1, <2>2
<1>7. \A n \in 1 .. Len(input) :
        \/ input[n].kind = "blank"
        \/ n > pos + 1 \/ HasLine(cur', n) \/ InUnit(units', 1, n)
  <2> SUFFICES ASSUME NEW n \in 1 .. Len(input),
                      ~(input[n].kind = "blank"), ~(n > pos + 1)
               PROVE  HasLine(cur', n) \/ InUnit(units', 1, n)
    OBVIOUS
  <2>1. n = pos + 1 \/ ~(n > pos)
    BY <1>1
  <2>2. n = pos + 1 \/ HasLine(cur, n) \/ InUnit(units, 1, n)
    BY <1>1, <2>1 DEF CodeInv
  <2> QED
    BY <1>6, <2>2
<1>8. pos + 1 \in 0 .. Len(input)
  BY <1>1
<1> QED
  BY <1>1, <1>2, <1>3, <1>6, <1>7, <1>8 DEF CodeInv, S

\* A definition closes the unit before it; no line is lost.
LEMMA PythonLine == CodeInv /\ python_units => CodeInv'
<1> SUFFICES ASSUME CodeInv, python_units PROVE CodeInv'
  OBVIOUS
<1> DEFINE S    == 1 .. Len(input)
           here == Append(cur, pos + 1)
           one  == << pos + 1 >>
<1>1. /\ pc = "units" /\ pos \in Nat /\ pos < Len(input) /\ Len(input) \in Nat
      /\ depth \in Nat /\ depth <= 2 * pos /\ cur \in Seq(S) /\ units \in Seq(Seq(S))
      /\ Len(units) <= pos /\ pos + 1 \in S
  BY CodeLined, ChunkingConstants DEF CodeInv, python_units
<1>2. /\ \/ units' = push_unit(units, cur) /\ cur' = one
         \/ cur' = here /\ units' = units
      /\ pos' = pos + 1
      /\ UNCHANGED << lang, input, size, overlap, depth, buf, out, pc >>
  BY DEF python_units
<1>3. here \in Seq(S)
  BY <1>1, Appended
<1>4. HasLine(here, pos + 1) /\ \A n : HasLine(cur, n) => HasLine(here, n)
  BY <1>1, LineAppended
<1>5. one \in Seq(S) /\ HasLine(one, pos + 1)
  BY <1>1 DEF HasLine
<1> HIDE DEF here, S, one
<1>6. /\ cur' \in Seq(S) /\ units' \in Seq(Seq(S)) /\ Len(units') <= pos + 1
      /\ \A n : n = pos + 1 \/ HasLine(cur, n) \/ InUnit(units, 1, n) =>
           input[n].kind = "blank" \/ HasLine(cur', n) \/ InUnit(units', 1, n)
  <2>1. CASE units' = push_unit(units, cur) /\ cur' = one
    <3>1. /\ push_unit(units, cur) \in Seq(Seq(S))
          /\ Len(push_unit(units, cur)) \in Len(units) .. Len(units) + 1
          /\ \A n : HasLine(cur, n) \/ InUnit(units, 1, n) =>
               input[n].kind = "blank" \/ InUnit(push_unit(units, cur), 1, n)
      BY <1>1, UnitPushed
    <3>2. Len(units') <= pos + 1
      BY <1>1, <2>1, <3>1
    <3> QED
      BY <1>5, <2>1, <3>1, <3>2
  <2>2. CASE cur' = here /\ units' = units
    <3>1. Len(units') <= pos + 1
      BY <1>1, <2>2
    <3> QED
      BY <1>1, <1>3, <1>4, <2>2, <3>1
  <2> QED
    BY <1>2, <2>1, <2>2
<1>7. \A n \in 1 .. Len(input) :
        \/ input[n].kind = "blank"
        \/ n > pos + 1 \/ HasLine(cur', n) \/ InUnit(units', 1, n)
  <2> SUFFICES ASSUME NEW n \in 1 .. Len(input),
                      ~(input[n].kind = "blank"), ~(n > pos + 1)
               PROVE  HasLine(cur', n) \/ InUnit(units', 1, n)
    OBVIOUS
  <2>1. n = pos + 1 \/ ~(n > pos)
    BY <1>1
  <2>2. n = pos + 1 \/ HasLine(cur, n) \/ InUnit(units, 1, n)
    BY <1>1, <2>1 DEF CodeInv
  <2> QED
    BY <1>6, <2>2
<1>8. pos + 1 \in 0 .. Len(input) /\ depth <= 2 * (pos + 1)
  BY <1>1
<1> QED
  BY <1>1, <1>2, <1>6, <1>7, <1>8 DEF CodeInv, S

\* The last unit: every line that is not blank is now in a unit.
LEMMA UnitsEnd == CodeInv /\ LastUnit => CodeInv'
<1> SUFFICES ASSUME CodeInv, LastUnit PROVE CodeInv'
  OBVIOUS
<1> DEFINE S == 1 .. Len(input)
<1>1. /\ pc = "units" /\ pos \in Nat /\ pos = Len(input) /\ Len(input) \in Nat
      /\ cur \in Seq(S) /\ units \in Seq(Seq(S)) /\ Len(units) <= pos
  BY CodeLined DEF CodeInv, LastUnit
<1>2. /\ units' = push_unit(units, cur) /\ cur' = << >> /\ pc' = "pack" /\ pos' = 0
      /\ UNCHANGED << lang, input, size, overlap, depth, buf, out >>
  BY DEF LastUnit
<1> HIDE DEF S
<1>3. /\ units' \in Seq(Seq(S)) /\ Len(units') \in Len(units) .. Len(units) + 1
      /\ \A n : HasLine(cur, n) \/ InUnit(units, 1, n) =>
           input[n].kind = "blank" \/ InUnit(units', 1, n)
  BY <1>1, <1>2, UnitPushed
<1>4. 0 \in 0 .. Len(units') /\ Len(units') <= Len(input) + 1 /\ << >> \in Seq(S) /\ 0 + 1 = 1
  BY <1>1, <1>3
<1>5. \A n \in 1 .. Len(input) : input[n].kind = "blank" \/ InUnit(units', 1, n)
  <2> SUFFICES ASSUME NEW n \in 1 .. Len(input), ~(input[n].kind = "blank")
               PROVE  InUnit(units', 1, n)
    OBVIOUS
  <2>1. ~(n > pos)
    BY <1>1
  <2>2. HasLine(cur, n) \/ InUnit(units, 1, n)
    BY <1>1, <2>1 DEF CodeInv
  <2> QED
    BY <1>3, <2>2
<1> QED
  BY <1>1, <1>2, <1>3, <1>4, <1>5 DEF CodeInv, S

\* A unit is packed into the buffer, or closes it, or goes to the prose splitter alone:
\* no line is lost, and what is not split fits the size.
LEMMA UnitPacked == CodeInv /\ PackUnit => CodeInv'
<1> SUFFICES ASSUME CodeInv, PackUnit PROVE CodeInv'
  OBVIOUS
<1> DEFINE S     == 1 .. Len(input)
           unit  == units[pos + 1]
           whole == [lines |-> unit, split |-> TRUE]
           full  == [lines |-> buf, split |-> FALSE]
           made  == mk_chunk(out, buf)
           AllFit(o) == \A k \in 1 .. Len(o) : o[k].split \/ LengthIn(input, o[k].lines) <= size
<1>1. /\ pc = "pack" /\ pos \in Nat /\ Len(units) \in Nat /\ pos < Len(units)
      /\ Len(units) <= Len(input) + 1 /\ units \in Seq(Seq(S)) /\ buf \in Seq(S)
      /\ out \in Seq(Packed(S)) /\ AllFit(out) /\ LengthIn(input, buf) <= size /\ size \in Nat
  BY DEF CodeInv, PackUnit
<1>2. Lined(input) /\ Len(input) \in Nat
  BY CodeLined
<1>3. unit \in Seq(S)
  <2>1. pos + 1 \in 1 .. Len(units)
    BY <1>1
  <2> QED
    BY <1>1, <2>1
<1>4. /\ IF Length(unit) > size
           THEN out' = Append(made, whole) /\ buf' = << >>
           ELSE IF buf # << >> /\ Length(buf) + Length(unit) > size
           THEN out' = Append(out, full) /\ buf' = unit
           ELSE buf' = buf \o unit /\ out' = out
      /\ pos' = pos + 1
      /\ UNCHANGED << lang, input, size, overlap, cur, depth, units, pc >>
  BY DEF PackUnit
<1>5. /\ Length(unit) = LengthIn(input, unit) /\ Length(buf) = LengthIn(input, buf)
      /\ LengthIn(input, unit) \in Nat /\ LengthIn(input, buf) \in Nat
      /\ LengthIn(input, << >>) = 0
      /\ LengthIn(input, buf \o unit) = LengthIn(input, buf) + LengthIn(input, unit)
  BY <1>1, <1>2, <1>3, LengthIs, LengthTyped, LengthEmpty, LengthJoins
<1>6. whole \in Packed(S) /\ whole.lines = unit /\ whole.split = TRUE
  BY <1>3 DEF Packed
<1>7. full \in Packed(S) /\ full.lines = buf /\ full.split = FALSE
  BY <1>1 DEF Packed
<1>8. \A n : InUnit(units, pos + 1, n) => HasLine(unit, n) \/ InUnit(units, pos + 1 + 1, n)
  <2>1. \A k \in pos + 1 .. Len(units) : k = pos + 1 \/ k \in pos + 1 + 1 .. Len(units)
    BY <1>1
  <2> QED
    BY <2>1 DEF InUnit
<1> HIDE DEF unit, whole, full, made, S
<1>9. /\ buf' \in Seq(S) /\ out' \in Seq(Packed(S)) /\ AllFit(out')
      /\ LengthIn(input, buf') <= size
      /\ \A n : HasLine(unit, n) \/ HasLine(buf, n) \/ InPacked(out, n) =>
           input[n].kind = "blank" \/ HasLine(buf', n) \/ InPacked(out', n)
  <2>1. CASE Length(unit) > size
    <3>1. /\ made \in Seq(Packed(S)) /\ AllFit(made)
          /\ \A n : HasLine(buf, n) \/ InPacked(out, n) =>
               input[n].kind = "blank" \/ InPacked(made, n)
      BY <1>1, ChunkMade DEF made
    <3>2. /\ Append(made, whole) \in Seq(Packed(S)) /\ AllFit(Append(made, whole))
          /\ \A n : HasLine(whole.lines, n) \/ InPacked(made, n) =>
               InPacked(Append(made, whole), n)
      BY <1>6, <3>1, ChunkAppended
    <3>3. out' = Append(made, whole) /\ buf' = << >> /\ << >> \in Seq(S)
      BY <1>4, <2>1
    <3>4. LengthIn(input, buf') <= size
      BY <1>1, <1>5, <3>3
    <3> QED
      BY <1>6, <3>1, <3>2, <3>3, <3>4
  <2>2. CASE ~(Length(unit) > size) /\ buf # << >> /\ Length(buf) + Length(unit) > size
    <3>1. full.split \/ LengthIn(input, full.lines) <= size
      BY <1>1, <1>7
    <3>2. /\ Append(out, full) \in Seq(Packed(S)) /\ AllFit(Append(out, full))
          /\ \A n : HasLine(full.lines, n) \/ InPacked(out, n) => InPacked(Append(out, full), n)
      BY <1>1, <1>7, <3>1, ChunkAppended
    <3>3. out' = Append(out, full) /\ buf' = unit
      BY <1>4, <2>2
    <3>4. LengthIn(input, buf') <= size
      BY <1>1, <1>5, <2>2, <3>3
    <3> QED
      BY <1>3, <1>7, <3>2, <3>3, <3>4 DEF unit
  <2>3. CASE ~(Length(unit) > size) /\ ~(buf # << >> /\ Length(buf) + Length(unit) > size)
    <3>1. buf' = buf \o unit /\ out' = out
      BY <1>4, <2>3
    <3>2. \A n : HasLine(buf, n) \/ HasLine(unit, n) => HasLine(buf \o unit, n)
      BY <1>1, <1>3, LinesJoined
    <3>3. buf \o unit \in Seq(S)
      BY <1>1, <1>3
    <3>4. LengthIn(input, buf \o unit) <= size
      <4>1. CASE buf = << >>
        BY <1>1, <1>5, <2>3, <4>1
      <4>2. CASE buf # << >>
        BY <1>1, <1>5, <2>3, <4>2
      <4> QED
        BY <4>1, <4>2
    <3> QED
      BY <1>1, <3>1, <3>2, <3>3, <3>4
  <2> QED
    BY <2>1, <2>2, <2>3
<1>10. \A n \in 1 .. Len(input) :
         \/ input[n].kind = "blank"
         \/ InUnit(units, pos + 1 + 1, n) \/ HasLine(buf', n) \/ InPacked(out', n)
  <2> SUFFICES ASSUME NEW n \in 1 .. Len(input), ~(input[n].kind = "blank"),
                      ~InUnit(units, pos + 1 + 1, n)
               PROVE  HasLine(buf', n) \/ InPacked(out', n)
    OBVIOUS
  <2>1. InUnit(units, pos + 1, n) \/ HasLine(buf, n) \/ InPacked(out, n)
    BY <1>1 DEF CodeInv
  <2> QED
    BY <1>8, <1>9, <2>1
<1>11. pos + 1 \in 0 .. Len(units)
  BY <1>1
<1> QED
  BY <1>1, <1>4, <1>9, <1>10, <1>11 DEF CodeInv, S

\* The buffer that is left.
LEMMA RestPacked == CodeInv /\ PackRest => CodeInv'
<1> SUFFICES ASSUME CodeInv, PackRest PROVE CodeInv'
  OBVIOUS
<1> DEFINE S == 1 .. Len(input)
<1>1. /\ pc = "pack" /\ pos \in Nat /\ Len(units) \in Nat /\ pos = Len(units)
      /\ buf \in Seq(S) /\ out \in Seq(Packed(S)) /\ LengthIn(input, buf) <= size /\ size \in Nat
      /\ \A k \in 1 .. Len(out) : out[k].split \/ LengthIn(input, out[k].lines) <= size
  BY DEF CodeInv, PackRest
<1>2. /\ out' = mk_chunk(out, buf) /\ buf' = << >> /\ pc' = "done"
      /\ UNCHANGED << lang, input, size, overlap, pos, cur, depth, units >>
  BY DEF PackRest
<1>3. << >> \in Seq(S) /\ LengthIn(input, << >>) <= size
  BY <1>1, LengthEmpty
<1> HIDE DEF S
<1>4. /\ out' \in Seq(Packed(S))
      /\ \A k \in 1 .. Len(out') : out'[k].split \/ LengthIn(input, out'[k].lines) <= size
      /\ \A n : HasLine(buf, n) \/ InPacked(out, n) =>
           input[n].kind = "blank" \/ InPacked(out', n)
  BY <1>1, <1>2, ChunkMade
<1>5. \A n : ~InUnit(units, pos + 1, n)
  <2>1. pos + 1 .. Len(units) = {}
    BY <1>1
  <2> QED
    BY <2>1 DEF InUnit
<1>6. \A n \in 1 .. Len(input) : input[n].kind = "blank" \/ InPacked(out', n)
  <2> SUFFICES ASSUME NEW n \in 1 .. Len(input), ~(input[n].kind = "blank")
               PROVE  InPacked(out', n)
    OBVIOUS
  <2>1. HasLine(buf, n) \/ InPacked(out, n)
    BY <1>1, <1>5 DEF CodeInv
  <2> QED
    BY <1>4, <2>1
<1> QED
  BY <1>1, <1>2, <1>3, <1>4, <1>6 DEF CodeInv, S

\* A step over code.
LEMMA CodeNext ==
  lang \in {"Braces", "Python"} /\ CodeInv /\ [ChunkingNext]_chunkvars => CodeInv'
<1> SUFFICES ASSUME lang \in {"Braces", "Python"}, CodeInv, [ChunkingNext]_chunkvars
             PROVE  CodeInv'
  OBVIOUS
<1>1. ~ChunkNext /\ ~ChunkNothing
  BY DEF ChunkNext, ChunkNothing
<1>2. CASE UNCHANGED chunkvars
  BY <1>2 DEF CodeInv, chunkvars
<1> QED
  BY <1>1, <1>2, BraceLine, PythonLine, UnitsEnd, UnitPacked, RestPacked DEF ChunkingNext

\* The inputs of a run are sequences within its bound.
LEMMA InputBounded ==
  ASSUME NEW n \in Nat, NEW T, NEW S \in SUBSET T, NEW s \in UpTo(n, S)
  PROVE  s \in Seq(T) /\ Len(s) \in Nat /\ Len(s) <= n
<1>1. PICK k \in 0 .. n : s \in [1 .. k -> S]
  BY DEF UpTo
<1>2. k \in Nat /\ k <= n /\ s \in [1 .. k -> T]
  BY <1>1
<1> QED
  BY <1>2

\* Prose and code are cut by loops of their own.
ChunkInv ==
    \/ lang = "prose" /\ TextInv
    \/ lang \in {"Braces", "Python"} /\ CodeInv

\* Every document starts whole.
LEMMA ChunkInitInv == ChunkInit => ChunkInv
<1> SUFFICES ASSUME ChunkInit PROVE ChunkInv
  OBVIOUS
<1>1. /\ {MaxChars, MaxLines, MaxSize} \subseteq Nat /\ size \in Nat
      /\ pos = 0 /\ cur = << >> /\ depth = 0 /\ units = << >> /\ buf = << >> /\ out = << >>
  BY ChunkingConstants DEF ChunkInit
<1>2. CASE /\ lang = "prose" /\ pc = "cut" /\ overlap \in 0 .. size
           /\ input \in UpTo(MaxChars, Chars)
  <2>1. input \in Seq(Chars) /\ Len(input) \in Nat
    BY <1>1, <1>2, InputBounded
  <2> QED
    BY <1>1, <1>2, <2>1 DEF ChunkInv, TextInv
<1>3. ASSUME pc = "units", lang \in {"Braces", "Python"},
             NEW K \in SUBSET (BraceLines \cup PythonLines), input \in UpTo(MaxLines, Line(K))
      PROVE  CodeInv
  <2>1. Line(K) \in SUBSET Line(BraceLines \cup PythonLines)
    BY DEF Line
  <2>2. /\ input \in Seq(Line(BraceLines \cup PythonLines))
        /\ Len(input) \in Nat /\ Len(input) <= MaxLines
    BY <1>1, <1>3, <2>1, InputBounded
  <2>3. \A n \in 1 .. Len(input) : n > 0
    BY <2>2
  <2>4. LengthIn(input, buf) <= size
    BY <1>1, LengthEmpty
  <2>5. /\ cur \in Seq(1 .. Len(input)) /\ buf \in Seq(1 .. Len(input))
        /\ units \in Seq(Seq(1 .. Len(input))) /\ out \in Seq(Packed(1 .. Len(input)))
        /\ Len(units) = 0 /\ 1 .. Len(out) = {}
    BY <1>1
  <2> QED
    BY <1>1, <1>3, <2>2, <2>3, <2>4, <2>5 DEF CodeInv
<1>4. CASE pc = "units" /\ lang = "Braces" /\ input \in UpTo(MaxLines, Line(BraceLines))
  BY <1>3, <1>4 DEF ChunkInv
<1>5. CASE pc = "units" /\ lang = "Python" /\ input \in UpTo(MaxLines, Line(PythonLines))
  BY <1>3, <1>5 DEF ChunkInv
<1> QED
  BY <1>2, <1>4, <1>5 DEF ChunkInit

\* Every step keeps the invariant of its loop.
LEMMA ChunkNextInv == ChunkInv /\ [ChunkingNext]_chunkvars => ChunkInv'
<1> SUFFICES ASSUME ChunkInv, [ChunkingNext]_chunkvars PROVE ChunkInv'
  OBVIOUS
<1>1. lang' = lang
  BY DEF ChunkingNext, chunkvars, ChunkNext, ChunkNothing, brace_units, python_units, LastUnit,
         PackUnit, PackRest
<1> QED
  BY <1>1, TextNext, CodeNext DEF ChunkInv

\* The invariant of the loops gives what a finished document promises.
LEMMA ChunkInvSound == ChunkInv => ChunksSound
<1> SUFFICES ASSUME ChunkInv PROVE ChunksSound
  OBVIOUS
<1>1. CASE lang = "prose" /\ TextInv
  <2>1. Len(input) \in Nat /\ Len(units) = 0 /\ MaxLines \in Nat
    BY <1>1, ChunkingConstants DEF TextInv
  <2>2. \A k \in 1 .. Len(out) : out[k][1] \in Nat /\ out[k][2] \in Nat
    BY <1>1 DEF TextInv
  <2>3. ChunkTypeOK
    BY <1>1, <2>1, <2>2 DEF TextInv, ChunkTypeOK, Larger
  <2>4. NothingLost
    BY <1>1 DEF TextInv, NothingLost, InChunk
  <2>5. WithinSize
    BY <1>1 DEF TextInv, WithinSize
  <2> QED
    BY <2>3, <2>4, <2>5 DEF ChunksSound
<1>2. CASE lang \in {"Braces", "Python"} /\ CodeInv
  <2>1. Len(input) \in Nat /\ Len(units) \in Nat /\ lang # "prose"
    BY <1>2, CodeLined DEF CodeInv
  <2>2. pc # "done" => pos \in 0 .. Larger(Len(input), Len(units))
    BY <1>2, <2>1 DEF CodeInv, Larger
  <2>3. ChunkTypeOK
    BY <1>2, <2>1, <2>2 DEF CodeInv, ChunkTypeOK
  <2>4. NothingLost
    BY <1>2, <2>1 DEF CodeInv, NothingLost, InPacked, HasLine
  <2>5. WithinSize
    BY <1>2, <2>1, LengthIs DEF CodeInv, WithinSize
  <2> QED
    BY <2>3, <2>4, <2>5 DEF ChunksSound
<1> QED
  BY <1>1, <1>2 DEF ChunkInv

\* ChunksSound: every character of prose that is not white space and every line of code
\* that is not blank ends up in a chunk, and no chunk exceeds the size, for documents,
\* lines and sizes of every length.
THEOREM ChunksStaySound == ChunkSpec => []ChunksSound
<1>1. ChunkSpec => []ChunkInv
  BY ChunkInitInv, ChunkNextInv, PTL DEF ChunkSpec
<1> QED
  BY <1>1, ChunkInvSound, PTL

\* How many steps cutting can still take: characters before the window's end, lines and
\* units to read, units to pack.
StepsLeft ==
    CASE pc = "cut"   -> (Len(input) - pos) + 1
      [] pc = "units" -> ((Len(input) - pos) + Len(input)) + 3
      [] pc = "pack"  -> (Len(units) - pos) + 1
      [] pc = "done"  -> 0

\* The bound is a natural number.
LEMMA StepsNatural == ChunkInv => StepsLeft \in Nat
<1> SUFFICES ASSUME ChunkInv PROVE StepsLeft \in Nat
  OBVIOUS
<1>1. CASE lang = "prose" /\ TextInv
  <2>1. Len(input) \in Nat /\ pos \in 0 .. Len(input) /\ pc \in {"cut", "done"}
    BY <1>1 DEF TextInv
  <2> QED
    BY <2>1 DEF StepsLeft
<1>2. CASE lang \in {"Braces", "Python"} /\ CodeInv
  <2>1. /\ Len(input) \in Nat /\ Len(units) \in Nat /\ pc \in {"units", "pack", "done"}
        /\ pc = "units" => pos \in 0 .. Len(input)
        /\ pc = "pack" => pos \in 0 .. Len(units)
    BY <1>2, CodeLined DEF CodeInv
  <2> QED
    BY <2>1 DEF StepsLeft
<1> QED
  BY <1>1, <1>2 DEF ChunkInv

\* Every iteration of every loop uses some of it up.
LEMMA StepsFall == ChunkInv /\ ChunkInv' /\ ChunkingNext => StepsLeft' < StepsLeft
<1> SUFFICES ASSUME ChunkInv, ChunkInv', ChunkingNext PROVE StepsLeft' < StepsLeft
  OBVIOUS
<1>1. CASE ChunkNext
  <2>1. /\ pos \in Nat /\ Len(input) \in Nat /\ pos < Len(input) /\ pc = "cut"
        /\ size \in Nat /\ overlap \in Nat
    BY <1>1 DEF ChunkInv, TextInv, ChunkNext
  <2>2. /\ NextStart(pos, PieceEnd(pos)) \in Nat /\ pos < NextStart(pos, PieceEnd(pos))
    BY <2>1, PieceFits
  <2>3. pos' = NextStart(pos, PieceEnd(pos)) /\ input' = input /\ pc' \in {"cut", "done"}
    BY <1>1 DEF ChunkNext
  <2> QED
    BY <2>1, <2>2, <2>3 DEF StepsLeft
<1>2. CASE ChunkNothing
  <2>1. StepsLeft = (Len(input) - pos) + 1 /\ pos \in 0 .. Len(input) /\ Len(input) \in Nat
    BY <1>2 DEF ChunkInv, TextInv, ChunkNothing, StepsLeft
  <2>2. StepsLeft' = 0
    BY <1>2 DEF ChunkNothing, StepsLeft
  <2> QED
    BY <2>1, <2>2
<1>3. CASE brace_units \/ python_units
  <2>1. /\ pos \in Nat /\ Len(input) \in Nat /\ pos < Len(input) /\ pc = "units"
    BY <1>3, CodeLined DEF ChunkInv, CodeInv, TextInv, brace_units, python_units
  <2>2. pos' = pos + 1 /\ input' = input /\ pc' = "units"
    BY <1>3, <2>1 DEF brace_units, python_units
  <2> QED
    BY <2>1, <2>2 DEF StepsLeft
<1>4. CASE LastUnit
  <2>1. /\ CodeInv /\ pos \in 0 .. Len(input) /\ Len(input) \in Nat /\ pc = "units"
    BY <1>4, CodeLined DEF ChunkInv, CodeInv, TextInv, LastUnit
  <2>2. CodeInv' /\ pos' = 0 /\ input' = input /\ pc' = "pack"
    BY <1>4, <2>1, UnitsEnd DEF LastUnit
  <2>3. Len(units') \in Nat /\ Len(units') <= Len(input) + 1
    BY <2>2 DEF CodeInv
  <2> QED
    BY <2>1, <2>2, <2>3 DEF StepsLeft
<1>5. CASE PackUnit
  <2>1. /\ pos \in Nat /\ Len(units) \in Nat /\ pos < Len(units) /\ pc = "pack"
    BY <1>5 DEF ChunkInv, CodeInv, TextInv, PackUnit
  <2>2. pos' = pos + 1 /\ units' = units /\ pc' = "pack"
    BY <1>5, <2>1 DEF PackUnit
  <2> QED
    BY <2>1, <2>2 DEF StepsLeft
<1>6. CASE PackRest
  <2>1. pos \in 0 .. Len(units) /\ Len(units) \in Nat /\ pc = "pack"
    BY <1>6 DEF ChunkInv, CodeInv, TextInv, PackRest
  <2>2. pc' = "done"
    BY <1>6 DEF PackRest
  <2> QED
    BY <2>1, <2>2 DEF StepsLeft
<1> QED
  BY <1>1, <1>2, <1>3, <1>4, <1>5, <1>6 DEF ChunkingNext

\* The safety half of ChunkingEnds: whatever the overlap and wherever the breaks are, every
\* step of the splitters brings the end closer, by a count of steps that is never negative.
THEOREM CuttingAdvances ==
  ChunkSpec => [](StepsLeft \in Nat) /\ [][StepsLeft' < StepsLeft]_chunkvars
<1>1. ChunkSpec => []ChunkInv
  BY ChunkInitInv, ChunkNextInv, PTL DEF ChunkSpec
<1>2. ChunkInv /\ ChunkInv' /\ [ChunkingNext]_chunkvars => [StepsLeft' < StepsLeft]_chunkvars
  BY StepsFall
<1> QED
  BY <1>1, <1>2, StepsNatural, PTL DEF ChunkSpec
=============================================================================
