------------------------------ MODULE Serving ------------------------------
(***************************************************************************)
(* The daemon serving documents and models, with one kind of traffic per   *)
(* behaviour: requests about documents, requests about labelled            *)
(* collections beside changes of their labels, calls of the engine, or     *)
(* edits of config.toml beside reloads.  Requests of one kind run beside   *)
(* each other, and starts, crashes and shutdowns end them all.             *)
(***************************************************************************)
EXTENDS Retrieval, ModelCache

CONSTANTS
    Budget,        \* bound: requests, edits, reloads and shutdowns per traffic
    MaxCrashes     \* bound: crashes

\* What a behaviour is about.  Only "settings" runs without --no-isolation, and
\* "documents" and "models" have one ingest policy.
Traffic == {"documents", "labels", "settings", "models"}

ASSUME ServingConstants == Budget \in [Traffic -> Nat] /\ MaxCrashes \in Nat

VARIABLES traffic, requests, crashes

settings == << isovars, cfgvars >>
servvars == << settings, classvars, ragvars, cachevars, traffic, requests, crashes >>

ServingInit ==
    /\ ReloadInit /\ ClassificationInit /\ RetrievalInit /\ CacheInit
    /\ traffic \in Traffic /\ requests = 0 /\ crashes = 0
    /\ traffic \in {"documents", "models"} => Read(file).ingest = "Allowlist"

\* Requests whose outcome depends on labels.
LabelledRequest ==
    \E j \in Jobs : Takes(j) /\ (ingest_document(j) \/ chat(j))

Counted == requests < Budget[traffic] /\ requests' = requests + 1

Request ==
    /\ Counted /\ life = "up"
    /\ \/ /\ traffic = "documents" /\ RetrievalRequest
          /\ UNCHANGED << settings, classvars, cachevars >>
       \/ /\ traffic = "labels" /\ LabelledRequest
          /\ UNCHANGED << settings, classvars, cachevars >>
       \/ /\ traffic = "labels" /\ ClassificationRequest
          /\ UNCHANGED << settings, ragvars, cachevars >>
       \/ /\ traffic = "settings" /\ (EditFile \/ sighup \/ reload_config)
          /\ UNCHANGED << classvars, ragvars, cachevars >>
       \/ /\ traffic = "models" /\ CacheRequest
          /\ UNCHANGED << settings, classvars, ragvars >>
    /\ UNCHANGED << traffic, crashes >>

Boot ==
    /\ Start /\ ClassificationStart /\ RetrievalStart
    /\ traffic = "settings" \/ launch' = {"no_isolation"}
    /\ UNCHANGED << cachevars, traffic, requests, crashes >>

Step ==
    /\ \/ RetrievalStep /\ UNCHANGED << settings, classvars, cachevars >>
       \/ ReloadStep /\ UNCHANGED << classvars, ragvars, cachevars >>
       \/ CacheStep /\ UNCHANGED << settings, classvars, ragvars >>
    /\ UNCHANGED << traffic, requests, crashes >>

Probing ==
    /\ Probe \/ ProbeStored
    /\ UNCHANGED << classvars, ragvars, cachevars, traffic, requests, crashes >>

Crash ==
    /\ crashes < MaxCrashes /\ crashes' = crashes + 1
    /\ ReloadCrash /\ ClassificationCrash /\ RetrievalCrash /\ CacheCrash
    /\ UNCHANGED << traffic, requests >>

\* Requests in flight are served to their end first.
Shutdown ==
    /\ Counted
    /\ \A j \in Jobs : jobs[j] = Free
    /\ \A c \in Calls : calls[c] = NoCall
    /\ shutdown /\ CacheCrash /\ UNCHANGED << classvars, ragvars, traffic, crashes >>

\* The probe's timer fires for ever.
ServingSpec ==
    /\ ServingInit
    /\ [][Request \/ Boot \/ Step \/ Probing \/ Crash \/ Shutdown]_servvars
    /\ WF_servvars(Probing)

\* Every variable holds a value of the kind the code gives it; the isolator is
\* locked exactly while a start or a reload works with it.
ServingTypeOK ==
    /\ ReloadTypeOK /\ ClassificationTypeOK /\ RetrievalTypeOK /\ CacheTypeOK
    /\ requests \in 0 .. Budget[traffic] /\ crashes \in 0 .. MaxCrashes

\* The settings a daemon serves with are of one reading of config.toml and of its
\* command line, and all its state is well-formed.
SettingsInForce == ServingTypeOK /\ SettingsAgree /\ FlagsOutliveReloads
=============================================================================
