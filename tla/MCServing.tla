----------------------------- MODULE MCServing -----------------------------
(* Model values and bounds for Serving. *)
EXTENDS Serving

CONSTANTS mirror, dns, c1, c2, w1, m1, m2, m3

Config(mode, port, hosts, ingest, key) ==
    [mode |-> mode, api_port |-> port, whitelist |-> hosts, ingest |-> ingest,
     admin_key |-> key, log_prompts |-> FALSE]

MCHosts        == {mirror, dns}
MCProbeTargets == {dns}
MCWorkers      == {"start", "sighup", "admin"}
MCConfigs ==
    {Config("Whitelist", 11984, {mirror}, "Allowlist", TRUE),
     Config("Disabled", 11984, {}, "AdminOnly", TRUE)}
MCLaunches    == {{"no_isolation"}, {"admin_key", "log_prompts"}}
MCCollections == {c1, c2}
MCWorkspaces  == {w1}
MCPaths       == {m1, m2, m3}
MCSpaces      == {[label |-> "minilm", dim |-> 1], [label |-> "bge", dim |-> 1]}

MCBudget      == [documents |-> 3, labels |-> 3, settings |-> 4, models |-> 5]
=============================================================================
