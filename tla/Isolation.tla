----------------------------- MODULE Isolation -----------------------------
(***************************************************************************)
(* The isolator, the host's firewall and the probe.  An isolator holds an  *)
(* isolation config and rewrites the OUTPUT chain with iptables commands,  *)
(* any of which may fail; the kernel keeps the rules when the daemon dies. *)
(* Who works with the isolator (a start or a reload) holds its lock, but   *)
(* packets, the probe and requests do not wait for the lock: every command *)
(* is a step.  The chain is that of IPv4: ip6tables is never run, and what *)
(* the host lets out over IPv6 is beyond the daemon.  INPUT rules and the  *)
(* source addresses of the API are left out.                               *)
(***************************************************************************)
EXTENDS Integers, FiniteSets

CONSTANTS
    Hosts,          \* destinations a whitelist can name
    ProbeTargets,   \* destinations the probe tries
    Configs,        \* what the administrator may write into config.toml
    Workers,        \* who may hold the isolator: the start and the reloads
    Nobody

ASSUME IsolationConstants == Nobody \notin Workers

VARIABLES
    isolator,   \* Isolator.config, as part of the config it came from
    output,     \* policy of the OUTPUT chain
    allowed,    \* destinations with an ACCEPT rule
    holder,     \* who holds the isolator's lock
    step,       \* what the holder does next
    todo,       \* whitelist entries the holder has still to add
    kept,       \* history: rules no flush has taken away
    refused,    \* history: the last attempt to set the policy failed
    isolation_ok,
    seen        \* what a running probe has found, not yet stored

isovars == << isolator, output, allowed, holder, step, todo, kept, refused,
              isolation_ok, seen >>

Modes == {"AirGap", "Whitelist", "Disabled"}

\* An isolation config may let these destinations through.
Entries(c) == IF c.mode = "Whitelist" THEN c.whitelist ELSE {}

\* The holder's call of the isolator returned.
Returned(w) == holder = w /\ step \in {"ok", "failed"}

----------------------------------------------------------------------------
(* Isolator::apply on its lock, after the config was set. *)
ApplyNext(c) == IF c.mode = "Disabled" THEN "ok" ELSE "drop"

\* A new process: the firewall is as its predecessor left it.
StartIsolator(w, c) ==
    /\ holder' = w /\ isolator' = c
    /\ step' = ApplyNext(c)
    /\ kept' = allowed
    /\ UNCHANGED << output, allowed, todo, refused, isolation_ok, seen >>

\* Mutant: only the port is compared.
FlushesForPort(c) == c.api_port # isolator.api_port

\* reconfigure flushes only for another mode or another port.
Flushes(c) == c.mode # isolator.mode \/ c.api_port # isolator.api_port

reconfigure(w, c) ==
    /\ holder = Nobody /\ holder' = w
    /\ isolator' = c
    /\ step' = IF Flushes(c) THEN "flush" ELSE ApplyNext(c)
    /\ kept' = IF c.mode = isolator.mode /\ c.api_port = isolator.api_port
                 THEN kept \cup allowed ELSE {}
    /\ UNCHANGED << output, allowed, todo, refused, isolation_ok, seen >>

\* The chain is being rewritten from scratch: it may be open.
Rewriting == step \in {"flush", "open", "redrop"}

\* remove_rules flushes the chains and then opens them; it ignores errors.
remove_rules ==
    /\ step = "flush" /\ step' = "open"
    /\ \/ allowed' = {} /\ UNCHANGED kept
       \/ kept' = allowed /\ UNCHANGED allowed
    /\ UNCHANGED << isolator, output, holder, todo, refused, isolation_ok, seen >>

OpenPolicy ==
    /\ step = "open"
    /\ step' = IF ApplyNext(isolator) = "drop" THEN "redrop" ELSE "ok"
    /\ output' \in {"ACCEPT", output}
    /\ UNCHANGED << isolator, allowed, holder, todo, kept, refused, isolation_ok,
                    seen >>

\* The policies come first: from here on only listed destinations are open.
apply_air_gap ==
    /\ step \in {"drop", "redrop"}
    /\ \/ output' = "DROP" /\ refused' = FALSE /\ step' = "allow"
          /\ todo' = Entries(isolator)
       \/ output' \in {output, "DROP"} /\ refused' = (output' # "DROP")
          /\ step' = "failed" /\ UNCHANGED todo
    /\ UNCHANGED << isolator, allowed, holder, kept, isolation_ok, seen >>

\* insert_if_absent for the next entry.
apply_whitelist ==
    /\ step = "allow"
    /\ \/ \E h \in todo :
            /\ todo' = todo \ {h} /\ allowed' = allowed \cup {h}
            /\ UNCHANGED step
       \/ todo # {} /\ todo' = {} /\ step' = "failed" /\ UNCHANGED allowed
       \/ todo = {} /\ step' = "ok" /\ UNCHANGED << todo, allowed >>
    /\ UNCHANGED << isolator, output, holder, kept, refused, isolation_ok, seen >>

IsolatorStep == remove_rules \/ OpenPolicy \/ apply_air_gap \/ apply_whitelist

\* The holder gives the isolator back.
Release(w) == Returned(w) /\ holder' = Nobody /\ step' = "idle"

----------------------------------------------------------------------------
(* The probe loop: it connects for some seconds and then stores the result. *)
Reachable == output = "ACCEPT" \/ ProbeTargets \cap allowed # {}

run_probe(air_gap) ==
    /\ seen = "nothing" /\ air_gap
    /\ seen' = IF Reachable THEN "egress" ELSE "silence"
    /\ UNCHANGED << isolator, output, allowed, holder, step, todo, kept, refused,
                    isolation_ok >>

\* Mutant: a broken air-gap is never found whole again.
StoreProbeBroken ==
    /\ seen # "nothing" /\ seen' = "nothing"
    /\ isolation_ok' = (isolation_ok /\ seen = "silence")
    /\ UNCHANGED << isolator, output, allowed, holder, step, todo, kept, refused >>

StoreProbe ==
    /\ seen # "nothing" /\ seen' = "nothing"
    /\ isolation_ok' = (seen = "silence")
    /\ UNCHANGED << isolator, output, allowed, holder, step, todo, kept, refused >>

----------------------------------------------------------------------------
IsolationTypeOK ==
    /\ output \in {"ACCEPT", "DROP"} /\ allowed \subseteq Hosts
    /\ kept \subseteq Hosts /\ todo \subseteq Hosts
    /\ holder \in Workers \cup {Nobody}
    /\ step \in {"idle", "flush", "open", "redrop", "drop", "allow", "ok", "failed"}
    /\ (holder = Nobody) = (step = "idle")
    /\ refused \in BOOLEAN /\ isolation_ok \in BOOLEAN
    /\ seen \in {"nothing", "egress", "silence"}
=============================================================================
