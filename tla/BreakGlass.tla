----------------------------- MODULE BreakGlass -----------------------------
(***************************************************************************)
(* Break-glass credentials of maranode-api: bg_generate, which saves a     *)
(* credential's file, and bg_use, which reads it, checks that it has not   *)
(* been used and saves it as used.  No lock is held between the two, and   *)
(* std::fs::write truncates the file before it writes it.                  *)
(***************************************************************************)
EXTENDS Naturals

CONSTANTS
    Creds,      \* credentials
    Callers     \* requests that may be under way together

VARIABLES
    file,   \* credential -> the content of its file
    at,     \* caller -> where its bg_generate or bg_use is
    cred,   \* caller -> the credential it names
    uses,   \* credential -> the times bg_use answered Ok
    met     \* history: credentials on which two uses were under way together

vars == << file, at, cred, uses, met >>

Init ==
    /\ file = [c \in Creds |-> "none"]
    /\ at = [u \in Callers |-> "idle"]
    /\ cred \in [Callers -> Creds]
    /\ uses = [c \in Creds |-> 0] /\ met = {}

-----------------------------------------------------------------------------
\* bg_generate: a fresh credential.
Generate(u, c) ==
    /\ at[u] = "idle" /\ file[c] = "none"
    /\ \A v \in Callers : at[v] # "idle" => cred[v] # c
    /\ at' = [at EXCEPT ![u] = "generate"]
    /\ cred' = [cred EXCEPT ![u] = c]
    /\ UNCHANGED << file, uses, met >>

\* A request that has found credential c unused and has not answered yet.
Using(u, c) == at[u] \in {"use", "using", "done"} /\ cred[u] = c

\* verify_and_consume_break_glass, up to the check of is_used.  A file that is
\* being written does not parse and is skipped.
Verify(u, c) ==
    /\ at[u] = "idle" /\ file[c] = "unused"
    /\ at' = [at EXCEPT ![u] = "use"]
    /\ cred' = [cred EXCEPT ![u] = c]
    /\ met' = IF \E v \in Callers : Using(v, c) THEN met \cup {c} ELSE met
    /\ UNCHANGED << file, uses >>

\* save_break_glass_cred: the file is truncated ...
Truncate(u) ==
    /\ at[u] \in {"generate", "use"}
    /\ file' = [file EXCEPT ![cred[u]] = "torn"]
    /\ at' = [at EXCEPT ![u] = IF at[u] = "use" THEN "using" ELSE "generating"]
    /\ UNCHANGED << cred, uses, met >>

\* Mutant of Save: used_at is not set.
SaveUnused(u) ==
    /\ at[u] \in {"generating", "using"}
    /\ file' = [file EXCEPT ![cred[u]] = "unused"]
    /\ at' = [at EXCEPT ![u] = IF at[u] = "using" THEN "done" ELSE "idle"]
    /\ UNCHANGED << cred, uses, met >>

\* ... and written.
Save(u) ==
    /\ at[u] \in {"generating", "using"}
    /\ file' = [file EXCEPT ![cred[u]] =
                  IF at[u] = "using" THEN "used" ELSE "unused"]
    /\ at' = [at EXCEPT ![u] = IF at[u] = "using" THEN "done" ELSE "idle"]
    /\ UNCHANGED << cred, uses, met >>

\* bg_use records the use (an error is ignored) and answers.
Granted(u) ==
    /\ at[u] = "done"
    /\ at' = [at EXCEPT ![u] = "idle"]
    /\ uses' = [uses EXCEPT ![cred[u]] = @ + 1]
    /\ UNCHANGED << file, cred, met >>

\* A token that is not found or has been used is refused.
Refuse(u, c) ==
    /\ at[u] = "idle" /\ file[c] # "unused"
    /\ UNCHANGED vars

\* The daemon crashes: the requests are gone, the files stay.
Crash ==
    /\ at' = [u \in Callers |-> "idle"]
    /\ UNCHANGED << file, cred, uses, met >>

Serve ==
    \E u \in Callers :
        \/ \E c \in Creds : Generate(u, c) \/ Verify(u, c) \/ Refuse(u, c)
        \/ Truncate(u) \/ Save(u) \/ Granted(u)

\* No credential has been accepted twice, but by requests that overlapped, and one
\* that was accepted is refused from then on.
SingleUse ==
    /\ \A c \in Creds \ met : uses[c] <= 1
    /\ \A c \in Creds : uses[c] > 0 => file[c] # "unused"
=============================================================================
