--------------------------- MODULE IncidentProofs ---------------------------
(***************************************************************************)
(* Proofs about Incident and BreakGlass, for every number of handlers,     *)
(* credentials and crashes.                                                *)
(***************************************************************************)
EXTENDS IncidentResponse, TLAPS

\* ActiveIsFrozen is not inductive: that DeclareEnds may store an active phase
\* and that ResolveEnds may clear the flag has to be known from the handler
\* that holds the lock.
FreezeInv ==
    /\ ActiveIsFrozen
    /\ op = "declare" => audit_frozen
    /\ op = "resolve" => phase = "resolved"
    /\ ~up => phase = "none" /\ op = "none"

\* Every step keeps FreezeInv, action by action.
LEMMA FreezeInvNext == FreezeInv /\ [Next]_vars => FreezeInv'
<1> SUFFICES ASSUME FreezeInv, [Next]_vars PROVE FreezeInv'
  OBVIOUS
<1> USE DEF FreezeInv, ActiveIsFrozen
<1>1. CASE Declare
  BY <1>1 DEF Declare, Begin
<1>2. CASE DeclareEnds
  BY <1>2 DEF DeclareEnds
<1>3. CASE Investigate
  BY <1>3 DEF Investigate, Begin, Active
<1>4. CASE InvestigateEnds
  BY <1>4 DEF InvestigateEnds
<1>5. CASE Resolve
  BY <1>5 DEF Resolve, Begin, Active
<1>6. CASE ResolveEnds
  BY <1>6 DEF ResolveEnds, Active
<1>7. CASE Disconnect
  BY <1>7 DEF Disconnect
<1>8. ASSUME NEW w \in writes, Open(w) \/ WriteAll(w) \/ WriteFails(w)
      PROVE  FreezeInv'
  BY <1>8 DEF Open, WriteAll, WriteFails
<1>9. CASE Crash
  BY <1>9 DEF Crash, Active
<1>10. CASE Restart
  BY <1>10 DEF Restart, Active
<1>11. CASE Status \/ UNCHANGED vars
  BY <1>11 DEF Status, vars
<1> QED
  BY <1>1, <1>2, <1>3, <1>4, <1>5, <1>6, <1>7, <1>8, <1>9, <1>10, <1>11 DEF Next, Serve

\* Whatever handlers are dropped, writes fail and crashes happen, inference is
\* suspended whenever the incident in memory is active.
THEOREM ActiveIncidentFreezes == Spec => []ActiveIsFrozen
<1>1. Init => FreezeInv
  BY DEF Init, FreezeInv, ActiveIsFrozen, Active
<1>2. FreezeInv /\ [Next]_vars => FreezeInv'
  BY FreezeInvNext
<1>3. FreezeInv => ActiveIsFrozen
  BY DEF FreezeInv
<1> QED
  BY <1>1, <1>2, <1>3, PTL DEF Spec

-----------------------------------------------------------------------------
(* Restarts.  Until a handler is dropped or a write fails or is cut short, *)
(* at most one write is under way, on behalf of the handler that holds the *)
(* lock, and the file is torn only while it is open.                       *)

\* The phase a handler persists.
Target(handler) ==
    CASE handler = "declare" -> "declared"
      [] handler = "investigate" -> "investigating"
      [] OTHER -> "resolved"

OneWrite ==
    /\ writes \subseteq [n: Nat, to: Phases, open: BOOLEAN]
    /\ op = "none" => writes = {}
    /\ \A w \in writes : w.n = ops /\ w.to = Target(op) /\ (w.open => file = "torn")
    /\ \A v, w \in writes : v = w

InForce ==
    /\ op = "declare" /\ writes = {} /\ ~spoiled => file = "declared"
    /\ acked /\ ~spoiled =>
         /\ op \in {"none", "investigate"}
         /\ up => phase \in Active
         /\ file \in Active \/ \E w \in writes : w.open

Suspended ==
    /\ failed = FALSE
    /\ audit_frozen => phase \in Active \/ op \in {"declare", "resolve"}

Unspoiled == OneWrite /\ InForce /\ Suspended

KeepInv ==
    /\ ops \in Nat /\ spoiled \in BOOLEAN
    /\ FreezeInv
    /\ ~spoiled => Unspoiled

\* A handler starts only when no write is under way, and starts one.
LEMMA BeginOneWrite ==
    ASSUME ops \in Nat, OneWrite, NEW h \in {"declare", "investigate", "resolve"},
           Begin(h, Target(h)), file' = file
    PROVE  OneWrite' /\ ops' \in Nat /\ writes' # {} /\ \A w \in writes' : ~w.open
<1> DEFINE new == [n |-> ops + 1, to |-> Target(h), open |-> FALSE]
<1>1. ops' = ops + 1 /\ ops' \in Nat /\ op' = h /\ writes' = {new}
  BY DEF OneWrite, Begin
<1>2. Target(h) \in Phases
  BY DEF Target, Phases, Active
<1>3. new \in [n: Nat, to: Phases, open: BOOLEAN]
  BY <1>1, <1>2
<1>4. new.n = ops + 1 /\ new.to = Target(h) /\ new.open = FALSE
  OBVIOUS
<1> HIDE DEF new
<1> QED
  BY <1>1, <1>3, <1>4 DEF OneWrite

\* When the handler's write has ended there is none.
LEMMA PersistedEmpty ==
    ASSUME OneWrite, Persisted
    PROVE  writes = {}
  BY DEF OneWrite, Persisted

\* Every step that spoils nothing keeps Unspoiled, action by action.
LEMMA UnspoiledNext ==
    ASSUME FreezeInv, Unspoiled, ops \in Nat, ~spoiled, [Next]_vars, ~spoiled'
    PROVE  Unspoiled' /\ ops' \in Nat
<1> USE DEF Unspoiled
<1>2. CASE Declare
  <2>1. Begin("declare", Target("declare")) /\ file' = file
    BY <1>2 DEF Declare, Target
  <2>2. OneWrite' /\ ops' \in Nat /\ writes' # {}
    BY <2>1, BeginOneWrite
  <2>3. ~acked
    BY <1>2 DEF Declare, Begin, InForce, FreezeInv
  <2>4. InForce'
    BY <1>2, <2>2, <2>3 DEF Declare, InForce
  <2>5. Suspended'
    BY <1>2 DEF Declare, Begin, Suspended
  <2> QED
    BY <2>2, <2>4, <2>5
<1>3. CASE DeclareEnds
  <2>1. writes = {}
    BY <1>3, PersistedEmpty DEF DeclareEnds
  <2>2. OneWrite'
    BY <1>3, <2>1 DEF DeclareEnds, OneWrite
  <2>3. file = "declared"
    BY <1>3, <2>1 DEF DeclareEnds, InForce
  <2>4. InForce'
    BY <1>3, <2>3 DEF DeclareEnds, InForce, Active
  <2>5. Suspended' /\ ops' \in Nat
    BY <1>3 DEF DeclareEnds, Suspended, Active
  <2> QED
    BY <2>2, <2>4, <2>5
<1>4. CASE Investigate
  <2>1. Begin("investigate", Target("investigate")) /\ file' = file
    BY <1>4 DEF Investigate, Target
  <2>2. OneWrite' /\ ops' \in Nat
    BY <2>1, BeginOneWrite
  <2>3. writes = {}
    BY <2>1 DEF Begin, OneWrite
  <2>4. InForce'
    BY <1>4, <2>1, <2>3 DEF Investigate, Begin, InForce, Active
  <2>5. Suspended'
    BY <1>4 DEF Investigate, Begin, Suspended, Active
  <2> QED
    BY <2>2, <2>4, <2>5
<1>5. CASE InvestigateEnds
  <2>1. writes = {}
    BY <1>5, PersistedEmpty DEF InvestigateEnds
  <2>2. OneWrite'
    BY <1>5, <2>1 DEF InvestigateEnds, OneWrite
  <2>3. InForce'
    BY <1>5, <2>1 DEF InvestigateEnds, InForce
  <2>4. Suspended' /\ ops' \in Nat
    BY <1>5 DEF InvestigateEnds, Suspended
  <2> QED
    BY <2>2, <2>3, <2>4
<1>6. CASE Resolve
  <2>1. Begin("resolve", Target("resolve")) /\ file' = file
    BY <1>6 DEF Resolve, Target
  <2>2. OneWrite' /\ ops' \in Nat
    BY <2>1, BeginOneWrite
  <2>3. InForce'
    BY <1>6 DEF Resolve, Begin, InForce
  <2>4. Suspended'
    BY <1>6 DEF Resolve, Begin, Suspended
  <2> QED
    BY <2>2, <2>3, <2>4
<1>7. CASE ResolveEnds
  <2>1. writes = {}
    BY <1>7, PersistedEmpty DEF ResolveEnds
  <2>2. OneWrite'
    BY <1>7, <2>1 DEF ResolveEnds, OneWrite
  <2>3. InForce'
    BY <1>7, <2>1 DEF ResolveEnds, InForce
  <2>4. Suspended' /\ ops' \in Nat
    BY <1>7 DEF ResolveEnds, Suspended
  <2> QED
    BY <2>2, <2>3, <2>4
<1>8. ASSUME NEW w \in writes, Open(w) PROVE Unspoiled' /\ ops' \in Nat
  <2> DEFINE new == [w EXCEPT !.open = TRUE]
  <2>1. writes' = {new} /\ file' = "torn"
    BY <1>8 DEF Open, OneWrite
  <2>2. w \in [n: Nat, to: Phases, open: BOOLEAN] /\ w.n = ops /\ w.to = Target(op)
    BY DEF OneWrite
  <2>3. /\ new \in [n: Nat, to: Phases, open: BOOLEAN]
        /\ new.n = ops /\ new.to = Target(op) /\ new.open
    BY <2>2
  <2>4. op # "none"
    BY DEF OneWrite
  <2> HIDE DEF new
  <2>5. OneWrite'
    BY <1>8, <2>1, <2>3, <2>4 DEF OneWrite, Open
  <2>6. InForce'
    BY <1>8, <2>1, <2>3 DEF InForce, Open
  <2>7. Suspended' /\ ops' \in Nat
    BY <1>8 DEF Open, Suspended
  <2> QED
    BY <2>5, <2>6, <2>7
<1>9. ASSUME NEW w \in writes, WriteAll(w) PROVE Unspoiled' /\ ops' \in Nat
  <2>1. writes' = {} /\ file = "torn" /\ w.to = Target(op)
    BY <1>9 DEF WriteAll, OneWrite
  <2>2. file' = Target(op)
    BY <1>9, <2>1 DEF WriteAll
  <2>3. op # "none"
    BY DEF OneWrite
  <2>4. OneWrite'
    BY <1>9, <2>1 DEF OneWrite, WriteAll
  <2>5. InForce'
    BY <1>9, <2>2, <2>3 DEF InForce, WriteAll, Target, Active
  <2>6. Suspended' /\ ops' \in Nat
    BY <1>9 DEF WriteAll, Suspended
  <2> QED
    BY <2>4, <2>5, <2>6
<1>10. CASE Crash
  <2>1. OneWrite'
    BY <1>10 DEF Crash, OneWrite
  <2>2. InForce'
    BY <1>10 DEF Crash, InForce
  <2>3. Suspended' /\ ops' \in Nat
    BY <1>10 DEF Crash, Suspended
  <2> QED
    BY <2>1, <2>2, <2>3
<1>11. CASE Restart
  <2>1. op = "none" /\ writes = {}
    BY <1>11 DEF Restart, FreezeInv, OneWrite
  <2>2. OneWrite'
    BY <1>11, <2>1 DEF Restart, OneWrite
  <2>3. InForce'
    BY <1>11, <2>1 DEF Restart, InForce, Phases
  <2>4. Suspended' /\ ops' \in Nat
    BY <1>11 DEF Restart, Suspended, Phases
  <2> QED
    BY <2>2, <2>3, <2>4
<1>12. CASE Status \/ UNCHANGED vars
  BY <1>12 DEF Status, vars, OneWrite, InForce, Suspended
<1> QED
  BY <1>2, <1>3, <1>4, <1>5, <1>6, <1>7, <1>8, <1>9, <1>10, <1>11, <1>12
  DEF Next, Serve, Disconnect, WriteFails

\* A state that is spoiled stays so.
LEMMA SpoiledStays ==
    ASSUME ops \in Nat, spoiled \in BOOLEAN, [Next]_vars
    PROVE  ops' \in Nat /\ spoiled' \in BOOLEAN /\ (spoiled => spoiled')
<1>1. CASE Declare \/ Investigate \/ Resolve
  <2>1. ops' = ops + 1 /\ spoiled' = spoiled
    BY <1>1 DEF Declare, Investigate, Resolve, Begin
  <2> QED
    BY <2>1
<1>2. CASE Disconnect \/ \E w \in writes : WriteFails(w)
  <2>1. ops' = ops /\ spoiled' = TRUE
    BY <1>2 DEF Disconnect, WriteFails
  <2> QED
    BY <2>1
<1>3. CASE Crash
  <2>1. ops' = ops /\ spoiled' = (spoiled \/ \E w \in writes : w.open)
    BY <1>3 DEF Crash
  <2> QED
    BY <2>1
<1>4. CASE \/ Status \/ DeclareEnds \/ InvestigateEnds \/ ResolveEnds \/ Restart
           \/ UNCHANGED vars \/ \E w \in writes : Open(w) \/ WriteAll(w)
  <2>1. ops' = ops /\ spoiled' = spoiled
    BY <1>4 DEF Status, DeclareEnds, InvestigateEnds, ResolveEnds, Restart, vars,
                Open, WriteAll
  <2> QED
    BY <2>1
<1> QED
  BY <1>1, <1>2, <1>3, <1>4 DEF Next, Serve

\* KeepInv is an invariant of the incident workflow.
LEMMA KeepInvAlways == Spec => []KeepInv
<1>1. Init => KeepInv
  <2> SUFFICES ASSUME Init PROVE KeepInv
    OBVIOUS
  <2>1. FreezeInv
    BY DEF Init, FreezeInv, ActiveIsFrozen, Active
  <2>2. OneWrite
    BY DEF Init, OneWrite
  <2>3. InForce /\ Suspended
    BY DEF Init, InForce, Suspended
  <2>4. ops \in Nat /\ spoiled \in BOOLEAN
    BY DEF Init
  <2> QED
    BY <2>1, <2>2, <2>3, <2>4 DEF KeepInv, Unspoiled
<1>2. KeepInv /\ [Next]_vars => KeepInv'
  <2> SUFFICES ASSUME KeepInv, [Next]_vars PROVE KeepInv'
    OBVIOUS
  <2>1. FreezeInv'
    BY FreezeInvNext DEF KeepInv
  <2>2. ops' \in Nat /\ spoiled' \in BOOLEAN /\ (spoiled => spoiled')
    BY SpoiledStays DEF KeepInv
  <2>3. ~spoiled' => Unspoiled'
    BY <2>2, UnspoiledNext DEF KeepInv
  <2> QED
    BY <2>1, <2>2, <2>3 DEF KeepInv
<1> QED
  BY <1>1, <1>2, PTL DEF Spec

\* An incident whose declaration was answered stays in force across any number
\* of restarts until resolve is called, unless a handler was dropped by its
\* client or a write of incident-state.json failed or was cut short.
THEOREM FreezeOutlivesRestarts == Spec => []FreezeKeptByFile
<1>1. KeepInv => FreezeKeptByFile
  BY DEF KeepInv, Unspoiled, InForce, FreezeInv, ActiveIsFrozen, FreezeKeptByFile
<1> QED
  BY <1>1, KeepInvAlways, PTL

\* With the same exceptions inference is suspended between handlers only while
\* there is an incident that resolve can end.
THEOREM NoFreezeWithoutIncident == Spec => []FrozenIsActive
<1>1. KeepInv => FrozenIsActive
  BY DEF KeepInv, Unspoiled, Suspended, FrozenIsActive
<1> QED
  BY <1>1, KeepInvAlways, PTL

-----------------------------------------------------------------------------
(* Break-glass credentials. *)

\* Every step keeps the types.
LEMMA TypeOKNext == TypeOK /\ [Next]_vars => TypeOK'
<1> SUFFICES ASSUME TypeOK, [Next]_vars PROVE TypeOK'
  OBVIOUS
<1>1. MaxOps \in Nat /\ MaxCrashes \in Nat /\ ops \in 0 .. MaxOps /\ writes \subseteq Write
  BY IncidentConstants DEF TypeOK
<1>2. ASSUME NEW h, NEW p \in Phases, Begin(h, p)
      PROVE  ops' \in 0 .. MaxOps /\ writes' \subseteq Write /\ op' = h /\ failed' = FALSE
  <2>1. ops + 1 \in 1 .. MaxOps /\ ops' = ops + 1
    BY <1>1, <1>2 DEF Begin
  <2>2. [n |-> ops + 1, to |-> p, open |-> FALSE] \in Write
    BY <2>1 DEF Write
  <2>3. writes' \subseteq Write
    BY <1>1, <1>2, <2>2 DEF Begin
  <2> QED
    BY <1>1, <1>2, <2>1, <2>3 DEF Begin
<1>3. CASE Declare \/ Investigate \/ Resolve
  <2>1. {"declared", "investigating", "resolved"} \subseteq Phases
    BY DEF Phases, Active
  <2>2. CASE Declare
    BY <1>2, <2>1, <2>2 DEF Declare, TypeOK
  <2>3. CASE Investigate
    BY <1>2, <2>1, <2>3 DEF Investigate, TypeOK
  <2>4. CASE Resolve
    BY <1>2, <2>1, <2>4 DEF Resolve, TypeOK
  <2> QED
    BY <1>3, <2>2, <2>3, <2>4
<1>4. CASE DeclareEnds \/ InvestigateEnds \/ ResolveEnds \/ Disconnect \/ Status
             \/ UNCHANGED vars
  <2>1. CASE DeclareEnds
    BY <2>1 DEF DeclareEnds, TypeOK, Phases, Active
  <2>2. CASE InvestigateEnds
    BY <2>2 DEF InvestigateEnds, TypeOK
  <2>3. CASE ResolveEnds
    <3>1. audit_frozen' \in BOOLEAN
      BY <2>3, Zenon DEF ResolveEnds
    <3> QED
      BY <2>3, <3>1 DEF ResolveEnds, TypeOK
  <2>4. CASE Disconnect
    BY <2>4 DEF Disconnect, TypeOK
  <2>5. CASE Status \/ UNCHANGED vars
    BY <2>5 DEF Status, vars, TypeOK
  <2> QED
    BY <1>4, <2>1, <2>2, <2>3, <2>4, <2>5
<1>5. ASSUME NEW w \in writes, Open(w) PROVE TypeOK'
  <2>1. [w EXCEPT !.open = TRUE] \in Write
    BY <1>1 DEF Write
  <2> QED
    BY <1>1, <1>5, <2>1 DEF Open, TypeOK
<1>6. ASSUME NEW w \in writes, WriteAll(w) PROVE TypeOK'
  <2>1. w.to \in Phases
    BY <1>1 DEF Write
  <2> QED
    BY <1>1, <1>6, <2>1 DEF WriteAll, TypeOK
<1>7. ASSUME NEW w \in writes, WriteFails(w) PROVE TypeOK'
  BY <1>1, <1>7 DEF WriteFails, TypeOK
<1>8. CASE Crash
  <2>1. crashes' \in 0 .. MaxCrashes
    BY <1>1, <1>8 DEF Crash, TypeOK
  <2>2. spoiled' \in BOOLEAN
    BY <1>8, Zenon DEF Crash, TypeOK
  <2> QED
    BY <1>8, <2>1, <2>2 DEF Crash, TypeOK
<1>9. CASE Restart
  BY <1>9 DEF Restart, TypeOK
<1> QED
  BY <1>3, <1>4, <1>5, <1>6, <1>7, <1>8, <1>9 DEF Next, Serve

\* The daemon with its credentials is a daemon with incidents: what is proved of
\* Spec holds of it.
LEMMA ResponseStep == [ResponseNext]_<< vars, bgvars >> => [Next]_vars
BY DEF ResponseNext, Next

\* A credential that can still be accepted has not been.  One that is being generated
\* is nobody else's, one that is being saved as used cannot become unused again, and
\* unless two uses met there is one request that uses it.
CredentialsInv ==
    /\ bg_file \in [Creds -> {"none", "torn", "unused", "used"}]
    /\ bg_at \in [Callers -> {"idle", "generate", "generating", "use", "using", "done"}]
    /\ bg_cred \in [Callers -> Creds] /\ bg_uses \in [Creds -> Nat] /\ bg_met \subseteq Creds
    /\ SingleUse
    /\ \A c \in Creds : bg_file[c] \in {"none", "unused"} => bg_uses[c] = 0
    /\ \A u \in Callers : bg_at[u] \in {"generate", "generating"} =>
         /\ bg_uses[bg_cred[u]] = 0 /\ bg_file[bg_cred[u]] \in {"none", "torn"}
         /\ \A v \in Callers : bg_at[v] # "idle" /\ bg_cred[v] = bg_cred[u] => v = u
    /\ \A u \in Callers : bg_at[u] \in {"using", "done"} =>
         bg_file[bg_cred[u]] \in {"torn", "used"}
    /\ \A c \in Creds \ bg_met, u \in Callers : BG!Using(u, c) =>
         /\ bg_uses[c] = 0
         /\ \A v \in Callers : BG!Using(v, c) => v = u

\* Every step keeps CredentialsInv, action by action.
LEMMA CredentialsNext ==
  ASSUME CredentialsInv, [ResponseNext]_<< vars, bgvars >>
  PROVE  CredentialsInv'
<1> USE DEF CredentialsInv, SingleUse, BG!SingleUse, BG!Using
<1>1. ASSUME NEW u \in Callers, NEW c \in Creds, BG!Generate(u, c) PROVE CredentialsInv'
  BY <1>1 DEF BG!Generate
<1>2. ASSUME NEW u \in Callers, NEW c \in Creds, BG!Verify(u, c) PROVE CredentialsInv'
  BY <1>2 DEF BG!Verify
<1>3. ASSUME NEW u \in Callers, NEW c \in Creds, BG!Refuse(u, c) PROVE CredentialsInv'
  BY <1>3 DEF BG!Refuse, BG!vars
<1>4. ASSUME NEW u \in Callers, BG!Truncate(u) PROVE CredentialsInv'
  BY <1>4 DEF BG!Truncate
<1>5. ASSUME NEW u \in Callers, BG!Save(u) PROVE CredentialsInv'
  BY <1>5 DEF BG!Save
<1>6. ASSUME NEW u \in Callers, BG!Granted(u) PROVE CredentialsInv'
  BY <1>6 DEF BG!Granted
<1>7. CASE BG!Crash
  BY <1>7 DEF BG!Crash
<1>8. CASE UNCHANGED bgvars
  BY <1>8 DEF bgvars
<1> QED
  BY <1>1, <1>2, <1>3, <1>4, <1>5, <1>6, <1>7, <1>8 DEF ResponseNext, BG!Serve

\* Any number of credentials, of requests under way together and of crashes, wherever
\* they fall between the check of is_used, the truncation of the file and its rewriting:
\* a credential is accepted twice only by requests that overlapped, since nothing in
\* the code orders two bg_use, and after an answer it is never accepted again.
THEOREM CredentialsUsedOnce == ResponseSpec => []CredentialsSound
<1>1. ResponseInit => TypeOK /\ CredentialsInv
  <2> SUFFICES ASSUME ResponseInit PROVE TypeOK /\ CredentialsInv
    OBVIOUS
  <2>1. TypeOK
    <3>1. MaxOps \in Nat /\ MaxCrashes \in Nat
      BY IncidentConstants
    <3>2. 0 \in 0 .. MaxOps /\ 0 \in 0 .. MaxCrashes
      BY <3>1
    <3> QED
      BY <3>2 DEF ResponseInit, Init, TypeOK
  <2>2. CredentialsInv
    BY DEF ResponseInit, BG!Init, CredentialsInv, SingleUse, BG!SingleUse, BG!Using
  <2> QED
    BY <2>1, <2>2
<1>2. TypeOK /\ CredentialsInv /\ [ResponseNext]_<< vars, bgvars >>
        => TypeOK' /\ CredentialsInv'
  BY ResponseStep, TypeOKNext, CredentialsNext
<1>3. TypeOK /\ CredentialsInv => CredentialsSound
  BY DEF CredentialsInv, CredentialsSound
<1> QED
  BY <1>1, <1>2, <1>3, PTL DEF ResponseSpec
=============================================================================
