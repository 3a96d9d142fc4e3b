-------------------------- MODULE KeyCustodyProofs --------------------------
(***************************************************************************)
(* Proofs about the custody of the master key, for any number of keys,     *)
(* passphrases, PCR lists, platforms and workspaces.                       *)
(***************************************************************************)
EXTENDS KeyCustody, TLAPS

-----------------------------------------------------------------------------
(* What the helpers of sealing return *)

\* A sealing is a job (seal is called with these arguments).
LEMMA SealingIsJob ==
    ASSUME NEW op \in {"start", "seal", "rotate", "import"}, NEW k \in Material,
           NEW list \in PcrLists \cup {None}, NEW pass \in Passphrases
    PROVE  /\ Sealing(op, k, list, pass) \in Job
           /\ Sealing(op, k, list, pass).key = k
           /\ Sealing(op, k, list, pass).op = op
           /\ Sealing(op, k, list, pass).file # "plain"
  BY DEF Sealing, Job, first_file

\* unseal returns key material or fails, and what it returns is in one of the
\* two blobs.
LEMMA UnsealedIs ==
    ASSUME SealTypeOK, NEW pass \in Passphrases
    PROVE  /\ unsealed(pass) \in Material \cup {None}
           /\ unsealed(pass) # None =>
                /\ is_sealed
                /\ \/ sealed_bin \in Blob /\ sealed_bin.key = unsealed(pass)
                   \/ object \in Object /\ object.key = unsealed(pass)
  BY SealConstants DEF unsealed, SealTypeOK, seal_status, is_sealed, tpm2_unseal,
     software_unseal, Blob, Object

\* The counter stays within the lockout, and only the counter changes.
LEMMA CountAttemptTypes ==
    ASSUME SealTypeOK, NEW pass \in Passphrases, CountAttempt(pass)
    PROVE  /\ SealTypeOK'
           /\ UNCHANGED << meta, sealed_bin, object, platform >>
  <1>1. fails' \in 0..UNSEAL_FAIL_LOCKOUT
    <2>1. \/ fails' = fails
          \/ fails' = 0
          \/ fails # UNSEAL_FAIL_LOCKOUT /\ fails' = fails + 1
      BY DEF CountAttempt
    <2> QED  BY <2>1, SealConstants DEF SealTypeOK
  <1>2. cooling' \in BOOLEAN
    BY Zenon DEF CountAttempt, SealTypeOK
  <1>3. UNCHANGED << meta, sealed_bin, object, platform >>
    BY DEF CountAttempt
  <1> QED  BY <1>1, <1>2, <1>3 DEF SealTypeOK

-----------------------------------------------------------------------------
(* Types *)

\* What is known of a job beyond its type: a TPM sealing has a PCR list, the
\* daemon only ever seals or serves with a key, and master.key is written by a
\* start or by a shred of some workspace.
JobOK(j) ==
    /\ (j.file = "object" \/ j.backend = "tpm2") => j.pcr_list # None
    /\ j.op = "start" => j.key \in Keys
    /\ j.file = "plain" => /\ j.key \in Keys /\ j.backend = "software"
                           /\ \/ j.op = "start" /\ j.pcr_list # None
                              \/ j.op = "shred" /\ j.slug \in Slugs

TInv == KeyTypeOK /\ \A p \in Procs : job[p] # None => JobOK(job[p])

\* The file a job writes gets a value of its kind.
LEMMA SetFileTypes ==
    ASSUME SealTypeOK, NEW j \in Job, JobOK(j), NEW c,
           c = Torn \/ (j.file # "plain" /\ c = Content(j)),
           SetFile(j, c)
    PROVE  SealTypeOK'
  <1>1. UNCHANGED << fails, cooling, platform >>
    BY DEF SetFile
  <1>2. /\ j.file = "meta" => c \in SealMeta \cup {Torn}
        /\ j.file = "bin" => c \in Blob \cup {Torn}
        /\ j.file = "object" => c \in Object \cup {Torn}
    BY DEF Content, MetaOf, Job, JobOK, SealMeta, Blob, Object, SealTypeOK
  <1>3. /\ meta' \in SealMeta \cup {None, Torn}
        /\ sealed_bin' \in Blob \cup {None, Torn}
        /\ object' \in Object \cup {None, Torn}
    BY <1>2 DEF SetFile, SealTypeOK
  <1> QED  BY <1>1, <1>3 DEF SealTypeOK

\* A step that leaves the sealed copy alone keeps its types.
LEMMA SealUnchanged == SealTypeOK /\ UNCHANGED sealvars => SealTypeOK'
  <1> SUFFICES ASSUME SealTypeOK, UNCHANGED sealvars PROVE SealTypeOK'
    OBVIOUS
  <1>1. /\ meta' = meta /\ sealed_bin' = sealed_bin /\ object' = object
        /\ fails' = fails /\ cooling' = cooling /\ platform' = platform
    BY DEF sealvars
  <1> QED  BY <1>1 DEF SealTypeOK

\* A new installation has the types.
LEMMA InitTypes == Init => TInv
  <1> SUFFICES ASSUME Init PROVE TInv
    OBVIOUS
  <1>1. cooling \in BOOLEAN /\ spoiled \in BOOLEAN
    BY Zenon DEF Init, SealInit
  <1>2. SealTypeOK
    BY <1>1, SealConstants DEF Init, SealInit, SealTypeOK
  <1>3. /\ plain \in Keys \cup {None, Torn} /\ made \subseteq Keys
        /\ bundles \subseteq [key: Material, pass: Passphrases]
        /\ cfg \in Config /\ kek \in Keys \cup {None}
        /\ rows \in [Slugs -> Keys \cup {"absent", "destroyed"}]
        /\ job \in [Procs -> Job \cup {None}]
        /\ \A p \in Procs : job[p] = None
    BY DEF Init
  <1> QED  BY <1>1, <1>2, <1>3 DEF TInv, KeyTypeOK

\* Every step of a process that writes files keeps the types.
LEMMA WriteTypes ==
    ASSUME TInv, NEW p \in Procs,
           \/ OpenFile(p) \/ PlainWritten(p) \/ BlobWritten(p)
           \/ MetaWritten(p) \/ TpmFails(p) \/ SealFails(p)
    PROVE  TInv'
  <1> DEFINE j == job[p]
  <1>j. j \in Job /\ JobOK(j) /\ job \in [Procs -> Job \cup {None}] /\ SealTypeOK
    BY DEF TInv, KeyTypeOK, OpenFile, PlainWritten, BlobWritten, MetaWritten,
       TpmFails, SealFails
  <1>b. spoiled' \in BOOLEAN
    BY Zenon DEF TInv, KeyTypeOK, OpenFile, PlainWritten, BlobWritten, MetaWritten,
       TpmFails, SealFails
  <1>s. SealTypeOK'
    <2>1. CASE OpenFile(p)
      BY <2>1, <1>j, SetFileTypes DEF OpenFile
    <2>2. CASE BlobWritten(p) \/ MetaWritten(p)
      <3>1. j.file # "plain" /\ SetFile(j, Content(j))
        BY <2>2 DEF BlobWritten, MetaWritten
      <3> QED  BY <3>1, <1>j, SetFileTypes
    <2>3. CASE PlainWritten(p) \/ TpmFails(p) \/ SealFails(p)
      <3>1. UNCHANGED sealvars
        BY <2>3 DEF PlainWritten, TpmFails, SealFails
      <3> QED  BY <3>1, <1>j, SealUnchanged
    <2> QED  BY <2>1, <2>2, <2>3
  <1>f. /\ plain' \in Keys \cup {None, Torn} /\ made' \subseteq Keys
        /\ bundles' \subseteq [key: Material, pass: Passphrases]
        /\ cfg' \in Config /\ kek' \in Keys \cup {None}
        /\ rows' \in [Slugs -> Keys \cup {"absent", "destroyed"}]
    <2> USE <1>j DEF TInv, KeyTypeOK, JobOK
    <2>1. CASE OpenFile(p)
      BY <2>1 DEF OpenFile
    <2>2. CASE PlainWritten(p)
      BY <2>2 DEF PlainWritten
    <2>3. CASE BlobWritten(p) \/ TpmFails(p)
      BY <2>3 DEF BlobWritten, TpmFails
    <2>4. CASE MetaWritten(p) \/ SealFails(p)
      BY <2>4 DEF MetaWritten, SealFails, Sealed
    <2> QED  BY <2>1, <2>2, <2>3, <2>4
  <1>k. /\ job' \in [Procs -> Job \cup {None}]
        /\ \A q \in Procs : job'[q] # None => JobOK(job'[q])
    <2>o. \A q \in Procs : job[q] # None => JobOK(job[q])
      BY DEF TInv
    <2>1. CASE OpenFile(p)
      <3>1. job' = [job EXCEPT ![p] = [j EXCEPT !.open = TRUE]]
        BY <2>1, <1>j DEF OpenFile
      <3>2. [j EXCEPT !.open = TRUE] \in Job /\ JobOK([j EXCEPT !.open = TRUE])
        BY <1>j DEF Job, JobOK
      <3> QED  BY <3>1, <3>2, <2>o, <1>j
    <2>2. CASE PlainWritten(p)
      <3>1. CASE j.op = "start" /\ j.seals
              /\ job' = [job EXCEPT ![p] = Sealing("start", j.key, j.pcr_list, j.pass)]
        <4>1. j.key \in Keys /\ j.pcr_list \in PcrLists /\ j.pass \in Passphrases
          BY <3>1, <2>2, <1>j DEF PlainWritten, JobOK, Job
        <4>2. Sealing("start", j.key, j.pcr_list, j.pass) \in Job
          BY <4>1, SealingIsJob DEF Material
        <4>3. JobOK(Sealing("start", j.key, j.pcr_list, j.pass))
          BY <4>1, SealConstants DEF Sealing, JobOK, first_file
        <4> QED  BY <3>1, <4>2, <4>3, <2>o, <1>j
      <3>2. CASE job' = [job EXCEPT ![p] = None]
        BY <3>2, <2>o, <1>j
      <3> QED  BY <2>2, <3>1, <3>2 DEF PlainWritten
    <2>3. CASE BlobWritten(p)
      <3> DEFINE n == [j EXCEPT !.file = "meta", !.open = FALSE]
      <3>1. job' = [job EXCEPT ![p] = n]
        BY <2>3, <1>j DEF BlobWritten
      <3>2. n \in Job /\ JobOK(n)
        BY <2>3, <1>j DEF Job, JobOK, BlobWritten
      <3> QED  BY <3>1, <3>2, <2>o, <1>j
    <2>4. CASE TpmFails(p)
      <3> DEFINE n == [j EXCEPT !.backend = "software", !.file = "bin", !.open = FALSE]
      <3>1. job' = [job EXCEPT ![p] = n]
        BY <2>4, <1>j DEF TpmFails
      <3>2. n \in Job /\ JobOK(n)
        BY <1>j DEF Job, JobOK
      <3> QED  BY <3>1, <3>2, <2>o, <1>j
    <2>5. CASE MetaWritten(p) \/ SealFails(p)
      BY <2>5, <2>o, <1>j DEF MetaWritten, SealFails, Sealed
    <2> QED  BY <2>1, <2>2, <2>3, <2>4, <2>5
  <1> QED  BY <1>b, <1>s, <1>f, <1>k DEF TInv, KeyTypeOK

\* Every other step keeps the types.
LEMMA OtherTypes ==
    ASSUME TInv,
           \/ StartPlain \/ StartSealed \/ Crash
           \/ \E w \in Slugs : CreateWorkspace(w) \/ DeleteWorkspace(w) \/ Shred(w)
           \/ \E pass \in Passphrases :
                 \/ UnsealTest(pass) \/ ExportRecovery(pass)
                 \/ \E list \in PcrLists : TpmSeal(list, pass)
           \/ \E list \in PcrLists \cup {None} :
                 \/ \E b \in bundles : ImportRecovery(b, list)
                 \/ \E old, new \in Passphrases : Rotate(old, new, list)
           \/ RemovePlain \/ Configure
           \/ (CoolDown \/ Reboot) /\ UNCHANGED keyvars
    PROVE  TInv'
  <1> DEFINE Rest == /\ plain \in Keys \cup {None, Torn} /\ made \subseteq Keys
                     /\ bundles \subseteq [key: Material, pass: Passphrases]
                     /\ cfg \in Config /\ kek \in Keys \cup {None}
                     /\ rows \in [Slugs -> Keys \cup {"absent", "destroyed"}]
             Jobs == /\ job \in [Procs -> Job \cup {None}]
                     /\ \A q \in Procs : job[q] # None => JobOK(job[q])
  <1>t. SealTypeOK /\ Rest /\ Jobs /\ cfg.pass \in Passphrases
          /\ cfg.pcr_list \in PcrLists
    BY DEF TInv, KeyTypeOK, Config
  <1>u. SealTypeOK' /\ Rest' /\ Jobs' /\ spoiled' = spoiled => TInv'
    BY DEF TInv, KeyTypeOK
  <1>n. \A p \in Procs, n \in Job :
           JobOK(n) /\ job' = [job EXCEPT ![p] = n] => Jobs'
    BY <1>t
  <1>s. \A op \in {"seal", "rotate", "import"}, k \in Material,
           list \in PcrLists \cup {None}, pass \in Passphrases :
             Sealing(op, k, list, pass) \in Job /\ JobOK(Sealing(op, k, list, pass))
    <2> TAKE op \in {"seal", "rotate", "import"}, k \in Material,
             list \in PcrLists \cup {None}, pass \in Passphrases
    <2>1. Sealing(op, k, list, pass) \in Job
      BY SealingIsJob
    <2>2. JobOK(Sealing(op, k, list, pass))
      BY DEF JobOK, Sealing, first_file
    <2> QED  BY <2>1, <2>2
  <1>c. ASSUME NEW p \in Procs, NEW op, NEW w, NEW seals \in BOOLEAN,
               \/ op = "start" /\ w = None
               \/ op = "shred" /\ w \in Slugs,
               Creates(p, op, seals, w)
        PROVE  Jobs' /\ made' \subseteq Keys
    <2>1. PICK k \in Keys \ made :
            /\ made' = made \cup {k}
            /\ job' = [job EXCEPT ![p] =
              [op |-> op, file |-> "plain", open |-> FALSE, backend |-> "software",
               key |-> k, pass |-> cfg.pass, pcr_list |-> cfg.pcr_list,
               seals |-> seals, slug |-> w, was |-> None]]
      BY <1>c DEF Creates
    <2> DEFINE n == [op |-> op, file |-> "plain", open |-> FALSE,
               backend |-> "software", key |-> k, pass |-> cfg.pass,
               pcr_list |-> cfg.pcr_list, seals |-> seals, slug |-> w, was |-> None]
    <2>2. n \in Job
      BY <1>c, <1>t DEF Job, Material
    <2>3. JobOK(n)
      BY <1>c, <1>t, SealConstants DEF JobOK
    <2> HIDE DEF n
    <2>4. job' = [job EXCEPT ![p] = n]
      BY <2>1 DEF n
    <2> QED  BY <2>1, <2>2, <2>3, <2>4, <1>n, <1>t
  <1>1. CASE StartPlain
    <2>1. SealTypeOK'
      BY <1>1, <1>t, SealUnchanged DEF StartPlain
    <2>2. spoiled' = spoiled /\ UNCHANGED << plain, bundles, cfg, rows >>
      BY <1>1 DEF StartPlain
    <2>3. CASE plain \in Keys /\ ~cfg.tpm /\ kek' = plain /\ UNCHANGED << made, job >>
      BY <2>1, <2>2, <2>3, <1>t, <1>u
    <2>4. CASE /\ plain \in Keys /\ UNCHANGED << made, kek >>
               /\ job' = [job EXCEPT !["daemon"] =
                            Sealing("start", plain, cfg.pcr_list, cfg.pass)]
      <3>1. Sealing("start", plain, cfg.pcr_list, cfg.pass) \in Job
        BY <2>4, <1>t, SealingIsJob DEF Material
      <3>2. JobOK(Sealing("start", plain, cfg.pcr_list, cfg.pass))
        BY <2>4, <1>t, SealConstants DEF JobOK, Sealing, first_file
      <3>3. Jobs'
        BY <3>1, <3>2, <2>4, <1>n DEF Procs
      <3> QED  BY <3>3, <2>1, <2>2, <2>4, <1>t, <1>u
    <2>5. CASE Creates("daemon", "start", cfg.tpm, None) /\ UNCHANGED kek
      <3>1. cfg.tpm \in BOOLEAN /\ "daemon" \in Procs
        BY <1>t DEF Config, Procs
      <3>2. Jobs' /\ made' \subseteq Keys
        BY <3>1, <2>5, <1>c
      <3> QED  BY <3>2, <2>1, <2>2, <2>5, <1>t, <1>u
    <2> QED  BY <1>1, <2>3, <2>4, <2>5 DEF StartPlain
  <1>2. CASE StartSealed
    <2>1. SealTypeOK'
      BY <1>2, <1>t, CountAttemptTypes DEF StartSealed
    <2> QED  BY <2>1, <1>2, <1>t, <1>u DEF StartSealed
  <1>3. CASE Crash
    <2>1. SealTypeOK'
      BY <1>3, <1>t, SealUnchanged DEF Crash
    <2>2. Rest' /\ Jobs'
      BY <1>3, <1>t DEF Crash
    <2>3. spoiled' \in BOOLEAN
      BY <1>3, Zenon DEF Crash
    <2> QED  BY <2>1, <2>2, <2>3 DEF TInv, KeyTypeOK
  <1>4. ASSUME NEW w \in Slugs, CreateWorkspace(w) \/ DeleteWorkspace(w)
        PROVE  TInv'
    <2>1. SealTypeOK'
      BY <1>4, <1>t, SealUnchanged DEF CreateWorkspace, DeleteWorkspace
    <2> QED  BY <2>1, <1>4, <1>t, <1>u DEF CreateWorkspace, DeleteWorkspace
  <1>5. ASSUME NEW w \in Slugs, Shred(w)
        PROVE  TInv'
    <2>1. SealTypeOK'
      BY <1>5, <1>t, SealUnchanged DEF Shred
    <2>2. spoiled' = spoiled /\ UNCHANGED << plain, bundles, cfg, kek >>
      BY <1>5 DEF Shred
    <2>3. CASE rows' = [rows EXCEPT ![w] = "destroyed"] /\ UNCHANGED << made, job >>
      BY <2>1, <2>2, <2>3, <1>t, <1>u
    <2>4. CASE Creates("cli", "shred", FALSE, w) /\ UNCHANGED rows
      <3>1. Jobs' /\ made' \subseteq Keys
        BY <2>4, <1>c DEF Procs
      <3> QED  BY <3>1, <2>1, <2>2, <2>4, <1>t, <1>u
    <2> QED  BY <1>5, <2>3, <2>4 DEF Shred
  <1>6. ASSUME NEW pass \in Passphrases, UnsealTest(pass)
        PROVE  TInv'
    <2>1. SealTypeOK'
      BY <1>6, <1>t, CountAttemptTypes DEF UnsealTest
    <2> QED  BY <2>1, <1>6, <1>t, <1>u DEF UnsealTest, keyvars
  <1>7. ASSUME NEW pass \in Passphrases, ExportRecovery(pass)
        PROVE  TInv'
    <2>1. SealTypeOK'
      BY <1>7, <1>t, CountAttemptTypes DEF ExportRecovery
    <2>2. unsealed(pass) \in Material \cup {None}
      BY <1>t, UnsealedIs
    <2> QED  BY <2>1, <2>2, <1>7, <1>t, <1>u DEF ExportRecovery
  <1>8. ASSUME NEW pass \in Passphrases, NEW list \in PcrLists, TpmSeal(list, pass)
        PROVE  TInv'
    <2>1. SealTypeOK'
      BY <1>8, <1>t, SealUnchanged DEF TpmSeal
    <2>2. plain \in Material
      BY <1>8, <1>t DEF TpmSeal, Material
    <2>3. Jobs'
      BY <2>2, <1>8, <1>s, <1>n DEF TpmSeal, Procs
    <2> QED  BY <2>1, <2>3, <1>8, <1>t, <1>u DEF TpmSeal
  <1>9. ASSUME NEW list \in PcrLists \cup {None}, NEW b \in bundles,
               ImportRecovery(b, list)
        PROVE  TInv'
    <2>1. SealTypeOK'
      BY <1>9, <1>t, SealUnchanged DEF ImportRecovery
    <2>2. b.key \in Material /\ b.pass \in Passphrases
      BY <1>t
    <2>3. Jobs'
      BY <2>2, <1>9, <1>s, <1>n DEF ImportRecovery, Procs
    <2> QED  BY <2>1, <2>3, <1>9, <1>t, <1>u DEF ImportRecovery
  <1>10. ASSUME NEW list \in PcrLists \cup {None}, NEW old \in Passphrases,
                NEW new \in Passphrases, Rotate(old, new, list)
         PROVE  TInv'
    <2>1. SealTypeOK'
      BY <1>10, <1>t, CountAttemptTypes DEF Rotate
    <2>2. Jobs'
      <3> DEFINE sg == Sealing("rotate", unsealed(old), list, new)
                 n == [sg EXCEPT !.was = meta]
      <3>1. CASE unsealed(old) = None
        BY <3>1, <1>10, <1>t DEF Rotate
      <3>2. CASE unsealed(old) # None
        <4>1. unsealed(old) \in Material
          BY <3>2, <1>t, UnsealedIs
        <4>2. sg \in Job /\ JobOK(sg)
          BY <4>1, <1>s
        <4>3. meta \in SealMeta
          BY <1>10, <1>t DEF Rotate, seal_status, SealTypeOK
        <4>4. job' = [job EXCEPT !["cli"] = n]
          BY <3>2, <1>10 DEF Rotate
        <4> HIDE DEF sg
        <4>5. n \in Job /\ JobOK(n)
          BY <4>2, <4>3 DEF Job, JobOK
        <4> QED  BY <4>4, <4>5, <1>n DEF Procs
      <3> QED  BY <3>1, <3>2
    <2> QED  BY <2>1, <2>2, <1>10, <1>t, <1>u DEF Rotate
  <1>11. CASE RemovePlain \/ Configure
    <2>1. SealTypeOK'
      BY <1>11, <1>t, SealUnchanged DEF RemovePlain, Configure
    <2> QED  BY <2>1, <1>11, <1>t, <1>u DEF RemovePlain, Configure
  <1>12. CASE (CoolDown \/ Reboot) /\ UNCHANGED keyvars
    <2>1. fails' = fails /\ meta' = meta /\ sealed_bin' = sealed_bin
            /\ object' = object /\ platform' \in Platforms
      BY <1>12, <1>t DEF CoolDown, Reboot, SealTypeOK
    <2>2. cooling' \in BOOLEAN
      BY <1>12, <1>t, Zenon DEF CoolDown, Reboot, SealTypeOK
    <2>3. SealTypeOK'
      BY <2>1, <2>2, <1>t DEF SealTypeOK
    <2> QED  BY <2>3, <1>12, <1>t, <1>u DEF keyvars
  <1> QED
    BY <1>1, <1>2, <1>3, <1>4, <1>5, <1>6, <1>7, <1>8, <1>9, <1>10, <1>11, <1>12

\* Every step keeps the types.
LEMMA NextTypes == TInv /\ [Next]_vars => TInv'
  <1> SUFFICES ASSUME TInv, [Next]_vars PROVE TInv'
    OBVIOUS
  <1>1. CASE UNCHANGED vars
    <2>1. SealTypeOK'
      BY <1>1, SealUnchanged DEF vars, TInv, KeyTypeOK
    <2> QED  BY <1>1, <2>1 DEF vars, keyvars, TInv, KeyTypeOK
  <1>2. CASE Next
    BY <1>2, WriteTypes, OtherTypes DEF Next
  <1> QED  BY <1>1, <1>2

\* Every variable holds a value of the kind the code gives it; in particular the
\* KEK of a daemon is a whole key, although a torn master.key can be sealed and
\* unsealed (load_master_kek).
THEOREM KeyTypes == Spec => []KeyTypeOK
  <1>1. TInv => KeyTypeOK
    BY DEF TInv
  <1> QED  BY InitTypes, NextTypes, <1>1, PTL DEF Spec

-----------------------------------------------------------------------------
(* One key *)

\* The places that hold k for good, and the processes that carry it.
Holds(k) ==
    \/ plain = k \/ kek = k \/ (\E w \in Slugs : rows[w] = k)
    \/ sealed_bin \in Blob /\ sealed_bin.key = k
    \/ object \in Object /\ object.key = k
    \/ \E b \in bundles : b.key = k
Carries(k) == \E p \in Procs : job[p] # None /\ job[p].key = k
InUse(k)   == Holds(k) \/ Carries(k)

\* A first run, or one that was cut short and is to be repeated.
Fresh == plain = Torn \/ (plain = None /\ ~is_sealed)

\* There is one key; none before the first master.key is complete.
SameKey      == \A a, b \in Keys : InUse(a) /\ InUse(b) => a = b
FreshHasNone == Fresh => \A k \in Keys : ~Holds(k)

\* What has replaced master.key is looked for; a bundle comes from a sealed copy.
Replaced == is_sealed /\ plain = None => cfg.tpm
Exported == bundles # {} => is_sealed

\* One process works at a time; before the first master.key it is the one that
\* writes it, or seals the bytes of a torn file.
OneJob == \A p, q \in Procs : job[p] # None /\ job[q] # None => p = q
JobFits(j) ==
    IF j.file = "plain" THEN Fresh /\ ~is_sealed
    ELSE (plain # None \/ is_sealed) /\ (Fresh => j.key = Torn)
JobsFit == \A p \in Procs : job[p] # None => JobFits(job[p])

KeyInv == SameKey /\ FreshHasNone /\ Replaced /\ Exported /\ OneJob /\ JobsFit

\* A new installation has no key.
LEMMA InitKey == Init => KeyInv
  <1> SUFFICES ASSUME Init PROVE KeyInv
    OBVIOUS
  <1>1. \A k \in Keys : ~InUse(k)
    BY SealConstants, CustodyConstants
       DEF Init, SealInit, InUse, Holds, Carries
  <1> QED
    BY <1>1 DEF KeyInv, SameKey, FreshHasNone, InUse, Replaced, Exported, OneJob,
       JobsFit, Init, SealInit, is_sealed

\* A step that brings no key into use and begins no first run keeps the key.
LEMMA NoNewKey ==
    ASSUME SameKey, FreshHasNone,
           \A k \in Keys : InUse(k)' => InUse(k),
           Fresh' => Fresh /\ \A k \in Keys : Holds(k)' => Holds(k)
    PROVE  SameKey' /\ FreshHasNone'
  BY DEF SameKey, FreshHasNone

\* A key that is unsealed, or is in a job, is in use.
LEMMA UnsealedHeld ==
    ASSUME SealTypeOK, NEW pass \in Passphrases, unsealed(pass) # None
    PROVE  is_sealed /\ Holds(unsealed(pass))
  BY UnsealedIs DEF Holds

\* A process that writes files uses the key it carries.
LEMMA WriteKey ==
    ASSUME TInv, KeyInv, NEW p \in Procs,
           \/ OpenFile(p) \/ PlainWritten(p) \/ BlobWritten(p)
           \/ MetaWritten(p) \/ TpmFails(p) \/ SealFails(p)
    PROVE  KeyInv'
  <1> DEFINE j == job[p]
  <1>j. /\ j # None /\ j \in Job /\ JobOK(j) /\ JobFits(j)
        /\ job \in [Procs -> Job \cup {None}] /\ SealTypeOK
        /\ \A q \in Procs : q # p => job[q] = None
    BY DEF TInv, KeyTypeOK, KeyInv, JobsFit, OneJob, OpenFile, PlainWritten,
       BlobWritten, MetaWritten, TpmFails, SealFails
  <1>i. SameKey /\ FreshHasNone /\ Replaced /\ Exported
    BY DEF KeyInv
  <1>r. \A n : job' = [job EXCEPT ![p] = n] =>
           /\ job'[p] = n
           /\ \A q \in Procs : q # p => job'[q] = None
    BY <1>j
  <1>k. \A n, k : job' = [job EXCEPT ![p] = n] /\ (n = None \/ n.key = j.key) =>
           (Carries(k)' => k = j.key)
    BY <1>r DEF Carries
  <1>o. \A n : job' = [job EXCEPT ![p] = n] => OneJob'
    BY <1>r DEF OneJob
  <1>c. Carries(j.key)
    BY <1>j DEF Carries
  <1>1. CASE OpenFile(p)
    <2>1. job' = [job EXCEPT ![p] = [j EXCEPT !.open = TRUE]]
      BY <1>1, <1>j DEF OpenFile
    <2>2. [j EXCEPT !.open = TRUE].key = j.key /\ [j EXCEPT !.open = TRUE].file = j.file
      BY <1>j DEF Job
    <2>3. /\ plain' = (IF j.file = "plain" THEN Torn ELSE plain)
          /\ SetFile(j, Torn)
          /\ UNCHANGED << made, bundles, cfg, kek, rows >>
      BY <1>1 DEF OpenFile
    <2>4. \A k \in Keys : Holds(k)' => Holds(k)
      BY <2>3, SealConstants DEF Holds, SetFile
    <2>5. Fresh' => Fresh
      BY <2>3, <1>j, SealConstants DEF Fresh, SetFile, JobFits, is_sealed
    <2>6. is_sealed => is_sealed'
      BY <2>3, SealConstants DEF SetFile, is_sealed
    <2>7. SameKey' /\ FreshHasNone'
      BY <2>1, <2>2, <2>4, <2>5, <1>k, <1>c, <1>i, NoNewKey DEF InUse
    <2>8. Replaced' /\ Exported'
      BY <2>3, <2>6, <1>i, <1>j, SealConstants
         DEF Replaced, Exported, SetFile, is_sealed, JobFits, Fresh
    <2>9. JobFits(job[p])'
      BY <2>1, <2>2, <2>3, <2>5, <2>6, <1>r, <1>j, SealConstants
         DEF JobFits, SetFile, is_sealed, Fresh
    <2> QED  BY <2>1, <2>7, <2>8, <2>9, <1>o, <1>r DEF KeyInv, JobsFit
  <1>2. CASE PlainWritten(p)
    <2>1. /\ plain' = j.key /\ j.file = "plain" /\ j.key \in Keys
          /\ UNCHANGED << meta, sealed_bin, object, bundles, cfg >>
          /\ kek' \in {kek, j.key}
          /\ \A w \in Slugs : rows'[w] \in {rows[w], "destroyed"}
      BY <1>2, <1>j DEF PlainWritten, sealvars, JobOK, TInv, KeyTypeOK
    <2>2. \E n : /\ job' = [job EXCEPT ![p] = n]
                 /\ n = None \/ (n.key = j.key /\ n.file # "plain")
      <3>1. CASE job' = [job EXCEPT ![p] = None]
        BY <3>1
      <3>2. CASE job' = [job EXCEPT ![p] = Sealing("start", j.key, j.pcr_list, j.pass)]
        <4>1. /\ Sealing("start", j.key, j.pcr_list, j.pass).key = j.key
              /\ Sealing("start", j.key, j.pcr_list, j.pass).file # "plain"
          BY DEF Sealing, first_file
        <4> QED  BY <3>2, <4>1
      <3> QED  BY <1>2, <3>1, <3>2 DEF PlainWritten
    <2>3. \A k \in Keys : Holds(k)' => Holds(k) \/ k = j.key
      BY <2>1, CustodyConstants DEF Holds
    <2>4. ~Fresh' /\ plain' # None
      BY <2>1, SealConstants DEF Fresh
    <2>5. SameKey' /\ FreshHasNone'
      BY <2>2, <2>3, <2>4, <1>k, <1>c, <1>i, NoNewKey DEF InUse
    <2>6. Replaced' /\ Exported'
      BY <2>1, <2>4, <1>i DEF Replaced, Exported, is_sealed
    <2>7. OneJob' /\ JobsFit'
      BY <2>2, <2>4, <1>o, <1>r DEF JobsFit, JobFits
    <2> QED  BY <2>5, <2>6, <2>7 DEF KeyInv
  <1>3. CASE BlobWritten(p)
    <2> DEFINE n == [j EXCEPT !.file = "meta", !.open = FALSE]
    <2>1. job' = [job EXCEPT ![p] = n]
      BY <1>3, <1>j DEF BlobWritten
    <2>2. n.key = j.key /\ n.file = "meta"
      BY <1>j DEF Job
    <2>3. /\ j.file \in {"object", "bin"} /\ SetFile(j, Content(j))
          /\ UNCHANGED << plain, bundles, cfg, kek, rows >>
      BY <1>3 DEF BlobWritten
    <2>4. Content(j).key = j.key /\ UNCHANGED meta
      BY <2>3 DEF Content, SetFile
    <2>5. \A k \in Keys : Holds(k)' => Holds(k) \/ k = j.key
      BY <2>3, <2>4 DEF Holds, SetFile
    <2>6. (Fresh' <=> Fresh) /\ (is_sealed' <=> is_sealed)
      BY <2>3, <2>4 DEF Fresh, is_sealed
    <2>7. Fresh => j.key = Torn
      BY <2>3, <1>j DEF JobFits
    <2>8. SameKey' /\ FreshHasNone'
      <3>1. \A k \in Keys : InUse(k)' => InUse(k)
        BY <2>1, <2>2, <2>5, <1>k, <1>c DEF InUse
      <3>2. Fresh' => Fresh /\ \A k \in Keys : Holds(k)' => Holds(k)
        BY <2>5, <2>6, <2>7, SealConstants
      <3> QED  BY <3>1, <3>2, <1>i, NoNewKey
    <2>9. Replaced' /\ Exported'
      BY <2>3, <2>6, <1>i DEF Replaced, Exported
    <2>10. JobFits(job[p])'
      BY <2>1, <2>2, <2>3, <2>6, <1>r, <1>j DEF JobFits
    <2> QED  BY <2>1, <2>8, <2>9, <2>10, <1>o, <1>r DEF KeyInv, JobsFit
  <1>4. CASE MetaWritten(p)
    <2>1. /\ job' = [job EXCEPT ![p] = None] /\ j.file = "meta"
          /\ kek' = (IF j.op = "start" THEN j.key ELSE kek)
          /\ SetFile(j, Content(j))
          /\ UNCHANGED << plain, bundles, cfg, rows >>
      BY <1>4 DEF MetaWritten, Sealed
    <2>2. UNCHANGED << sealed_bin, object >>
      BY <2>1 DEF SetFile
    <2>3. is_sealed'
      <3>1. Content(j) \in SealMeta
        BY <2>1, <1>j DEF Content, MetaOf, SealMeta, Job, JobOK
      <3> QED  BY <3>1, <2>1, SealConstants DEF is_sealed, SetFile
    <2>4. Fresh' => Fresh
      BY <2>1, <2>3 DEF Fresh
    <2>5. Fresh => kek' = kek
      BY <2>1, <1>j, SealConstants DEF JobFits, JobOK
    <2>6. \A k \in Keys : Holds(k)' => Holds(k) \/ (kek' # kek /\ k = j.key)
      BY <2>1, <2>2 DEF Holds
    <2>7. SameKey' /\ FreshHasNone'
      <3>1. \A k \in Keys : InUse(k)' => InUse(k)
        BY <2>1, <2>6, <1>k, <1>c DEF InUse
      <3>2. Fresh' => Fresh /\ \A k \in Keys : Holds(k)' => Holds(k)
        BY <2>4, <2>5, <2>6
      <3> QED  BY <3>1, <3>2, <1>i, NoNewKey
    <2>8. Replaced' /\ Exported'
      BY <2>1, <2>3, <1>i, <1>j DEF Replaced, Exported, JobFits
    <2> QED  BY <2>1, <2>7, <2>8, <1>o, <1>r DEF KeyInv, JobsFit
  <1>5. CASE TpmFails(p)
    <2> DEFINE n == [j EXCEPT !.backend = "software", !.file = "bin", !.open = FALSE]
    <2>1. job' = [job EXCEPT ![p] = n]
      BY <1>5, <1>j DEF TpmFails
    <2>2. n.key = j.key /\ n.file = "bin" /\ j.file # "plain"
      BY <1>5, <1>j DEF Job, TpmFails
    <2>3. UNCHANGED << meta, sealed_bin, object, plain, bundles, cfg, kek, rows >>
      BY <1>5 DEF TpmFails, sealvars
    <2>4. /\ (Fresh' <=> Fresh) /\ (is_sealed' <=> is_sealed)
          /\ \A k : Holds(k)' <=> Holds(k)
      BY <2>3 DEF Fresh, is_sealed, Holds
    <2>5. SameKey' /\ FreshHasNone'
      BY <2>1, <2>2, <2>4, <1>k, <1>c, <1>i, NoNewKey DEF InUse
    <2>6. JobFits(job[p])'
      BY <2>1, <2>2, <2>3, <2>4, <1>r, <1>j DEF JobFits
    <2>7. Replaced' /\ Exported'
      BY <2>3, <2>4, <1>i DEF Replaced, Exported
    <2> QED  BY <2>1, <2>5, <2>6, <2>7, <1>o, <1>r DEF KeyInv, JobsFit
  <1>6. CASE SealFails(p)
    <2>1. /\ job' = [job EXCEPT ![p] = None] /\ j.file # "plain"
          /\ kek' = (IF j.op = "start" THEN j.key ELSE kek)
          /\ UNCHANGED << meta, sealed_bin, object, plain, bundles, cfg, rows >>
      BY <1>6 DEF SealFails, Sealed, sealvars
    <2>2. Fresh => kek' = kek
      BY <2>1, <1>j, SealConstants DEF JobFits, JobOK
    <2>3. \A k \in Keys : Holds(k)' => Holds(k) \/ (kek' # kek /\ k = j.key)
      BY <2>1 DEF Holds
    <2>4. (Fresh' <=> Fresh) /\ (is_sealed' <=> is_sealed)
      BY <2>1 DEF Fresh, is_sealed
    <2>5. SameKey' /\ FreshHasNone'
      <3>1. \A k \in Keys : InUse(k)' => InUse(k)
        BY <2>1, <2>3, <1>k, <1>c DEF InUse
      <3> QED  BY <3>1, <2>2, <2>3, <2>4, <1>i, NoNewKey
    <2>6. Replaced' /\ Exported'
      BY <2>1, <2>4, <1>i DEF Replaced, Exported
    <2> QED  BY <2>1, <2>5, <2>6, <1>o, <1>r DEF KeyInv, JobsFit
  <1> QED  BY <1>1, <1>2, <1>3, <1>4, <1>5, <1>6

\* With an administrator who runs one process at a time, every other step uses
\* the key that is in use or makes the first one.
LEMMA OtherKey ==
    ASSUME TInv, KeyInv, CarefulAdmin,
           \/ StartPlain \/ StartSealed \/ Crash
           \/ \E w \in Slugs : CreateWorkspace(w) \/ DeleteWorkspace(w) \/ Shred(w)
           \/ \E pass \in Passphrases :
                 \/ UnsealTest(pass) \/ ExportRecovery(pass)
                 \/ \E list \in PcrLists : TpmSeal(list, pass)
           \/ \E list \in PcrLists \cup {None} :
                 \/ \E b \in bundles : ImportRecovery(b, list)
                 \/ \E old, new \in Passphrases : Rotate(old, new, list)
           \/ RemovePlain \/ Configure
           \/ (CoolDown \/ Reboot) /\ UNCHANGED keyvars
    PROVE  KeyInv'
  <1> DEFINE Still == UNCHANGED << meta, sealed_bin, object, plain >>
  <1>i. SameKey /\ FreshHasNone /\ Replaced /\ Exported /\ OneJob /\ JobsFit
    BY DEF KeyInv
  <1>t. /\ SealTypeOK /\ job \in [Procs -> Job \cup {None}]
        /\ cfg.pass \in Passphrases /\ plain \in Keys \cup {None, Torn}
        /\ kek \in Keys \cup {None}
    BY DEF TInv, KeyTypeOK, Config
  <1>q. ASSUME Still, UNCHANGED job, Replaced', Exported',
               \A k \in Keys : Holds(k)' => Holds(k)
        PROVE  KeyInv'
    <2>1. \A k \in Keys : InUse(k)' => InUse(k)
      BY <1>q DEF InUse, Carries
    <2>2. (Fresh' <=> Fresh) /\ (is_sealed' <=> is_sealed)
      BY <1>q DEF Fresh, is_sealed
    <2>3. SameKey' /\ FreshHasNone'
      BY <2>1, <2>2, <1>q, <1>i, NoNewKey
    <2>4. OneJob' /\ JobsFit'
      BY <2>2, <1>q, <1>i DEF OneJob, JobsFit, JobFits
    <2> QED  BY <2>3, <2>4, <1>q DEF KeyInv
  <1>n. ASSUME Still, UNCHANGED << bundles, cfg, kek, rows >>, AtRest,
               NEW p \in Procs, NEW n, job' = [job EXCEPT ![p] = n],
               n.file # "plain", n.key \in Keys => Holds(n.key),
               n.key \in Material, plain # None \/ is_sealed
        PROVE  KeyInv'
    <2>1. job'[p] = n /\ \A r \in Procs : r # p => job'[r] = None
      BY <1>n, <1>t DEF AtRest
    <2>2. \A k : Holds(k)' <=> Holds(k)
      BY <1>n DEF Holds
    <2>3. \A k \in Keys : InUse(k)' => InUse(k)
      BY <2>1, <2>2, <1>n DEF InUse, Carries
    <2>4. (Fresh' <=> Fresh) /\ (is_sealed' <=> is_sealed)
      BY <1>n DEF Fresh, is_sealed
    <2>5. SameKey' /\ FreshHasNone'
      BY <2>2, <2>3, <2>4, <1>i, NoNewKey
    <2>6. Fresh => n.key = Torn
      BY <1>n, <1>i DEF FreshHasNone, Material
    <2>7. JobFits(job[p])'
      BY <2>1, <2>4, <2>6, <1>n DEF JobFits
    <2>8. OneJob' /\ JobsFit'
      BY <2>1, <2>7 DEF OneJob, JobsFit
    <2>9. Replaced' /\ Exported'
      BY <2>4, <1>n, <1>i DEF Replaced, Exported
    <2> QED  BY <2>5, <2>8, <2>9 DEF KeyInv
  <1>c. ASSUME Still, UNCHANGED << bundles, cfg, kek, rows >>, AtRest,
               plain = None, ~is_sealed,
               NEW p \in Procs, NEW op, NEW seals, NEW w, Creates(p, op, seals, w)
        PROVE  KeyInv'
    <2>1. PICK k \in Keys \ made : job' = [job EXCEPT ![p] =
              [op |-> op, file |-> "plain", open |-> FALSE, backend |-> "software",
               key |-> k, pass |-> cfg.pass, pcr_list |-> cfg.pcr_list,
               seals |-> seals, slug |-> w, was |-> None]]
      BY <1>c DEF Creates
    <2>2. /\ job'[p].key = k /\ job'[p].file = "plain"
          /\ \A r \in Procs : r # p => job'[r] = None
      BY <2>1, <1>c, <1>t DEF AtRest
    <2>3. \A a \in Keys : ~Holds(a)'
      BY <1>c, <1>i DEF FreshHasNone, Fresh, Holds
    <2>4. \A a \in Keys : InUse(a)' => a = k
      BY <2>2, <2>3 DEF InUse, Carries
    <2>5. SameKey' /\ FreshHasNone'
      BY <2>3, <2>4 DEF SameKey, FreshHasNone
    <2>6. Fresh' /\ ~is_sealed'
      BY <1>c DEF Fresh, is_sealed
    <2>7. OneJob' /\ JobsFit'
      BY <2>2, <2>6 DEF OneJob, JobsFit, JobFits
    <2>8. Replaced' /\ Exported'
      BY <2>6, <1>c, <1>i DEF Replaced, Exported
    <2> QED  BY <2>5, <2>7, <2>8 DEF KeyInv
  <1>u. ASSUME NEW op \in {"start", "seal", "import"}, NEW k \in Material,
               NEW list \in PcrLists \cup {None}, NEW pass \in Passphrases
        PROVE  /\ Sealing(op, k, list, pass).key = k
               /\ Sealing(op, k, list, pass).file # "plain"
    BY SealingIsJob
  <1>1. CASE StartPlain
    <2>1. Still /\ UNCHANGED << bundles, cfg, rows >> /\ AtRest
            /\ (cfg.tpm => ~is_sealed)
      BY <1>1 DEF StartPlain, sealvars, Careful
    <2>2. CASE plain \in Keys /\ kek' = plain /\ UNCHANGED << made, job >>
      <3>1. \A k \in Keys : Holds(k)' => Holds(k)
        BY <2>1, <2>2 DEF Holds
      <3>2. Replaced' /\ Exported'
        BY <2>1, <1>i DEF Replaced, Exported, is_sealed
      <3> QED  BY <3>1, <3>2, <2>1, <2>2, <1>q
    <2>3. CASE /\ plain \in Keys /\ UNCHANGED << made, kek >>
               /\ job' = [job EXCEPT !["daemon"] =
                            Sealing("start", plain, cfg.pcr_list, cfg.pass)]
      <3>1. Holds(plain) /\ plain # None /\ plain \in Material /\ "daemon" \in Procs
              /\ cfg.pcr_list \in PcrLists
        BY <2>3, SealConstants DEF Holds, Material, Procs, TInv, KeyTypeOK, Config
      <3> DEFINE n == Sealing("start", plain, cfg.pcr_list, cfg.pass)
      <3>2. n.key = plain /\ n.file # "plain"
        BY <3>1, <1>u, <1>t
      <3>3. job' = [job EXCEPT !["daemon"] = n]
        BY <2>3
      <3> HIDE DEF n
      <3> QED  BY <3>1, <3>2, <3>3, <2>1, <2>3, <1>n
    <2>4. CASE plain = None /\ Creates("daemon", "start", cfg.tpm, None) /\ UNCHANGED kek
      <3>1. ~is_sealed /\ "daemon" \in Procs
        BY <2>1, <2>4, <1>i DEF Replaced, Procs
      <3> QED  BY <3>1, <2>1, <2>4, <1>c
    <2> QED  BY <1>1, <2>2, <2>3, <2>4 DEF StartPlain
  <1>2. CASE StartSealed
    <2>1. Still /\ UNCHANGED << bundles, cfg, rows, job >>
      BY <1>2, <1>t, CountAttemptTypes DEF StartSealed
    <2>2. \A k \in Keys : Holds(k)' => Holds(k)
      <3>1. kek' \in Keys => Holds(kek')
        BY <1>2, <1>t, UnsealedHeld, SealConstants DEF StartSealed
      <3> QED  BY <3>1, <2>1 DEF Holds
    <2>3. Replaced' /\ Exported'
      BY <2>1, <1>i DEF Replaced, Exported, is_sealed
    <2> QED  BY <2>1, <2>2, <2>3, <1>q
  <1>3. CASE Crash
    <2>1. /\ Still /\ kek' = None /\ \A p \in Procs : job'[p] = None
          /\ UNCHANGED << bundles, cfg, rows >>
      BY <1>3 DEF Crash, sealvars
    <2>2. \A k \in Keys : (Holds(k)' => Holds(k)) /\ ~Carries(k)'
      BY <2>1, SealConstants DEF Holds, Carries
    <2>3. (Fresh' <=> Fresh) /\ (is_sealed' <=> is_sealed)
      BY <2>1 DEF Fresh, is_sealed
    <2>4. SameKey' /\ FreshHasNone'
      BY <2>2, <2>3, <1>i, NoNewKey DEF InUse
    <2> QED
      BY <2>1, <2>3, <2>4, <1>i DEF KeyInv, Replaced, Exported, OneJob, JobsFit
  <1>4. ASSUME NEW w \in Slugs, CreateWorkspace(w) \/ DeleteWorkspace(w)
        PROVE  KeyInv'
    <2>1. /\ Still /\ UNCHANGED << bundles, cfg, kek, job >>
          /\ \A v \in Slugs : rows'[v] \in {rows[v], kek, "absent"}
      BY <1>4 DEF CreateWorkspace, DeleteWorkspace, sealvars, TInv, KeyTypeOK
    <2>2. \A k \in Keys : Holds(k)' => Holds(k)
      BY <2>1, CustodyConstants DEF Holds
    <2>3. Replaced' /\ Exported'
      BY <2>1, <1>i DEF Replaced, Exported, is_sealed
    <2> QED  BY <2>1, <2>2, <2>3, <1>q
  <1>5. ASSUME NEW w \in Slugs, Shred(w)
        PROVE  KeyInv'
    <2>1. Still /\ UNCHANGED << bundles, cfg, kek >> /\ AtRest
            /\ (is_sealed => plain # None)
      BY <1>5 DEF Shred, sealvars, Command, Careful
    <2>2. CASE rows' = [rows EXCEPT ![w] = "destroyed"] /\ UNCHANGED << made, job >>
      <3>0. \A v \in Slugs : rows'[v] \in {rows[v], "destroyed"}
        BY <2>2 DEF TInv, KeyTypeOK
      <3>1. \A k \in Keys : Holds(k)' => Holds(k)
        BY <2>1, <3>0, CustodyConstants DEF Holds
      <3>2. Replaced' /\ Exported'
        BY <2>1, <1>i DEF Replaced, Exported, is_sealed
      <3> QED  BY <3>1, <3>2, <2>1, <2>2, <1>q
    <2>3. CASE plain = None /\ Creates("cli", "shred", FALSE, w) /\ UNCHANGED rows
      BY <2>1, <2>3, <1>c DEF Procs
    <2> QED  BY <1>5, <2>2, <2>3 DEF Shred
  <1>6. ASSUME NEW pass \in Passphrases, UnsealTest(pass)
        PROVE  KeyInv'
    <2>1. Still /\ UNCHANGED << bundles, cfg, kek, rows, job >>
      BY <1>6, <1>t, CountAttemptTypes DEF UnsealTest, keyvars
    <2>2. \A k \in Keys : Holds(k)' => Holds(k)
      BY <2>1 DEF Holds
    <2>3. Replaced' /\ Exported'
      BY <2>1, <1>i DEF Replaced, Exported, is_sealed
    <2> QED  BY <2>1, <2>2, <2>3, <1>q
  <1>7. ASSUME NEW pass \in Passphrases, ExportRecovery(pass)
        PROVE  KeyInv'
    <2>1. Still /\ UNCHANGED << cfg, kek, rows, job >>
      BY <1>7, <1>t, CountAttemptTypes DEF ExportRecovery
    <2>2. \A b \in bundles' : b \in bundles \/ (unsealed(pass) # None /\ b.key = unsealed(pass))
      BY <1>7 DEF ExportRecovery
    <2>3. \A k \in Keys : Holds(k)' => Holds(k)
      BY <2>1, <2>2, <1>t, UnsealedHeld DEF Holds
    <2>4. is_sealed
      BY <1>7 DEF ExportRecovery, seal_status, is_sealed
    <2>5. Replaced' /\ Exported'
      BY <2>1, <2>4, <1>i DEF Replaced, Exported, is_sealed
    <2> QED  BY <2>1, <2>3, <2>5, <1>q
  <1>8. ASSUME NEW pass \in Passphrases, NEW list \in PcrLists, TpmSeal(list, pass)
        PROVE  KeyInv'
    <2>1. /\ Still /\ UNCHANGED << bundles, cfg, kek, rows >> /\ AtRest /\ plain # None
          /\ job' = [job EXCEPT !["cli"] = Sealing("seal", plain, list, pass)]
      BY <1>8 DEF TpmSeal, sealvars, Command, Careful
    <2>2. plain \in Material /\ Holds(plain) /\ "cli" \in Procs
      BY <2>1, <1>t DEF Material, Holds, Procs
    <2> DEFINE n == Sealing("seal", plain, list, pass)
    <2>3. n.key = plain /\ n.file # "plain"
      BY <2>2, <1>u
    <2>4. job' = [job EXCEPT !["cli"] = n]
      BY <2>1
    <2> HIDE DEF n
    <2> QED  BY <2>1, <2>2, <2>3, <2>4, <1>n
  <1>9. ASSUME NEW list \in PcrLists \cup {None}, NEW b \in bundles,
               ImportRecovery(b, list)
        PROVE  KeyInv'
    <2>1. /\ Still /\ UNCHANGED << bundles, cfg, kek, rows >> /\ AtRest
          /\ job' = [job EXCEPT !["cli"] = Sealing("import", b.key, list, b.pass)]
      BY <1>9 DEF ImportRecovery, sealvars, Command, Careful
    <2>2. b.key \in Material /\ b.pass \in Passphrases
      BY DEF TInv, KeyTypeOK
    <2>3. Holds(b.key) /\ is_sealed /\ "cli" \in Procs
      BY <1>i DEF Holds, Exported, Procs
    <2> DEFINE n == Sealing("import", b.key, list, b.pass)
    <2>4. n.key = b.key /\ n.file # "plain"
      BY <2>2, <1>u
    <2>5. job' = [job EXCEPT !["cli"] = n]
      BY <2>1
    <2> HIDE DEF n
    <2> QED  BY <2>1, <2>2, <2>3, <2>4, <2>5, <1>n
  <1>10. ASSUME NEW list \in PcrLists \cup {None}, NEW old \in Passphrases,
                NEW new \in Passphrases, Rotate(old, new, list)
         PROVE  KeyInv'
    <2> DEFINE sg == Sealing("rotate", unsealed(old), list, new)
    <2>1. Still /\ UNCHANGED << bundles, cfg, kek, rows >> /\ AtRest
      BY <1>10, <1>t, CountAttemptTypes DEF Rotate, Command, Careful
    <2>2. CASE unsealed(old) = None
      <3>1. UNCHANGED job
        BY <2>2, <1>10 DEF Rotate
      <3>2. \A k \in Keys : Holds(k)' => Holds(k)
        BY <2>1 DEF Holds
      <3>3. Replaced' /\ Exported'
        BY <2>1, <1>i DEF Replaced, Exported, is_sealed
      <3> QED  BY <2>1, <3>1, <3>2, <3>3, <1>q
    <2>3. CASE unsealed(old) # None
      <3>1. unsealed(old) \in Material /\ is_sealed /\ Holds(unsealed(old))
        BY <2>3, <1>t, UnsealedIs, UnsealedHeld
      <3>2. job' = [job EXCEPT !["cli"] = [sg EXCEPT !.was = meta]]
        BY <2>3, <1>10 DEF Rotate
      <3>3. /\ [sg EXCEPT !.was = meta].key = unsealed(old)
            /\ [sg EXCEPT !.was = meta].file # "plain"
        BY DEF Sealing, first_file
      <3> QED  BY <2>1, <3>1, <3>2, <3>3, <1>n DEF Procs
    <2> QED  BY <2>2, <2>3
  <1>11. CASE RemovePlain
    <2>1. /\ UNCHANGED << meta, sealed_bin, object, bundles, cfg, kek, rows, job >>
          /\ plain' = None /\ AtRest
      BY <1>11 DEF RemovePlain, sealvars
    <2>2. \/ plain \in Keys /\ is_sealed /\ cfg.tpm
          \/ plain = Torn /\ ~is_sealed
      BY <1>11, SealConstants
         DEF RemovePlain, Careful, SealedCopy, seal_status, is_sealed
    <2>3. \A k \in Keys : (Holds(k)' => Holds(k)) /\ ~Carries(k)'
      BY <2>1, SealConstants DEF Holds, Carries, AtRest
    <2>4. Fresh' => Fresh
      BY <2>1, <2>2, SealConstants DEF Fresh, is_sealed
    <2>5. SameKey' /\ FreshHasNone'
      BY <2>3, <2>4, <1>i, NoNewKey DEF InUse
    <2>6. Replaced' /\ Exported'
      BY <2>1, <2>2, <1>i DEF Replaced, Exported, is_sealed
    <2> QED  BY <2>1, <2>5, <2>6 DEF KeyInv, AtRest, OneJob, JobsFit
  <1>12. CASE Configure
    <2>1. /\ Still /\ UNCHANGED << bundles, kek, rows, job >>
          /\ is_sealed /\ plain = None => cfg'.tpm
      BY <1>12 DEF Configure, sealvars, Careful
    <2>2. \A k \in Keys : Holds(k)' => Holds(k)
      BY <2>1 DEF Holds
    <2>3. Replaced' /\ Exported'
      BY <2>1, <1>i DEF Replaced, Exported, is_sealed
    <2> QED  BY <2>1, <2>2, <2>3, <1>q
  <1>13. CASE (CoolDown \/ Reboot) /\ UNCHANGED keyvars
    <2>1. Still /\ UNCHANGED << bundles, cfg, kek, rows, job >>
      BY <1>13 DEF CoolDown, Reboot, keyvars
    <2>2. \A k \in Keys : Holds(k)' => Holds(k)
      BY <2>1 DEF Holds
    <2>3. Replaced' /\ Exported'
      BY <2>1, <1>i DEF Replaced, Exported, is_sealed
    <2> QED  BY <2>1, <2>2, <2>3, <1>q
  <1> QED
    BY <1>1, <1>2, <1>3, <1>4, <1>5, <1>6, <1>7, <1>8, <1>9, <1>10, <1>11, <1>12, <1>13

\* A stuttering step changes nothing.
LEMMA KeyStutter == KeyInv /\ UNCHANGED vars => KeyInv'
  BY DEF vars, keyvars, sealvars, KeyInv, SameKey, FreshHasNone, Replaced, Exported,
     OneJob, JobsFit, JobFits, Fresh, is_sealed, InUse, Holds, Carries

\* With an administrator who runs one process at a time and keeps sealing
\* configured once the sealed copy has replaced master.key, a daemon never serves
\* with another KEK than the one its workspaces' DEKs are wrapped under: however
\* often load_or_create, seal and the commands of `maranode tpm` were cut short.
THEOREM DeksStayReadable == CarefulAdmin => (Spec => []DeksReadable)
  <1> SUFFICES ASSUME CarefulAdmin PROVE Spec => []DeksReadable
    OBVIOUS
  <1>1. Init => TInv /\ KeyInv
    BY InitTypes, InitKey
  <1>2. TInv /\ KeyInv /\ [Next]_vars => TInv' /\ KeyInv'
    <2> SUFFICES ASSUME TInv, KeyInv, [Next]_vars PROVE KeyInv'
      BY NextTypes
    <2>1. CASE UNCHANGED vars
      BY <2>1, KeyStutter
    <2>2. CASE Next
      BY <2>2, WriteKey, OtherKey DEF Next
    <2> QED  BY <2>1, <2>2
  <1>3. TInv /\ KeyInv => DeksReadable
    BY DEF TInv, KeyTypeOK, KeyInv, SameKey, InUse, Holds, DeksReadable
  <1> QED  BY <1>1, <1>2, <1>3, PTL DEF Spec

-----------------------------------------------------------------------------
(* A way back to the key *)

\* A sealing writes meta.json last, beside the blob it leads to.
Written(j) ==
    /\ j.file = "object" => j.backend = "tpm2"
    /\ j.file = "bin" => j.backend = "software"
    /\ j.file = "meta" /\ j.backend = "tpm2" =>
         object \in Object /\ object.key = j.key /\ object.pcr_list = j.pcr_list
    /\ j.file = "meta" /\ j.backend = "software" =>
         sealed_bin \in Blob /\ sealed_bin.key = j.key
MetaLast == \A p \in Procs : job[p] # None => Written(job[p])

\* The bytes of a torn master.key are sealed or exported only while it is there.
Clean ==
    plain # Torn =>
      /\ \A b \in bundles : b.key \in Keys
      /\ \A p \in Procs : job[p] # None => job[p].key \in Keys
      /\ SealedCopy \in Keys \cup {None}

\* Between commands meta.json leads to a blob, unless a sealing was cut short.
Complete == ~spoiled /\ is_sealed /\ AtRest => SealedCopy # None

CopyInv == MetaLast /\ Clean /\ Complete

\* What unseal returns is what meta.json leads to.
LEMMA UnsealedCopy ==
    ASSUME SealTypeOK, NEW pass \in Passphrases, unsealed(pass) # None
    PROVE  unsealed(pass) = SealedCopy
  BY DEF unsealed, SealedCopy, tpm2_unseal, software_unseal, SealTypeOK, SealMeta,
     seal_status

\* What meta.json leads to is key material, and it is held.
LEMMA CopyHeld ==
    ASSUME SealTypeOK
    PROVE  SealedCopy \in Material \cup {None} /\ (SealedCopy # None => Holds(SealedCopy))
  BY DEF SealedCopy, SealTypeOK, seal_status, Blob, Object, Holds

\* A new installation has no sealed copy.
LEMMA InitCopy == Init => CopyInv
  BY DEF Init, SealInit, CopyInv, MetaLast, Clean, Complete, SealedCopy, seal_status,
     is_sealed

\* A process that writes files ends with meta.json beside its blob.
LEMMA WriteCopy ==
    ASSUME TInv, KeyInv, CopyInv, NEW p \in Procs,
           \/ OpenFile(p) \/ PlainWritten(p) \/ BlobWritten(p)
           \/ MetaWritten(p) \/ TpmFails(p) \/ SealFails(p)
    PROVE  CopyInv'
  <1> DEFINE j == job[p]
  <1>j. /\ j # None /\ j \in Job /\ JobOK(j) /\ JobFits(j) /\ Written(j)
        /\ job \in [Procs -> Job \cup {None}] /\ SealTypeOK
        /\ \A q \in Procs : q # p => job[q] = None
    BY DEF TInv, KeyTypeOK, KeyInv, JobsFit, OneJob, CopyInv, MetaLast, OpenFile,
       PlainWritten, BlobWritten, MetaWritten, TpmFails, SealFails
  <1>i. MetaLast /\ Clean /\ Complete /\ ~AtRest
    BY <1>j DEF CopyInv, AtRest
  <1>r. \A n : job' = [job EXCEPT ![p] = n] =>
           /\ job'[p] = n
           /\ \A q \in Procs : q # p => job'[q] = None
    BY <1>j
  <1>n. job'[p] # None => ~AtRest'
    BY DEF AtRest
  <1>1. CASE OpenFile(p)
    <2> DEFINE n == [j EXCEPT !.open = TRUE]
    <2>1. job' = [job EXCEPT ![p] = n]
      BY <1>1, <1>j DEF OpenFile
    <2>2. n.key = j.key /\ n.file = j.file /\ n.backend = j.backend
            /\ n.pcr_list = j.pcr_list /\ n \in Job
      BY <1>j DEF Job
    <2> HIDE DEF n
    <2>3. /\ plain' = (IF j.file = "plain" THEN Torn ELSE plain)
          /\ SetFile(j, Torn) /\ UNCHANGED bundles
      BY <1>1 DEF OpenFile
    <2>4. SealedCopy' \in {SealedCopy, None}
      BY <2>3 DEF SealedCopy, SetFile, seal_status
    <2>5. Clean'
      BY <2>1, <2>2, <2>3, <2>4, <1>r, <1>i, <1>j DEF Clean
    <2>6. Written(job[p])'
      BY <2>1, <2>2, <2>3, <1>r, <1>j DEF Written, SetFile
    <2>7. ~AtRest'
      BY <2>1, <2>2, <1>r, <1>n, CustodyConstants
    <2> QED  BY <2>1, <2>5, <2>6, <2>7, <1>r DEF CopyInv, MetaLast, Complete
  <1>2. CASE PlainWritten(p)
    <2>1. /\ j.file = "plain" /\ j.key \in Keys
          /\ UNCHANGED << meta, sealed_bin, object, bundles, spoiled >>
      BY <1>2, <1>j DEF PlainWritten, sealvars, JobOK
    <2>2. ~is_sealed' /\ SealedCopy' = None /\ bundles' = {}
      BY <2>1, <1>j
         DEF JobFits, is_sealed, SealedCopy, seal_status, KeyInv, Exported
    <2>3. /\ \A q \in Procs : q # p => job'[q] = None
          /\ job'[p] # None => job'[p].key = j.key /\ Written(job[p])'
      <3>1. CASE job' = [job EXCEPT ![p] = None]
        BY <3>1, <1>r
      <3>2. CASE job' = [job EXCEPT ![p] = Sealing("start", j.key, j.pcr_list, j.pass)]
        <4>1. job'[p] = Sealing("start", j.key, j.pcr_list, j.pass)
          BY <3>2, <1>r
        <4>2. job'[p].key = j.key /\ Written(job[p])'
          BY <4>1 DEF Sealing, first_file, Written
        <4> QED  BY <3>2, <4>2, <1>r
      <3> QED  BY <1>2, <3>1, <3>2 DEF PlainWritten
    <2> QED
      BY <2>1, <2>2, <2>3 DEF CopyInv, MetaLast, Clean, Complete
  <1>3. CASE BlobWritten(p)
    <2> DEFINE n == [j EXCEPT !.file = "meta", !.open = FALSE]
    <2>1. job' = [job EXCEPT ![p] = n]
      BY <1>3, <1>j DEF BlobWritten
    <2>2. n.key = j.key /\ n.file = "meta" /\ n.backend = j.backend
            /\ n.pcr_list = j.pcr_list /\ n \in Job
      BY <1>j DEF Job
    <2> HIDE DEF n
    <2>3. /\ j.file \in {"object", "bin"} /\ SetFile(j, Content(j))
          /\ UNCHANGED << plain, bundles >>
      BY <1>3 DEF BlobWritten
    <2>4. /\ UNCHANGED meta
          /\ j.file = "bin" => /\ sealed_bin' \in Blob /\ sealed_bin'.key = j.key
                               /\ UNCHANGED object
          /\ j.file = "object" => /\ object' \in Object /\ object'.key = j.key
                                  /\ object'.pcr_list = j.pcr_list
                                  /\ UNCHANGED sealed_bin
      BY <2>3, <1>j DEF Content, SetFile, Job, JobOK, Blob, Object, SealTypeOK
    <2>5. SealedCopy' \in {SealedCopy, None, j.key}
      BY <2>3, <2>4 DEF SealedCopy, seal_status
    <2>6. Clean'
      BY <2>1, <2>2, <2>3, <2>5, <1>r, <1>i, <1>j DEF Clean
    <2>7. Written(job[p])'
      BY <2>1, <2>2, <2>3, <2>4, <1>r, <1>j DEF Written
    <2>8. ~AtRest'
      BY <2>1, <2>2, <1>r, <1>n, CustodyConstants
    <2> QED  BY <2>1, <2>6, <2>7, <2>8, <1>r DEF CopyInv, MetaLast, Complete
  <1>4. CASE MetaWritten(p)
    <2>1. /\ job' = [job EXCEPT ![p] = None] /\ j.file = "meta"
          /\ meta' = MetaOf(j) /\ UNCHANGED << plain, bundles, sealed_bin, object >>
      BY <1>4 DEF MetaWritten, Sealed, SetFile, Content
    <2>2. MetaOf(j) \in SealMeta
      BY <2>1, <1>j DEF MetaOf, SealMeta, Job, JobOK
    <2>3. SealedCopy' = j.key
      <3>1. seal_status'
        BY <2>1, <2>2, SealConstants DEF seal_status
      <3>2. CASE j.backend = "tpm2"
        BY <3>1, <3>2, <2>1, <1>j, SealConstants DEF SealedCopy, MetaOf, Written
      <3>3. CASE j.backend = "software"
        BY <3>1, <3>3, <2>1, <1>j, SealConstants DEF SealedCopy, MetaOf, Written
      <3> QED  BY <3>2, <3>3, <1>j DEF Job
    <2>4. j.key # None
      BY <1>j, SealConstants DEF Job, Material
    <2>5. Clean'
      BY <2>1, <2>3, <1>r, <1>i, <1>j DEF Clean
    <2> QED  BY <2>1, <2>3, <2>4, <2>5, <1>r DEF CopyInv, MetaLast, Complete
  <1>5. CASE TpmFails(p)
    <2> DEFINE n == [j EXCEPT !.backend = "software", !.file = "bin", !.open = FALSE]
    <2>1. job' = [job EXCEPT ![p] = n]
      BY <1>5, <1>j DEF TpmFails
    <2>2. n.key = j.key /\ n.file = "bin" /\ n.backend = "software" /\ n \in Job
      BY <1>j DEF Job
    <2> HIDE DEF n
    <2>3. UNCHANGED << meta, sealed_bin, object, plain, bundles >>
      BY <1>5 DEF TpmFails, sealvars
    <2>4. SealedCopy' = SealedCopy
      BY <2>3 DEF SealedCopy, seal_status
    <2>5. Clean'
      BY <2>1, <2>2, <2>3, <2>4, <1>r, <1>i, <1>j DEF Clean
    <2>6. Written(job[p])' /\ ~AtRest'
      BY <2>1, <2>2, <1>r, <1>n, CustodyConstants DEF Written
    <2> QED  BY <2>1, <2>5, <2>6, <1>r DEF CopyInv, MetaLast, Complete
  <1>6. CASE SealFails(p)
    <2>1. /\ job' = [job EXCEPT ![p] = None] /\ spoiled' = TRUE
          /\ UNCHANGED << meta, sealed_bin, object, plain, bundles >>
      BY <1>6 DEF SealFails, Sealed, sealvars
    <2>2. SealedCopy' = SealedCopy
      BY <2>1 DEF SealedCopy, seal_status
    <2>3. Clean'
      BY <2>1, <2>2, <1>r, <1>i DEF Clean
    <2> QED  BY <2>1, <2>3, <1>r DEF CopyInv, MetaLast, Complete
  <1> QED  BY <1>1, <1>2, <1>3, <1>4, <1>5, <1>6

\* Every other step leaves the sealed copy alone; what it begins to seal is a key
\* unless master.key is torn.
LEMMA OtherCopy ==
    ASSUME TInv, KeyInv, CopyInv, CarefulAdmin,
           \/ StartPlain \/ StartSealed \/ Crash
           \/ \E w \in Slugs : CreateWorkspace(w) \/ DeleteWorkspace(w) \/ Shred(w)
           \/ \E pass \in Passphrases :
                 \/ UnsealTest(pass) \/ ExportRecovery(pass)
                 \/ \E list \in PcrLists : TpmSeal(list, pass)
           \/ \E list \in PcrLists \cup {None} :
                 \/ \E b \in bundles : ImportRecovery(b, list)
                 \/ \E old, new \in Passphrases : Rotate(old, new, list)
           \/ RemovePlain \/ Configure
           \/ (CoolDown \/ Reboot) /\ UNCHANGED keyvars
    PROVE  CopyInv'
  <1> DEFINE Still == UNCHANGED << meta, sealed_bin, object >>
  <1>i. MetaLast /\ Clean /\ Complete
    BY DEF CopyInv
  <1>t. /\ SealTypeOK /\ job \in [Procs -> Job \cup {None}]
        /\ plain \in Keys \cup {None, Torn}
        /\ bundles \subseteq [key: Material, pass: Passphrases]
    BY DEF TInv, KeyTypeOK
  <1>s. Still => /\ SealedCopy' = SealedCopy /\ (is_sealed' <=> is_sealed)
                 /\ \A n : Written(n)' <=> Written(n)
    BY DEF SealedCopy, seal_status, is_sealed, Written
  <1>q. ASSUME Still, UNCHANGED << plain, job, spoiled >>,
               plain # Torn => \A b \in bundles' : b.key \in Keys
        PROVE  CopyInv'
    BY <1>q, <1>i, <1>s DEF CopyInv, MetaLast, Clean, Complete, AtRest
  <1>n. ASSUME Still, UNCHANGED << plain, bundles >>, AtRest,
               NEW p \in Procs, NEW n, job' = [job EXCEPT ![p] = n], n # None,
               Written(n), plain # Torn => n.key \in Keys
        PROVE  CopyInv'
    <2>1. job'[p] = n /\ \A r \in Procs : r # p => job'[r] = None
      BY <1>n, <1>t DEF AtRest
    <2>2. ~AtRest'
      BY <2>1, <1>n DEF AtRest
    <2>3. MetaLast'
      BY <2>1, <1>n, <1>s DEF MetaLast
    <2> QED  BY <2>1, <2>2, <2>3, <1>n, <1>i, <1>s DEF CopyInv, Clean, Complete
  <1>w. ASSUME NEW op \in {"start", "seal", "rotate", "import"}, NEW k \in Material,
               NEW list \in PcrLists \cup {None}, NEW pass \in Passphrases
        PROVE  /\ Sealing(op, k, list, pass) # None
               /\ Sealing(op, k, list, pass).key = k
               /\ Written(Sealing(op, k, list, pass))
    <2>1. Written(Sealing(op, k, list, pass))
      BY DEF Written, Sealing, first_file
    <2> QED  BY <2>1, SealingIsJob, CustodyConstants
  <1>c. ASSUME Still, UNCHANGED << plain, bundles >>, AtRest,
               NEW p \in Procs, NEW op, NEW seals \in BOOLEAN, NEW w,
               \/ op = "start" /\ w = None
               \/ op = "shred" /\ w \in Slugs,
               Creates(p, op, seals, w)
        PROVE  CopyInv'
    <2>1. PICK k \in Keys \ made : job' = [job EXCEPT ![p] =
              [op |-> op, file |-> "plain", open |-> FALSE, backend |-> "software",
               key |-> k, pass |-> cfg.pass, pcr_list |-> cfg.pcr_list,
               seals |-> seals, slug |-> w, was |-> None]]
      BY <1>c DEF Creates
    <2> DEFINE n == [op |-> op, file |-> "plain", open |-> FALSE,
               backend |-> "software", key |-> k, pass |-> cfg.pass,
               pcr_list |-> cfg.pcr_list, seals |-> seals, slug |-> w, was |-> None]
    <2>2. Written(n) /\ n.key \in Keys
      BY DEF Written
    <2>3. n \in Job
      BY <1>c DEF Job, Material, Config, TInv, KeyTypeOK
    <2>4. job' = [job EXCEPT ![p] = n]
      BY <2>1
    <2> HIDE DEF n
    <2> QED  BY <2>2, <2>3, <2>4, <1>c, <1>n, CustodyConstants
  <1>1. CASE StartPlain
    <2>1. Still /\ UNCHANGED << plain, bundles, spoiled >> /\ AtRest
            /\ cfg.tpm \in BOOLEAN /\ cfg.pass \in Passphrases
            /\ cfg.pcr_list \in PcrLists /\ "daemon" \in Procs
      BY <1>1 DEF StartPlain, sealvars, Careful, TInv, KeyTypeOK, Config, Procs
    <2>2. CASE UNCHANGED job
      BY <2>1, <2>2, <1>q, <1>i DEF Clean
    <2>3. CASE /\ plain \in Keys
               /\ job' = [job EXCEPT !["daemon"] =
                            Sealing("start", plain, cfg.pcr_list, cfg.pass)]
      <3> DEFINE n == Sealing("start", plain, cfg.pcr_list, cfg.pass)
      <3>1. n # None /\ n.key = plain /\ Written(n) /\ job' = [job EXCEPT !["daemon"] = n]
        BY <2>1, <2>3, <1>w DEF Material
      <3> HIDE DEF n
      <3> QED  BY <3>1, <2>1, <2>3, <1>n
    <2>4. CASE Creates("daemon", "start", cfg.tpm, None)
      BY <2>1, <2>4, <1>c
    <2> QED  BY <1>1, <2>2, <2>3, <2>4 DEF StartPlain
  <1>2. CASE StartSealed
    <2>1. Still /\ UNCHANGED << plain, bundles, job, spoiled >>
      BY <1>2, <1>t, CountAttemptTypes DEF StartSealed, TInv, KeyTypeOK, Config
    <2> QED  BY <2>1, <1>q, <1>i DEF Clean
  <1>3. CASE Crash
    <2>1. /\ Still /\ UNCHANGED << plain, bundles >> /\ \A p \in Procs : job'[p] = None
      BY <1>3 DEF Crash, sealvars
    <2>2. ~spoiled' => ~spoiled /\ \A p \in Procs : job[p] # None => job[p].file = "plain"
      BY <1>3, Zenon DEF Crash
    <2>3. CASE AtRest
      BY <2>1, <2>2, <2>3, <1>i, <1>s DEF CopyInv, MetaLast, Clean, Complete
    <2>4. CASE ~AtRest
      <3>1. ~spoiled' => ~is_sealed
        BY <2>2, <2>4 DEF AtRest, KeyInv, JobsFit, JobFits
      <3> QED  BY <2>1, <3>1, <1>i, <1>s DEF CopyInv, MetaLast, Clean, Complete
    <2> QED  BY <2>3, <2>4
  <1>4. ASSUME NEW w \in Slugs, CreateWorkspace(w) \/ DeleteWorkspace(w)
        PROVE  CopyInv'
    <2>1. Still /\ UNCHANGED << plain, bundles, job, spoiled >>
      BY <1>4 DEF CreateWorkspace, DeleteWorkspace, sealvars
    <2> QED  BY <2>1, <1>q, <1>i DEF Clean
  <1>5. ASSUME NEW w \in Slugs, Shred(w)
        PROVE  CopyInv'
    <2>1. Still /\ UNCHANGED << plain, bundles, spoiled >> /\ AtRest
      BY <1>5 DEF Shred, sealvars, Command, Careful
    <2>2. CASE UNCHANGED job
      BY <2>1, <2>2, <1>q, <1>i DEF Clean
    <2>3. CASE Creates("cli", "shred", FALSE, w)
      BY <2>1, <2>3, <1>c DEF Procs
    <2> QED  BY <1>5, <2>2, <2>3 DEF Shred
  <1>6. ASSUME NEW pass \in Passphrases, UnsealTest(pass)
        PROVE  CopyInv'
    <2>1. Still /\ UNCHANGED << plain, bundles, job, spoiled >>
      BY <1>6, <1>t, CountAttemptTypes DEF UnsealTest, keyvars
    <2> QED  BY <2>1, <1>q, <1>i DEF Clean
  <1>7. ASSUME NEW pass \in Passphrases, ExportRecovery(pass)
        PROVE  CopyInv'
    <2>1. Still /\ UNCHANGED << plain, job, spoiled >>
      BY <1>7, <1>t, CountAttemptTypes DEF ExportRecovery
    <2>2. \A b \in bundles' : b \in bundles \/ (unsealed(pass) # None /\ b.key = unsealed(pass))
      BY <1>7 DEF ExportRecovery
    <2>3. unsealed(pass) # None /\ plain # Torn => unsealed(pass) \in Keys
      BY <1>t, <1>i, UnsealedCopy DEF Clean
    <2> QED  BY <2>1, <2>2, <2>3, <1>q, <1>i DEF Clean
  <1>8. ASSUME NEW pass \in Passphrases, NEW list \in PcrLists, TpmSeal(list, pass)
        PROVE  CopyInv'
    <2> DEFINE n == Sealing("seal", plain, list, pass)
    <2>1. /\ Still /\ UNCHANGED << plain, bundles >> /\ AtRest /\ plain # None
          /\ job' = [job EXCEPT !["cli"] = n] /\ "cli" \in Procs
      BY <1>8 DEF TpmSeal, sealvars, Command, Careful, Procs
    <2>2. n # None /\ n.key = plain /\ Written(n)
      BY <2>1, <1>t, <1>w DEF Material
    <2> HIDE DEF n
    <2>3. plain # Torn => n.key \in Keys
      BY <2>1, <2>2, <1>t
    <2> QED  BY <2>1, <2>2, <2>3, <1>n
  <1>9. ASSUME NEW list \in PcrLists \cup {None}, NEW b \in bundles,
               ImportRecovery(b, list)
        PROVE  CopyInv'
    <2> DEFINE n == Sealing("import", b.key, list, b.pass)
    <2>1. /\ Still /\ UNCHANGED << plain, bundles >> /\ AtRest
          /\ job' = [job EXCEPT !["cli"] = n] /\ "cli" \in Procs
      BY <1>9 DEF ImportRecovery, sealvars, Command, Careful, Procs
    <2>2. b.key \in Material /\ b.pass \in Passphrases
      BY <1>t
    <2>3. n # None /\ n.key = b.key /\ Written(n)
      <3>1. \A k \in Material, pass \in Passphrases :
               LET s == Sealing("import", k, list, pass)
               IN  s # None /\ s.key = k /\ Written(s)
        BY <1>w
      <3> QED  BY <2>2, <3>1
    <2> HIDE DEF n
    <2>4. plain # Torn => n.key \in Keys
      BY <2>3, <1>i DEF Clean
    <2> QED  BY <2>1, <2>3, <2>4, <1>n
  <1>10. ASSUME NEW list \in PcrLists \cup {None}, NEW old \in Passphrases,
                NEW new \in Passphrases, Rotate(old, new, list)
         PROVE  CopyInv'
    <2> DEFINE sg == Sealing("rotate", unsealed(old), list, new)
               n == [sg EXCEPT !.was = meta]
    <2>1. Still /\ UNCHANGED << plain, bundles, spoiled >> /\ AtRest /\ "cli" \in Procs
      BY <1>10, <1>t, CountAttemptTypes DEF Rotate, Command, Careful, Procs
    <2>2. CASE unsealed(old) = None
      <3>1. UNCHANGED job
        BY <2>2, <1>10 DEF Rotate
      <3> QED  BY <2>1, <3>1, <1>q, <1>i DEF Clean
    <2>3. CASE unsealed(old) # None
      <3>1. unsealed(old) \in Material
        BY <2>3, <1>t, UnsealedIs
      <3>2. plain # Torn => unsealed(old) \in Keys
        BY <2>3, <1>t, <1>i, UnsealedCopy DEF Clean
      <3>3. job' = [job EXCEPT !["cli"] = n]
        BY <2>3, <1>10 DEF Rotate
      <3>4. n.key = unsealed(old) /\ Written(n)
        BY DEF Sealing, first_file, Written
      <3>5. n # None
        <4>1. sg \in Job
          BY <3>1, SealingIsJob
        <4>2. meta \in SealMeta
          BY <1>10, <1>t DEF Rotate, seal_status, SealTypeOK
        <4> HIDE DEF sg
        <4>3. n \in Job
          BY <4>1, <4>2 DEF Job
        <4> QED  BY <4>3, CustodyConstants
      <3> HIDE DEF n
      <3> QED  BY <2>1, <3>2, <3>3, <3>4, <3>5, <1>n
    <2> QED  BY <2>2, <2>3
  <1>11. CASE RemovePlain
    <2>1. Still /\ UNCHANGED << bundles, job, spoiled >> /\ AtRest
      BY <1>11 DEF RemovePlain, sealvars
    <2>2. plain # Torn \/ ~is_sealed
      BY <1>11, SealConstants DEF RemovePlain
    <2>3. Clean'
      <3>1. CASE plain # Torn
        BY <3>1, <2>1, <1>i, <1>s DEF Clean
      <3>2. CASE ~is_sealed
        <4>1. bundles = {} /\ SealedCopy = None
          BY <3>2 DEF KeyInv, Exported, SealedCopy, seal_status, is_sealed
        <4> QED  BY <4>1, <2>1, <1>s DEF Clean, AtRest
      <3> QED  BY <2>2, <3>1, <3>2
    <2> QED  BY <2>1, <2>3, <1>i, <1>s DEF CopyInv, MetaLast, Complete, AtRest
  <1>12. CASE Configure
    <2>1. Still /\ UNCHANGED << plain, bundles, job, spoiled >>
      BY <1>12 DEF Configure, sealvars
    <2> QED  BY <2>1, <1>q, <1>i DEF Clean
  <1>13. CASE (CoolDown \/ Reboot) /\ UNCHANGED keyvars
    <2>1. Still /\ UNCHANGED << plain, bundles, job, spoiled >>
      BY <1>13 DEF CoolDown, Reboot, keyvars
    <2> QED  BY <2>1, <1>q, <1>i DEF Clean
  <1> QED
    BY <1>1, <1>2, <1>3, <1>4, <1>5, <1>6, <1>7, <1>8, <1>9, <1>10, <1>11, <1>12, <1>13

\* With the same administrator, between commands and unless a sealing was cut
\* short, the KEK of every DEK can be had from master.key or from the sealed copy.
THEOREM KekIsKept == CarefulAdmin => (Spec => []KekKept)
  <1> SUFFICES ASSUME CarefulAdmin PROVE Spec => []KekKept
    OBVIOUS
  <1>1. Init => TInv /\ KeyInv /\ CopyInv
    BY InitTypes, InitKey, InitCopy
  <1>2. TInv /\ KeyInv /\ CopyInv /\ [Next]_vars => TInv' /\ KeyInv' /\ CopyInv'
    <2> SUFFICES ASSUME TInv, KeyInv, CopyInv, [Next]_vars PROVE KeyInv' /\ CopyInv'
      BY NextTypes
    <2>1. CASE UNCHANGED vars
      <3>1. KeyInv'
        BY <2>1, KeyStutter
      <3>2. CopyInv'
        BY <2>1 DEF vars, keyvars, sealvars, CopyInv, MetaLast, Clean, Complete, Written,
           SealedCopy, seal_status, is_sealed, AtRest
      <3> QED  BY <3>1, <3>2
    <2>2. CASE Next
      BY <2>2, WriteKey, OtherKey, WriteCopy, OtherCopy DEF Next
    <2> QED  BY <2>1, <2>2
  <1>3. TInv /\ KeyInv /\ CopyInv => KekKept
    <2> SUFFICES ASSUME TInv, KeyInv, CopyInv, AtRest, ~spoiled,
                        NEW w \in Slugs, rows[w] \in Keys
                 PROVE  rows[w] \in {plain, SealedCopy}
      BY DEF KekKept
    <2>1. Holds(rows[w]) /\ ~Fresh
      BY DEF KeyInv, FreshHasNone, Holds
    <2>2. CASE plain \in Keys
      BY <2>1, <2>2 DEF KeyInv, SameKey, InUse, Holds
    <2>3. CASE plain = None /\ is_sealed
      <3>1. SealedCopy \in Keys
        BY <2>3, SealConstants DEF CopyInv, Complete, Clean
      <3>2. Holds(SealedCopy)
        BY <3>1, CopyHeld, SealConstants DEF TInv, KeyTypeOK
      <3> QED  BY <2>1, <3>1, <3>2 DEF KeyInv, SameKey, InUse
    <2> QED  BY <2>1, <2>2, <2>3 DEF Fresh, TInv, KeyTypeOK
  <1> QED  BY <1>1, <1>2, <1>3, PTL DEF Spec
=============================================================================
