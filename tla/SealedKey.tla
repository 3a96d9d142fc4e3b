----------------------------- MODULE SealedKey -----------------------------
(***************************************************************************)
(* The sealed copy of a key under <data_dir>/tpm/<purpose>/                *)
(* (maranode-attestation/src/seal.rs): meta.json, the software blob        *)
(* sealed.bin, the TPM object sealed.pub and sealed.priv, and the counter  *)
(* of failed attempts.                                                     *)
(*                                                                         *)
(* Every file is truncated and then written, with no lock between the      *)
(* processes that do so.  A sealing is a record of what is being sealed    *)
(* and of the file that is written next.                                   *)
(***************************************************************************)
EXTENDS Naturals

CONSTANTS
    Keys, Passphrases,
    PcrLists,            \* lists of PCR indices
    Platforms,           \* values of the PCRs
    TpmTools,            \* is_tpm2_tools_available
    UNSEAL_FAIL_LOCKOUT,
    None, Torn           \* no file, no value; a file truncated or half written

\* The bytes of a key file that was cut short can be sealed as well.
Material == Keys \cup {Torn}

SealMeta == [backend: {"tpm2", "software"}, pcr_list: PcrLists \cup {None}]
Blob     == [key: Material, pass: Passphrases]
Object   == [key: Material, pcr_list: PcrLists, platform: Platforms]

ASSUME SealConstants ==
    /\ TpmTools \in BOOLEAN
    /\ UNSEAL_FAIL_LOCKOUT \in Nat \ {0}
    /\ None # Torn
    /\ \A x \in {None, Torn} :
         /\ x \notin Keys /\ x \notin PcrLists
         /\ x \notin SealMeta /\ x \notin Blob /\ x \notin Object

VARIABLES
    meta,        \* meta.json
    sealed_bin,  \* sealed.bin
    object,      \* sealed.pub and sealed.priv
    fails,       \* FailCounter.count, up to the lockout
    cooling,     \* at the lockout: less than LOCKOUT_SECS since last_fail_ts
    platform     \* the present values of the PCRs

sealvars == << meta, sealed_bin, object, fails, cooling, platform >>

SealTypeOK ==
    /\ meta \in SealMeta \cup {None, Torn}
    /\ sealed_bin \in Blob \cup {None, Torn}
    /\ object \in Object \cup {None, Torn}
    /\ fails \in 0..UNSEAL_FAIL_LOCKOUT
    /\ cooling \in BOOLEAN
    /\ platform \in Platforms

SealInit ==
    /\ meta = None /\ sealed_bin = None /\ object = None
    /\ fails = 0 /\ cooling = FALSE
    /\ platform \in Platforms

-----------------------------------------------------------------------------
(* seal *)

\* The first file seal writes: with a PCR list and the tools the TPM object.
first_file(list) == IF list # None /\ TpmTools THEN "object" ELSE "bin"

\* software_seal records no PCR list.
MetaOf(s) ==
    IF s.backend = "tpm2" THEN [backend |-> "tpm2", pcr_list |-> s.pcr_list]
                          ELSE [backend |-> "software", pcr_list |-> None]

\* The file of the sealing s gets the content c.
SetFile(s, c) ==
    /\ meta'       = IF s.file = "meta"   THEN c ELSE meta
    /\ sealed_bin' = IF s.file = "bin"    THEN c ELSE sealed_bin
    /\ object'     = IF s.file = "object" THEN c ELSE object
    /\ UNCHANGED << fails, cooling, platform >>

Content(s) ==
    CASE s.file = "meta"   -> MetaOf(s)
      [] s.file = "bin"    -> [key |-> s.key, pass |-> s.pass]
      [] s.file = "object" -> [key |-> s.key, pcr_list |-> s.pcr_list,
                               platform |-> platform]

-----------------------------------------------------------------------------
(* unseal *)

is_sealed   == meta # None
seal_status == meta \notin {None, Torn}

tpm2_unseal(list) ==
    IF object \notin {None, Torn} /\ object.pcr_list = list
         /\ object.platform = platform
    THEN object.key ELSE None

software_unseal(pass) ==
    IF sealed_bin \notin {None, Torn} /\ sealed_bin.pass = pass
    THEN sealed_bin.key ELSE None

\* check_dos_limit
LockedOut == fails = UNSEAL_FAIL_LOCKOUT /\ cooling

\* What unseal returns, None for an error.
unsealed(pass) ==
    IF LockedOut \/ ~seal_status THEN None
    ELSE IF meta.backend = "tpm2" THEN tpm2_unseal(meta.pcr_list)
                                  ELSE software_unseal(pass)

\* The counter after unseal: an attempt that is locked out or finds no meta.json
\* returns before it is counted.
CountAttempt(pass) ==
    /\ IF LockedOut \/ ~seal_status THEN UNCHANGED << fails, cooling >>
       ELSE IF unsealed(pass) # None
            THEN fails' = 0 /\ cooling' = FALSE
            ELSE /\ fails' = IF fails = UNSEAL_FAIL_LOCKOUT THEN fails ELSE fails + 1
                 /\ cooling' = (fails' = UNSEAL_FAIL_LOCKOUT)
    /\ UNCHANGED << meta, sealed_bin, object, platform >>

\* LOCKOUT_SECS pass.
CoolDown ==
    /\ cooling
    /\ cooling' = FALSE
    /\ UNCHANGED << meta, sealed_bin, object, fails, platform >>

\* A firmware update or another machine: the PCRs change.
Reboot ==
    /\ \E v \in Platforms : v # platform /\ platform' = v
    /\ UNCHANGED << meta, sealed_bin, object, fails, cooling >>

\* The key meta.json leads to, for whoever has the passphrase and the platform.
SealedCopy ==
    IF ~seal_status THEN None
    ELSE IF meta.backend = "software"
         THEN IF sealed_bin \in {None, Torn} THEN None ELSE sealed_bin.key
         ELSE IF object \in {None, Torn} THEN None
              ELSE IF object.pcr_list = meta.pcr_list THEN object.key ELSE None
=============================================================================
