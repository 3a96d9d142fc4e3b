----------------------------- MODULE LegalHold ------------------------------
(***************************************************************************)
(* Legal holds on ranges of audit entries (maranode-api/src/legal_hold.rs, *)
(* routes/hold.rs and `maranode hold`): the hold key pair in the files     *)
(* hold.pub and hold.key and perhaps in the TPM, one JSON file per hold,   *)
(* and release signatures made away from the server. Handlers run on       *)
(* several threads, hold no lock and write files in place.                 *)
(*                                                                         *)
(* A key stands for the pair, a signature is a record of what was signed   *)
(* with which key. Utc::now() never gives the same instant twice; a hold   *)
(* is named after the second it is placed in.                              *)
(***************************************************************************)
EXTENDS Integers, FiniteSets

CONSTANTS
    None, Torn,
    HoldKeys,         \* key pairs
    LastSeq,          \* entries of the audit log: 1 .. LastSeq
    TicksPerSecond,
    MaxNow,           \* bound: instants
    Clerks            \* concurrent requests

Seqs    == 1 .. LastSeq
Instant == 0 .. MaxNow
Ids     == {t \div TicksPerSecond : t \in Instant}

\* HoldRecord: placement_sig by the key that made it, whether that key came
\* with the request or from the TPM (own), and whether release_sig is there.
Hold == [from: Seqs, to: Seqs, expires_at: Instant \cup {None},
         hold_key_pubkey: HoldKeys, placed_with: HoldKeys, own: BOOLEAN,
         released: BOOLEAN]

\* ReleasePayload signed with a key
ReleaseSig == [id: Ids, at: Instant, key: HoldKeys]

HoldJob == [op: {"pub", "key", "seal"}, key: HoldKeys, seal: BOOLEAN]
             \cup [op: {"sign", "save", "release"}, id: Ids, rec: Hold]

ASSUME HoldConstants ==
    /\ LastSeq \in Nat \ {0} /\ TicksPerSecond \in Nat \ {0} /\ MaxNow \in Nat
    /\ None \notin HoldKeys /\ Torn \notin HoldKeys /\ None # Torn
    /\ None \notin HoldJob /\ None \notin Hold /\ Torn \notin Hold

VARIABLES
    hold_pub,   \* hold.pub
    hold_key,   \* hold.key
    sealed,     \* the TPM's "hold-key"
    holds,      \* legal-holds/<id>.json
    sigs,       \* signatures the compliance officer has made
    kept,       \* entries of the audit log that are still there
    now,
    desk,       \* what each request is doing
    promised,   \* holds answered with 200 and not released: id -> record
    clobbered,  \* ids that two requests were given
    lost,       \* ids whose file a crash tore
    mixed       \* key generations overlapped a request or were cut short

holdvars == << hold_pub, hold_key, sealed, holds, sigs, kept, now, desk,
               promised, clobbered, lost, mixed >>

HoldTypeOK ==
    /\ hold_pub \in HoldKeys \cup {None, Torn} /\ hold_key \in HoldKeys \cup {None, Torn}
    /\ sealed \in HoldKeys \cup {None}
    /\ holds \in [Ids -> Hold \cup {None, Torn}]
    /\ sigs \subseteq ReleaseSig /\ kept \subseteq Seqs /\ now \in Instant
    /\ desk \in [Clerks -> HoldJob \cup {None}]
    /\ promised \in [Ids -> Hold \cup {None}]
    /\ clobbered \subseteq Ids /\ lost \subseteq Ids /\ mixed \in BOOLEAN

HoldInit ==
    /\ hold_pub = None /\ hold_key = None /\ sealed = None
    /\ holds = [i \in Ids |-> None] /\ sigs = {} /\ kept = Seqs /\ now = 0
    /\ desk = [c \in Clerks |-> None] /\ promised = [i \in Ids |-> None]
    /\ clobbered = {} /\ lost = {} /\ mixed = FALSE

\* Utc::now()
Reads == now < MaxNow /\ now' = now + 1

\* HoldRecord::is_active, at the instant t
is_active(r, t) ==
    ~r.released /\ (IF r.expires_at = None THEN TRUE ELSE t < r.expires_at)

\* covers_seq
covers_seq(r, s, t) == is_active(r, t) /\ s \in r.from .. r.to

OnFile(i) == holds[i] \in Hold

Doing(c, op)  == desk[c] # None /\ desk[c].op = op
Begins(c, j)  == desk[c] = None /\ desk' = [desk EXCEPT ![c] = j]
Continues(c, op) == desk' = [desk EXCEPT ![c].op = op]
Answers(c)    == desk' = [desk EXCEPT ![c] = None]

Generating == {c \in Clerks : desk[c] # None /\ desk[c].op \in {"pub", "key", "seal"}}

(***************************************************************************)
(* generate_key                                                            *)
(***************************************************************************)

\* SigningKey::generate: a pair nobody has.
KeysOf(r) == {r.hold_key_pubkey, r.placed_with}

Fresh == {k \in HoldKeys :
            /\ k \notin {hold_pub, hold_key, sealed}
            /\ \A c \in Clerks : desk[c] # None =>
                 k \notin (IF c \in Generating THEN {desk[c].key} ELSE KeysOf(desk[c].rec))
            /\ \A i \in Ids : OnFile(i) => k \notin KeysOf(holds[i])
            /\ \A i \in Ids : promised[i] # None => k \notin KeysOf(promised[i])
            /\ \A s \in sigs : s.key # k}

generate_key(c, seal) ==
    /\ \E k \in Fresh : Begins(c, [op |-> "pub", key |-> k, seal |-> seal])
    /\ mixed' = (mixed \/ \E d \in Clerks : desk[d] # None)
    /\ UNCHANGED << hold_pub, hold_key, sealed, holds, sigs, kept, now, promised,
                    clobbered, lost >>

\* generate_hold_key: hold.pub, then hold.key, whatever was there before; then
\* the TPM if the caller asked for it, which may fail.
WritePub(c) ==
    /\ Doing(c, "pub") /\ hold_pub' = desk[c].key /\ Continues(c, "key")
    /\ UNCHANGED << hold_key, sealed, holds, sigs, kept, now, promised, clobbered,
                    lost, mixed >>

WriteKey(c) ==
    /\ Doing(c, "key") /\ hold_key' = desk[c].key
    /\ IF desk[c].seal THEN Continues(c, "seal") ELSE Answers(c)
    /\ UNCHANGED << hold_pub, sealed, holds, sigs, kept, now, promised, clobbered,
                    lost, mixed >>

SealKey(c) ==
    /\ Doing(c, "seal") /\ sealed' \in {sealed, desk[c].key} /\ Answers(c)
    /\ UNCHANGED << hold_pub, hold_key, holds, sigs, kept, now, promised, clobbered,
                    lost, mixed >>

(***************************************************************************)
(* place                                                                   *)
(***************************************************************************)

\* new_hold_id takes the second, the key in the TPM or the caller's own key
\* may take the place of hold.key, and place_hold reads hold.pub.
place(c, from, to, expires, own) ==
    /\ from <= to /\ hold_pub \in HoldKeys /\ now < MaxNow
    /\ own \in HoldKeys \cup {None}
    /\ Begins(c, [op |-> "sign", id |-> now \div TicksPerSecond,
                  rec |-> [from |-> from, to |-> to, expires_at |-> expires,
                           hold_key_pubkey |-> hold_pub,
                           placed_with |-> IF own # None THEN own ELSE hold_pub,
                           own |-> own # None, released |-> FALSE]])
    /\ mixed' = (mixed \/ Generating # {})
    /\ UNCHANGED << hold_pub, hold_key, sealed, holds, sigs, kept, now, promised,
                    clobbered, lost >>

\* placed_at, and resolve_signing_key: without a key of its own the request
\* signs with hold.key as it is now. Nothing compares it with hold.pub.
PlaceSign(c) ==
    /\ Doing(c, "sign") /\ Reads
    /\ IF desk[c].rec.own THEN Continues(c, "save")
       ELSE IF hold_key \in HoldKeys
       THEN desk' = [desk EXCEPT ![c].op = "save", ![c].rec.placed_with = hold_key]
       ELSE Answers(c)
    /\ UNCHANGED << hold_pub, hold_key, sealed, holds, sigs, kept, promised, clobbered,
                    lost, mixed >>

\* save_hold, in place, and the answer
PlaceSave(c) ==
    /\ Doing(c, "save")
    /\ LET i == desk[c].id
       IN /\ clobbered' = IF holds[i] = None THEN clobbered ELSE clobbered \cup {i}
          /\ holds' = [holds EXCEPT ![i] = desk[c].rec]
          /\ promised' = [promised EXCEPT ![i] = desk[c].rec]
    /\ Answers(c)
    /\ UNCHANGED << hold_pub, hold_key, sealed, sigs, kept, now, lost, mixed >>

(***************************************************************************)
(* release                                                                 *)
(***************************************************************************)

\* `maranode hold sign-release` signs the instant it runs at; the route also
\* takes an instant from its caller.
sign_release(i, k, at) ==
    /\ Reads /\ at >= now
    /\ k = hold_pub \/ \E j \in Ids : OnFile(j) /\ holds[j].hold_key_pubkey = k
    /\ sigs' = sigs \cup {[id |-> i, at |-> at, key |-> k]}
    /\ UNCHANGED << hold_pub, hold_key, sealed, holds, kept, desk, promised,
                    clobbered, lost, mixed >>

\* Mutant of VerifiesRelease: a signature for another hold will do.
VerifiesAnyHold(sig, i) == sig.key = hold_pub /\ sig.at = now

\* The signature must be by the key in hold.pub, over the very instant of this
\* request.
VerifiesRelease(sig, i) == sig.id = i /\ sig.key = hold_pub /\ sig.at = now

release(c, i, sig) ==
    /\ OnFile(i) /\ is_active(holds[i], now) /\ VerifiesRelease(sig, i)
    /\ Reads
    /\ Begins(c, [op |-> "release", id |-> i, rec |-> holds[i]])
    /\ UNCHANGED << hold_pub, hold_key, sealed, holds, sigs, kept, promised, clobbered,
                    lost, mixed >>

\* A signature that does not verify, or a hold that is over: 400.
ReleaseRefused(i, sig) ==
    /\ OnFile(i) => ~(is_active(holds[i], now) /\ VerifiesRelease(sig, i))
    /\ Reads
    /\ UNCHANGED << hold_pub, hold_key, sealed, holds, sigs, kept, desk, promised,
                    clobbered, lost, mixed >>

ReleaseSave(c) ==
    /\ Doing(c, "release")
    /\ LET i == desk[c].id
       IN /\ holds' = [holds EXCEPT ![i] = [desk[c].rec EXCEPT !.released = TRUE]]
          /\ promised' = IF \E s \in sigs : s.id = i /\ s.key = desk[c].rec.hold_key_pubkey
                         THEN [promised EXCEPT ![i] = None] ELSE promised
    /\ Answers(c)
    /\ UNCHANGED << hold_pub, hold_key, sealed, sigs, kept, now, clobbered, lost, mixed >>

-----------------------------------------------------------------------------
\* The retention sweep drops the entries older than its cutoff. It never asks
\* guard_retention_delete, which no code calls.
Retention(s) ==
    /\ s \in kept /\ kept' = {e \in kept : e > s}
    /\ UNCHANGED << hold_pub, hold_key, sealed, holds, sigs, now, desk, promised,
                    clobbered, lost, mixed >>

\* The file a request is writing, torn when the process dies inside std::fs::write.
HoldCrash ==
    /\ desk' = [c \in Clerks |-> None]
    /\ mixed' = (mixed \/ Generating # {})
    /\ \/ UNCHANGED << hold_pub, hold_key, holds, lost >>
       \/ \E c \in Clerks :
            \/ Doing(c, "pub") /\ hold_pub' = Torn /\ UNCHANGED << hold_key, holds, lost >>
            \/ Doing(c, "key") /\ hold_key' = Torn /\ UNCHANGED << hold_pub, holds, lost >>
            \/ /\ Doing(c, "save") \/ Doing(c, "release")
               /\ holds' = [holds EXCEPT ![desk[c].id] = Torn]
               /\ lost' = lost \cup {desk[c].id}
               /\ UNCHANGED << hold_pub, hold_key >>
    /\ UNCHANGED << sealed, sigs, kept, now, promised, clobbered >>

HoldRequest ==
    \/ \E c \in Clerks, seal \in BOOLEAN : generate_key(c, seal)
    \/ \E c \in Clerks, from, to \in Seqs, exp \in {None, MaxNow - 1},
          own \in {None, sealed, hold_key} : place(c, from, to, exp, own)
    \/ \E i \in Ids, k \in HoldKeys, at \in Instant : sign_release(i, k, at)
    \/ \E c \in Clerks, i \in Ids, s \in sigs : release(c, i, s)
    \/ \E i \in Ids, s \in sigs : ReleaseRefused(i, s)

HoldStep ==
    \/ \E c \in Clerks : \/ WritePub(c) \/ WriteKey(c) \/ SealKey(c)
                         \/ PlaceSign(c) \/ PlaceSave(c) \/ ReleaseSave(c)
    \/ \E s \in Seqs : Retention(s)
-----------------------------------------------------------------------------
\* A hold that was confirmed is on file and active until it expires or until
\* the holder of the key it was placed under signs its release: no other
\* request, retry or crash lifts it. The exceptions are a second hold placed in
\* the same second, a file torn by a crash, and a key pair that was replaced
\* after the hold was placed, because release_hold asks the present hold.pub.
PromisedHoldsStand ==
    \A i \in Ids : promised[i] # None =>
        \/ i \in clobbered \cup lost
        \/ promised[i].hold_key_pubkey # hold_pub
        \/ /\ OnFile(i) /\ ~holds[i].released
           /\ holds[i].from = promised[i].from /\ holds[i].to = promised[i].to

\* Every hold is signed by the key it names, so that it can be shown to be
\* genuine, except a hold placed with a key of the request or of the TPM, and
\* holds after a key generation that overlapped a request or was cut short.
HoldsSignedByTheirKey ==
    \A i \in Ids : OnFile(i) =>
        mixed \/ holds[i].own \/ holds[i].placed_with = holds[i].hold_key_pubkey

\* What HANDBOOK.md says of a hold: its entries can not be pruned until it is
\* released.
HeldEntriesKept ==
    [][\A i \in Ids, s \in kept :
          OnFile(i) /\ covers_seq(holds[i], s, now) => s \in kept']_holdvars

\* What release_hold and place_hold owe to the holds on file.
HoldsSound == HoldTypeOK /\ PromisedHoldsStand /\ HoldsSignedByTheirKey
=============================================================================
