------------------------------ MODULE AuditLog ------------------------------
(***************************************************************************)
(* One audit log of the maranode daemon: AuditLog of maranode-audit (open, *)
(* append, rotation into sealed segments, segment retention), the daemon's *)
(* retention sweep, and prune_log, which rewrites the log file without     *)
(* taking the AuditLog mutex.                                              *)
(*                                                                         *)
(* A file is a sequence of lines.  Sizes are counted in lines.  Time is    *)
(* the stamp of the latest append: a cutoff c stands for an instant after  *)
(* the append with stamp c - 1, so a line is older than c iff ts < c.      *)
(***************************************************************************)
EXTENDS AuditChain

CONSTANTS
    MaxLines,    \* RotateConfig.max_bytes, in lines; 0 turns size rotation off
    AgeRotation, \* RotateConfig.max_age_days > 0 (and below retain_days)
    Retention,   \* content_log_retention_days > 0
    TornWrites,  \* a crash during write_all may leave a part of the line
    IOFaults,    \* write, fsync, seal, truncate and reopen may fail
    AdminPrune,  \* when an administrator prunes: never, offline (the daemon is
                 \* down) or online
    MaxAppends,  \* bound: appends attempted
    MaxPrunes,   \* bound: administrator's prunes
    MaxFaults    \* bound: crashes and failed operations

ASSUME AuditLogConstants ==
    /\ {MaxLines, MaxAppends, MaxPrunes, MaxFaults} \subseteq Nat
    /\ {AgeRotation, Retention, TornWrites, IOFaults} \subseteq BOOLEAN
    /\ AdminPrune \in {"never", "offline", "online"}

VARIABLES
    active,      \* the lines of the file at log_path
    nl,          \* that file is empty or ends with a newline
    manifest,    \* segments.json: sequence of segments
    up,          \* the daemon is running
    seq, hmac,   \* LogInner.seq, LogInner.last_hmac
    detached,    \* LogInner.file is not the file at log_path any more
    orphanLen,   \* lines of the file LogInner.file is, when it is detached
    pc,          \* where the holder of the LogInner mutex is
    pend,        \* the entry append has written and not yet synced
    before,      \* the lines of log_path before that write
    content,     \* what rotate_locked read from log_path
    sweep,       \* where the retention sweep is
    age, ret,    \* the sweep's age and retention cutoffs
    pruner,      \* per caller of prune_log: is it between read and rename
    kept,        \* per caller of prune_log: the lines it keeps
    clock,       \* stamp of the latest append
    expired,     \* greatest retention cutoff anyone asked for
    acked,       \* entries synced by an append that returns Ok
    prunes, faults

file  == << active, nl >>
inner == << seq, hmac, detached, orphanLen >>
job   == << pend, before, content >>
sched == << sweep, age, ret >>
prun  == << pruner, kept >>
ghost == << expired, acked >>
counts == << prunes, faults >>
vars == << active, nl, manifest, up, seq, hmac, detached, orphanLen, pc, pend,
           before, content, sweep, age, ret, pruner, kept, clock, expired, acked,
           prunes, faults >>

Pruners == {"sweep", "admin"}

PcStates    == {"free", "wrote", "seal", "sealed", "truncated", "removed"}
SweepStates == {"off", "rotate", "rotating", "retain", "retaining", "prune"}

\* Every variable holds a value of the kind the code gives it.
TypeOK ==
    /\ active \in Seq(Line) /\ before \in Seq(Line) /\ content \in Seq(Line)
    /\ manifest \in Seq(Segment)
    /\ pend \in Line
    /\ kept \in [Pruners -> Seq(Line)] /\ pruner \in [Pruners -> BOOLEAN]
    /\ nl \in BOOLEAN /\ up \in BOOLEAN /\ detached \in BOOLEAN
    /\ seq \in Nat /\ hmac \in Nat /\ orphanLen \in Nat
    /\ age \in Nat /\ ret \in Nat /\ clock \in Nat /\ expired \in Nat
    /\ prunes \in Nat /\ faults \in Nat
    /\ pc \in PcStates /\ sweep \in SweepStates
    /\ acked \subseteq Line

Init ==
    /\ active = << >> /\ nl = TRUE /\ manifest = << >>
    /\ up = TRUE /\ seq = 0 /\ hmac = GENESIS
    /\ detached = FALSE /\ orphanLen = 0
    /\ pc = "free" /\ pend = Junk /\ before = << >> /\ content = << >>
    /\ sweep = "off" /\ age = 0 /\ ret = 0
    /\ pruner = [p \in Pruners |-> FALSE] /\ kept = [p \in Pruners |-> << >>]
    /\ clock = 0 /\ expired = 0 /\ acked = {}
    /\ prunes = 0 /\ faults = 0

-----------------------------------------------------------------------------
(* append *)

\* inner.file.metadata().len()
HandleLen == IF detached THEN orphanLen ELSE Len(active)

NextEntry == [seq |-> seq + 1, prev |-> hmac, ts |-> clock + 1]

\* append up to write_all.  After a line that has no newline the new text
\* continues that line, and the two together do not parse.
AppendWrite ==
    /\ up /\ pc = "free" /\ clock < MaxAppends
    /\ clock' = clock + 1
    /\ pend' = NextEntry
    /\ pc' = "wrote"
    /\ IF detached
       THEN /\ orphanLen' = orphanLen + 1
            /\ UNCHANGED << file, before >>
       ELSE /\ before' = active
            /\ active' = IF nl THEN Append(active, NextEntry)
                         ELSE [active EXCEPT ![Len(active)] = Junk]
            /\ nl' = TRUE /\ UNCHANGED orphanLen
    /\ UNCHANGED << manifest, up, seq, hmac, detached, content, sched, prun,
                    ghost, counts >>

\* rotate_locked goes on to seal: the handle is not empty, the trigger fires
\* and the content of log_path holds an entry.
Rotates(trigger) == HandleLen > 0 /\ trigger /\ EntryIdx(active) # {}

SizeTrigger == MaxLines > 0 /\ HandleLen >= MaxLines

\* append from sync_all on: the entry is durable, seq and last_hmac advance,
\* and the size trigger of rotate_locked is tried.
AppendSync ==
    /\ pc = "wrote"
    /\ seq' = pend.seq /\ hmac' = pend.ts
    /\ acked' = acked \cup {pend}
    /\ pend' = Junk /\ before' = << >>
    /\ IF Rotates(SizeTrigger)
       THEN pc' = "seal" /\ content' = active
       ELSE pc' = "free" /\ UNCHANGED content
    /\ UNCHANGED << file, manifest, up, detached, orphanLen, sched, prun, clock,
                    expired, counts >>

\* What an append that did not reach the end of sync_all leaves of its line:
\* all of it, all but the newline, a part of it, or nothing.  A file that a
\* prune has put in place meanwhile is not touched.
LeaveTail(torn) ==
    \/ UNCHANGED file
    \/ /\ ~detached
       /\ active' = before /\ nl' = (Len(before) < Len(active))
    \/ /\ ~detached /\ torn
       /\ active' \in { active, [active EXCEPT ![Len(active)] = Junk] }
       /\ nl' = FALSE

\* write_all or sync_all returns an error: append returns it and leaves seq
\* and last_hmac as they were.
AppendFails ==
    /\ IOFaults /\ pc = "wrote" /\ faults < MaxFaults
    /\ faults' = faults + 1
    /\ LeaveTail(TRUE)
    /\ pc' = "free" /\ pend' = Junk /\ before' = << >>
    /\ UNCHANGED << manifest, up, inner, content, sched, prun, clock, ghost,
                    prunes >>

-----------------------------------------------------------------------------
(* rotate_locked, on behalf of append or of the sweep *)

\* The rotation ends: the mutex is released and a sweep goes on.
Unlock ==
    /\ pc' = "free" /\ content' = << >>
    /\ sweep' = IF sweep = "rotating" THEN "retain" ELSE sweep

\* seal_segment: zip written and synced, then the manifest saved by rename.
\* (A zip that no manifest row names is never read.)
SealSegment ==
    /\ pc = "seal"
    /\ manifest' = Append(manifest, [lines |-> content, file |-> TRUE])
    /\ pc' = "sealed"
    /\ UNCHANGED << file, up, inner, job, sched, prun, clock, ghost, counts >>

\* topts.open(log_path): truncates whatever file is at log_path now.
Truncate ==
    /\ pc = "sealed"
    /\ active' = << >> /\ nl' = TRUE
    /\ pc' = "truncated"
    /\ UNCHANGED << manifest, up, inner, job, sched, prun, clock, ghost, counts >>

\* inner.file = aopts.open(log_path)
Reopen ==
    /\ pc = "truncated"
    /\ detached' = FALSE /\ orphanLen' = 0
    /\ Unlock
    /\ UNCHANGED << file, manifest, up, seq, hmac, pend, before, age, ret, prun,
                    clock, ghost, counts >>

\* One of these steps fails: append drops the error, the sweep logs it.
RotateFails ==
    /\ IOFaults /\ pc \in {"seal", "sealed", "truncated"} /\ faults < MaxFaults
    /\ faults' = faults + 1
    /\ Unlock
    /\ UNCHANGED << file, manifest, up, inner, pend, before, age, ret, prun,
                    clock, ghost, prunes >>

-----------------------------------------------------------------------------
(* sweep_audit_dir: rotate, drop expired segments, prune the active file *)

\* now - max_age_days and now - retain_days, both non-decreasing.
SweepStart ==
    /\ up /\ sweep = "off"
    /\ ret' \in IF Retention THEN ret .. (clock + 1) ELSE {0}
    /\ age' \in IF AgeRotation THEN ret' .. (clock + 1) ELSE {0}
    /\ sweep' = "rotate"
    /\ expired' = IF ret' > expired THEN ret' ELSE expired
    /\ UNCHANGED << file, manifest, up, inner, pc, job, prun, clock, acked,
                    counts >>

AgeTrigger == AgeRotation /\ EntryIdx(active) # {} /\ FirstEntry(active).ts < age

\* maybe_rotate takes the mutex.
SweepRotate ==
    /\ sweep = "rotate" /\ pc = "free"
    /\ IF Rotates(SizeTrigger \/ AgeTrigger)
       THEN pc' = "seal" /\ content' = active /\ sweep' = "rotating"
       ELSE sweep' = "retain" /\ UNCHANGED << pc, content >>
    /\ UNCHANGED << file, manifest, up, inner, pend, before, age, ret, prun, clock,
                    ghost, counts >>

\* Mutant of ExpiredRows: ts_first in the place of ts_last.
ExpiredRowsByFirst ==
    { k \in DOMAIN manifest : FirstEntry(manifest[k].lines).ts < ret }

ExpiredRows == { k \in DOMAIN manifest : TsLast(manifest[k]) < ret }

\* enforce_segment_retention, under the mutex: the files go first ...
RemoveSegments ==
    /\ sweep = "retain" /\ pc = "free"
    /\ IF ExpiredRows # {}
       THEN /\ manifest' = [k \in DOMAIN manifest |->
                              [manifest[k] EXCEPT !.file =
                                 @ /\ k \notin ExpiredRows]]
            /\ pc' = "removed" /\ sweep' = "retaining"
       ELSE sweep' = "prune" /\ UNCHANGED << manifest, pc >>
    /\ UNCHANGED << file, up, inner, job, age, ret, prun, clock, ghost, counts >>

\* ... and then the manifest is saved without them.
SaveManifest ==
    /\ pc = "removed"
    /\ \E f \in Orders(manifest, DOMAIN manifest \ ExpiredRows) :
         manifest' = At(manifest, f)
    /\ pc' = "free" /\ sweep' = "prune"
    /\ UNCHANGED << file, up, inner, job, age, ret, prun, clock, ghost, counts >>

-----------------------------------------------------------------------------
(* prune_log *)

\* The entries older than the cutoff.
Old(cut) == { i \in EntryIdx(active) : active[i].ts < cut }

\* Reads log_path and picks the lines to keep; nothing old, nothing done.
PruneRead(p, cut) ==
    IF Old(cut) = {} THEN UNCHANGED prun
    ELSE /\ pruner' = [pruner EXCEPT ![p] = TRUE]
         /\ \E f \in Orders(active, DOMAIN active \ Old(cut)) :
              kept' = [kept EXCEPT ![p] = At(active, f)]

\* The last part of a sweep.  It does not take the mutex.
SweepPrune ==
    /\ sweep = "prune" /\ ~pruner["sweep"]
    /\ PruneRead("sweep", ret)
    /\ sweep' = IF Old(ret) = {} THEN "off" ELSE sweep
    /\ UNCHANGED << file, manifest, up, inner, pc, job, age, ret, clock, ghost,
                    counts >>

\* do_prune and the CLI's prune: retain_days is the caller's.
PruneStart ==
    /\ AdminPrune # "never" /\ (AdminPrune = "offline" => ~up)
    /\ ~pruner["admin"] /\ prunes < MaxPrunes
    /\ prunes' = prunes + 1
    /\ \E cut \in 1 .. (clock + 1) :
         /\ PruneRead("admin", cut)
         /\ expired' = IF cut > expired THEN cut ELSE expired
    /\ UNCHANGED << file, manifest, up, inner, pc, job, sched, clock, acked,
                    faults >>

\* The kept lines are written and synced to a new file, which is renamed over
\* log_path.  The daemon's handle stays on the file that was there before.
PruneRename(p) ==
    /\ pruner[p]
    /\ pruner' = [pruner EXCEPT ![p] = FALSE]
    /\ kept' = [kept EXCEPT ![p] = << >>]
    /\ active' = kept[p] /\ nl' = TRUE
    /\ detached' = up
    /\ orphanLen' = IF up /\ ~detached THEN Len(active) ELSE orphanLen
    /\ sweep' = IF p = "sweep" THEN "off" ELSE sweep
    /\ UNCHANGED << manifest, up, seq, hmac, pc, job, age, ret, clock, ghost,
                    counts >>

-----------------------------------------------------------------------------
(* crash and restart *)

\* The daemon's memory goes, its tasks with it; what was not synced may go.
Crash ==
    /\ up /\ faults < MaxFaults
    /\ faults' = faults + 1
    /\ up' = FALSE
    /\ IF pc = "wrote" THEN LeaveTail(TornWrites) ELSE UNCHANGED file
    /\ seq' = 0 /\ hmac' = GENESIS /\ detached' = FALSE /\ orphanLen' = 0
    /\ pc' = "free" /\ pend' = Junk /\ before' = << >> /\ content' = << >>
    /\ sweep' = "off"
    /\ pruner' = [pruner EXCEPT !["sweep"] = FALSE]
    /\ kept' = [kept EXCEPT !["sweep"] = << >>]
    /\ UNCHANGED << manifest, age, ret, clock, ghost, prunes >>

\* Mutant of Restart: last_hmac is not recovered.
RestartFromGenesis ==
    /\ ~up /\ (AdminPrune = "offline" => ~pruner["admin"])
    /\ up' = TRUE
    /\ seq' = scan_tail(active, manifest).seq
    /\ hmac' = GENESIS
    /\ UNCHANGED << file, manifest, detached, orphanLen, pc, job, sched, prun,
                    clock, ghost, counts >>

\* open: the chain continues from what scan_tail finds.  An administrator who
\* prunes offline lets the prune finish first.
Restart ==
    /\ ~up /\ (AdminPrune = "offline" => ~pruner["admin"])
    /\ up' = TRUE
    /\ seq' = scan_tail(active, manifest).seq
    /\ hmac' = scan_tail(active, manifest).hmac
    /\ UNCHANGED << file, manifest, detached, orphanLen, pc, job, sched, prun,
                    clock, ghost, counts >>

Next ==
    \/ AppendWrite \/ AppendSync \/ AppendFails
    \/ SealSegment \/ Truncate \/ Reopen \/ RotateFails
    \/ SweepStart \/ SweepRotate \/ RemoveSegments \/ SaveManifest \/ SweepPrune
    \/ PruneStart \/ (\E p \in Pruners : PruneRename(p))
    \/ Crash \/ Restart

Spec == Init /\ [][Next]_vars

-----------------------------------------------------------------------------
(* Properties *)

OnDisk ==
    Entries(active) \cup
    UNION { Entries(manifest[k].lines) :
              k \in { j \in DOMAIN manifest : manifest[j].file } }

\* Whatever rotation, retention, pruning and crashes do, and wherever they
\* interrupt one another, an entry whose append was acknowledged and that no
\* retention cutoff has passed is in the active file or in a segment file.
NoAckedEntryLost ==
    \A e \in acked : e.ts >= expired => e \in OnDisk

\* LogInner.seq and LogInner.last_hmac are those of the newest entry on disk
\* (if any is left).
TailContinues ==
    up /\ pc = "free" /\ OnDisk # {} =>
        \E e \in OnDisk : /\ e.seq = seq /\ e.ts = hmac
                          /\ \A f \in OnDisk : f.ts <= e.ts /\ f.seq <= e.seq

\* The state of the log is well-formed and, whenever the mutex is free, after a
\* restart too, the next append continues the chain that is on disk.
TailInSync == TypeOK /\ TailContinues

\* Two files hold the same entry: the trace of a rotation that stopped between
\* save_manifest and the truncation of the log.
Duplicated ==
    \/ \E k \in DOMAIN manifest :
         Entries(manifest[k].lines) \cap Entries(active) # {}
    \/ \E j, k \in DOMAIN manifest :
         j # k /\ Entries(manifest[j].lines) \cap Entries(manifest[k].lines) # {}

\* verify_all reports an intact chain whenever no operation is under way, unless
\* a rotation was interrupted (entries in two files), a segment cleanup was (a
\* manifest row without its file), or an administrator cut the head of the
\* active file off behind sealed segments: rotation, retention, offline pruning
\* and restarts never make an honest log look tampered with in any other way.
VerifiesUnlessInterrupted ==
    /\ pc = "free" /\ ~Duplicated
    /\ \A k \in DOMAIN manifest : manifest[k].file
    /\ prunes > 0 => manifest = << >>
    => verify_all(manifest, active) = "ok"

\* A failed or torn append never loses an acknowledged entry silently: while
\* one that has not expired is missing from the files, verify_all does not
\* report an intact chain.
LossIsEvident ==
    pc = "free" /\ ~NoAckedEntryLost => verify_all(manifest, active) # "ok"

\* The entries that can be read back and whose write has been completed.
Durable == OnDisk \ (IF pc = "wrote" THEN {pend} ELSE {})

Trail == INSTANCE AuditTrail WITH trail <- Durable, cutoff <- expired

\* The files, rotation, cleanup, crashes and restarts together implement one
\* growing chain with retention.
ImplementsTrail == Trail!Spec
=============================================================================
