----------------------------- MODULE ModelCache -----------------------------
(***************************************************************************)
(* The engine's cache of loaded models.  A generation or an embedding      *)
(* looks its model up under the cache's lock, gives the lock up while the  *)
(* model is read from disk, and takes it again to insert the copy it has   *)
(* loaded; the least recently used model then makes room.  A call that     *)
(* runs keeps its copy in memory, cached or not.                           *)
(***************************************************************************)
EXTENDS Integers, FiniteSets

CONSTANTS
    Paths,       \* blobs of models
    MaxCalls,    \* bound: threads that load or run a model
    MaxLoaded,   \* inference.max_loaded_models; 0 is no limit
    NoCopy

\* Names for the copies in memory: a name is free again once its copy is.
Calls  == 1 .. MaxCalls
Copies == 1 .. Cardinality(Paths) + MaxCalls + 1

ASSUME CacheConstants ==
    /\ MaxLoaded \in Nat /\ MaxCalls \in Nat /\ IsFiniteSet(Paths)
    /\ NoCopy \notin Copies

VARIABLES
    copyOf,    \* by_path: the copy the cache has of a path
    used,      \* by_path: the instant in the entry of a path
    calls,     \* what each call does, and with which copy
    now,       \* Instant::now(), later at every use
    recent     \* history: when each path was used last

cachevars == << copyOf, used, calls, now, recent >>

Call == [at : {"idle"}] \cup [at : {"load"}, path : Paths]
          \cup [at : {"run"}, path : Paths, copy : Copies]

NoCall == [at |-> "idle"]

CacheInit ==
    /\ copyOf = [p \in Paths |-> NoCopy]
    /\ used = [p \in Paths |-> 0] /\ recent = [p \in Paths |-> 0] /\ now = 0
    /\ calls = [c \in Calls |-> NoCall]

InCache == {p \in Paths : copyOf[p] # NoCopy}

Running == {c \in Calls : calls[c].at = "run"}

\* Copies the cache or a call holds on to.
InMemory == {copyOf[p] : p \in InCache} \cup {calls[c].copy : c \in Running}

\* A use of path p.
Uses(p) == now' = now + 1 /\ recent' = [recent EXCEPT ![p] = now + 1]

----------------------------------------------------------------------------
\* Mutant: a hit does not count as a use.
HitUntouched(p) == used' = used

Hit(p) == used' = [used EXCEPT ![p] = now + 1]

get_or_load(c, p) ==
    /\ calls[c].at = "idle"
    /\ IF p \in InCache
         THEN /\ Hit(p) /\ Uses(p)
              /\ calls' = [calls EXCEPT ![c] = [at |-> "run", path |-> p,
                                               copy |-> copyOf[p]]]
         ELSE /\ calls' = [calls EXCEPT ![c] = [at |-> "load", path |-> p]]
              /\ UNCHANGED << used, now, recent >>
    /\ UNCHANGED copyOf

\* Mutant: the limit is compared before the insertion.
OverfullBefore(p) == MaxLoaded > 0 /\ Cardinality(InCache) > MaxLoaded

\* Path p has just been inserted.
Overfull(p) == MaxLoaded > 0 /\ Cardinality(InCache \cup {p}) > MaxLoaded

\* evict_lru spares the path just loaded.
evict_lru(p) ==
    IF Overfull(p)
      THEN {v \in InCache \ {p} : \A q \in InCache \ {p} : used[v] <= used[q]}
      ELSE {}

\* A copy of a model that is there already takes its place.
Loaded(c) ==
    /\ calls[c].at = "load"
    /\ LET p == calls[c].path
       IN \E n \in Copies \ InMemory :
            /\ \A k \in Copies \ InMemory : n <= k
            /\ copyOf' = [q \in Paths |->
                            IF q = p THEN n
                            ELSE IF q \in evict_lru(p) THEN NoCopy ELSE copyOf[q]]
            /\ used' = [q \in Paths |->
                          IF q = p THEN now + 1
                          ELSE IF q \in evict_lru(p) THEN 0 ELSE used[q]]
            /\ Uses(p)
            /\ calls' = [calls EXCEPT ![c] = [at |-> "run", path |-> p, copy |-> n]]

\* The file is missing or broken, or the caller went away while it was read.
LoadFails(c) ==
    /\ calls[c].at = "load"
    /\ calls' = [calls EXCEPT ![c] = NoCall]
    /\ UNCHANGED << copyOf, used, now, recent >>

\* The thread ends and lets its copy go.
CallEnds(c) ==
    /\ calls[c].at = "run"
    /\ calls' = [calls EXCEPT ![c] = NoCall]
    /\ UNCHANGED << copyOf, used, now, recent >>

\* A new call takes the first free slot.
CacheRequest ==
    \E c \in Calls, p \in Paths :
      (\A d \in 1 .. c - 1 : calls[d] # NoCall) /\ get_or_load(c, p)

CacheStep == \E c \in Calls : Loaded(c) \/ LoadFails(c) \/ CallEnds(c)

\* A new process loads again.
CacheCrash ==
    /\ copyOf' = [p \in Paths |-> NoCopy]
    /\ used' = [p \in Paths |-> 0] /\ recent' = [p \in Paths |-> 0] /\ now' = 0
    /\ calls' = [c \in Calls |-> NoCall]

----------------------------------------------------------------------------
CacheTypeOK ==
    /\ copyOf \in [Paths -> Copies \cup {NoCopy}] /\ calls \in [Calls -> Call]
    /\ now \in Nat /\ used \in [Paths -> 0 .. now] /\ recent \in [Paths -> 0 .. now]

\* Models in memory: however calls overlap, loading one model twice or holding on
\* to what was evicted, there are no more copies than the limit and the calls
\* that work with a copy of their own.
MemoryBounded ==
    MaxLoaded > 0 =>
      Cardinality(InMemory) <=
        MaxLoaded + Cardinality({c \in Running : calls[c].copy # copyOf[calls[c].path]})

\* A model leaves the cache only when every other one that stays was used after
\* it, although lookups and insertions of several calls interleave.
RecentKept ==
    [][\A p \in InCache \ InCache', q \in InCache \cap InCache' :
         recent'[p] < recent'[q]]_cachevars
=============================================================================
