--------------------------- MODULE InferenceQueue ---------------------------
(***************************************************************************)
(* InferenceQueue of maranode-inference in front of LlamaCppEngine: the    *)
(* waiting counter, the semaphore, and the blocking threads that do the    *)
(* generation.                                                             *)
(*                                                                         *)
(* A request is one call of generate or generate_stream; its name is used  *)
(* again for another call once the call has returned and its thread is     *)
(* gone.  A call may be dropped at any await, which is what the HTTP       *)
(* server does when the client disconnects: the guards go, a blocking      *)
(* thread does not.                                                        *)
(***************************************************************************)
EXTENDS Naturals, Sequences, FiniteSets

CONSTANTS
    Requests,     \* the calls that may be under way together
    MaxParallel,  \* inference.max_parallel
    Limits,       \* the values inference.max_queue_depth takes; 0 is no limit
    Workers,      \* threads of the async runtime
    Streams,      \* there are streaming calls
    Cancels       \* clients disconnect

ASSUME InferenceQueueConstants ==
    /\ IsFiniteSet(Requests)
    /\ MaxParallel \in Nat
    /\ Limits \subseteq Nat
    /\ Workers \in Nat
    /\ {Streams, Cancels} \subseteq BOOLEAN

VARIABLES
    at,          \* where each call is
    stream,      \* is it a call of generate_stream
    thread,      \* its generate_sync or stream_sync is running
    waiting,     \* InferenceQueue.waiting
    max_waiting, \* InferenceQueue.max_waiting
    permits,     \* free permits of the semaphore
    line         \* the semaphore's waiters, first come first served

qvars == << at, stream, thread, waiting, max_waiting, permits, line >>

\* new: max_parallel.max(1)
Parallel == IF MaxParallel = 0 THEN 1 ELSE MaxParallel

Places == {"out", "checked", "queued", "engine", "thread", "busy", "failed",
           "served", "dropped"}

Over == {"out", "busy", "failed", "served", "dropped"}

Checked == { r \in Requests : at[r] = "checked" }
Queued  == { r \in Requests : at[r] = "queued" }
Holders == { r \in Requests : at[r] \in {"engine", "thread"} }
Threads == { r \in Requests : thread[r] }

\* Every variable holds a value of the kind the code gives it.
QueueTypeOK ==
    /\ at \in [Requests -> Places]
    /\ stream \in [Requests -> BOOLEAN] /\ thread \in [Requests -> BOOLEAN]
    /\ waiting \in Nat /\ max_waiting \in Limits /\ permits \in Nat
    /\ line \in Seq(Requests)

QueueInit ==
    /\ at = [r \in Requests |-> "out"]
    /\ stream = [r \in Requests |-> FALSE]
    /\ thread = [r \in Requests |-> FALSE]
    /\ waiting = 0 /\ max_waiting \in Limits
    /\ permits = Parallel /\ line = << >>

-----------------------------------------------------------------------------
\* Mutant of Busy: off by one at the limit.
BusyAbove == max_waiting # 0 /\ waiting > max_waiting

\* check_capacity.  A call that fails it is over: generate returns the error,
\* generate_stream sends it to the channel.
Busy == max_waiting # 0 /\ waiting >= max_waiting

\* There is no await between the check and the fetch_add, so a runtime thread
\* can have only one call there.
Call(r, s) ==
    /\ at[r] \in Over /\ ~thread[r]
    /\ s => Streams
    /\ Cardinality(Checked) < Workers
    /\ at' = [at EXCEPT ![r] = IF Busy THEN "busy" ELSE "checked"]
    /\ stream' = [stream EXCEPT ![r] = s]
    /\ UNCHANGED << thread, waiting, max_waiting, permits, line >>

\* waiting.fetch_add, then semaphore.acquire joins the waiters.
Enqueue(r) ==
    /\ at[r] = "checked"
    /\ at' = [at EXCEPT ![r] = "queued"]
    /\ waiting' = waiting + 1
    /\ line' = Append(line, r)
    /\ UNCHANGED << stream, thread, max_waiting, permits >>

\* The semaphore gives a permit to the waiter that has waited longest.
Acquire(r) ==
    /\ at[r] = "queued" /\ line # << >> /\ Head(line) = r /\ permits > 0
    /\ at' = [at EXCEPT ![r] = "engine"]
    /\ permits' = permits - 1
    /\ line' = Tail(line)
    /\ UNCHANGED << stream, thread, waiting, max_waiting >>

\* Mutant of ReturnWithPermit: the permit is forgotten.
ReturnWithoutPermit(r, p) ==
    /\ at' = [at EXCEPT ![r] = p]
    /\ permits' = permits
    /\ waiting' = waiting - 1

\* The call ends at place p: the permit and then the WaitGuard are dropped.
ReturnWithPermit(r, p) ==
    /\ at' = [at EXCEPT ![r] = p]
    /\ permits' = permits + 1
    /\ waiting' = waiting - 1

\* inner.generate or inner.generate_stream, once get_or_load has the model:
\* spawn_blocking.  generate awaits the thread, generate_stream does not.
StartThread(r) ==
    /\ at[r] = "engine"
    /\ thread' = [thread EXCEPT ![r] = TRUE]
    /\ IF stream[r]
       THEN ReturnWithPermit(r, "served")
       ELSE /\ at' = [at EXCEPT ![r] = "thread"]
            /\ UNCHANGED << waiting, permits >>
    /\ UNCHANGED << stream, max_waiting, line >>

\* get_or_load fails.
LoadFails(r) ==
    /\ at[r] = "engine"
    /\ ReturnWithPermit(r, "failed")
    /\ UNCHANGED << stream, thread, max_waiting, line >>

\* generate_sync or stream_sync ends, normally or with an error.
ThreadEnds(r) ==
    /\ thread[r]
    /\ thread' = [thread EXCEPT ![r] = FALSE]
    /\ UNCHANGED << at, stream, waiting, max_waiting, permits, line >>

\* generate's await of the thread is over.
Return(r) ==
    /\ at[r] = "thread" /\ ~thread[r]
    /\ \E p \in {"served", "failed"} : ReturnWithPermit(r, p)
    /\ UNCHANGED << stream, thread, max_waiting, line >>

\* The future is dropped at one of its awaits; a waiter leaves the line.
Cancel(r) ==
    /\ Cancels
    /\ \/ /\ at[r] = "queued"
          /\ \E i \in DOMAIN line :
               /\ line[i] = r
               /\ line' = SubSeq(line, 1, i - 1) \o SubSeq(line, i + 1, Len(line))
          /\ at' = [at EXCEPT ![r] = "dropped"]
          /\ waiting' = waiting - 1
          /\ UNCHANGED permits
       \/ /\ at[r] \in {"engine", "thread"}
          /\ ReturnWithPermit(r, "dropped")
          /\ UNCHANGED line
    /\ UNCHANGED << stream, thread, max_waiting >>

\* A configuration reload stores a new limit.
set_max_waiting(n) ==
    /\ max_waiting' = n
    /\ UNCHANGED << at, stream, thread, waiting, permits, line >>

\* A step of the queue itself, not of its callers.
QueueStep(r) ==
    Enqueue(r) \/ Acquire(r) \/ StartThread(r) \/ LoadFails(r) \/ Return(r)

QueueNext ==
    \/ \E r \in Requests : \/ \E s \in BOOLEAN : Call(r, s)
                           \/ QueueStep(r) \/ ThreadEnds(r) \/ Cancel(r)
    \/ \E n \in Limits : set_max_waiting(n)

\* The runtime polls a woken task, and a generation is bounded by max_tokens.
\* A stream's thread may block for ever on a client that does not read.
QueueFairness ==
    \A r \in Requests : /\ WF_qvars(QueueStep(r))
                        /\ WF_qvars(~stream[r] /\ ThreadEnds(r))

QueueSpec == QueueInit /\ [][QueueNext]_qvars /\ QueueFairness

-----------------------------------------------------------------------------
(* Properties *)

\* No permit and no count is leaked or returned twice, however calls end: by
\* an answer, an error, or a client that goes away while queued, while the
\* model loads or while the thread runs.
GuardsConserved ==
    /\ permits + Cardinality(Holders) = Parallel
    /\ waiting = Cardinality(Queued) + Cardinality(Holders)

\* check_capacity and fetch_add are two steps, so the counter can pass the
\* limit, but by no more than the other runtime threads can add at once: not
\* above the greatest limit ever configured plus Workers - 1.
OvershootBounded ==
    \A b \in Limits :
        (\A n \in Limits : 0 < n /\ n <= b) =>
            waiting + Cardinality(Checked) <= b + Workers - 1

\* At most max_parallel generations run whose caller waits for the whole answer.
\* A stream gives its permit back when its thread starts and a dropped call while
\* its thread runs, so those come on top.
ParallelBound ==
    Cardinality({ r \in Threads : ~stream[r] /\ at[r] # "dropped" }) <= Parallel

\* The queue's counters are well-formed, its limit is kept up to the overshoot, and
\* max_parallel up to streams and dropped calls.
AdmissionBounded == QueueTypeOK /\ OvershootBounded /\ ParallelBound

\* A call that was let into the queue ends: nobody starves behind other calls,
\* and streams whose clients do not read do not hold up the queue.
AdmittedCallEnds ==
    \A r \in Requests : at[r] = "checked" ~> at[r] \in Over
=============================================================================
