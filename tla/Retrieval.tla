----------------------------- MODULE Retrieval -----------------------------
(***************************************************************************)
(* Documents: ingestion, summaries, deletion, search, and the retrieval    *)
(* part of a chat request.  Every call of the vector store is one step     *)
(* under the store's lock; embedding and summarising are awaited between   *)
(* them, so that documents and collections change under a request; labels  *)
(* change under it in behaviours of Serving that are about labels, and     *)
(* settings between processes only.  The text of a document is one chunk   *)
(* row, its vectors are the embedding space they were made in, and which   *)
(* chunks score is left open.                                              *)
(***************************************************************************)
EXTENDS Classification, Reload

CONSTANTS
    MaxDocs,      \* bound: documents ever stored
    Spaces,       \* embedding spaces: [label, dim]
    MaxJobs,      \* bound: requests in flight
    MaxFiles,     \* bound: files of one upload
    NoDoc, NoCollection

Docs == 1 .. MaxDocs
Jobs == 1 .. MaxJobs

DocRow == [coll : Collections, summary : BOOLEAN]
Chunk  == [doc : Docs, coll : Collections, space : Spaces]

ASSUME RetrievalConstants ==
    /\ MaxDocs \in Nat /\ MaxJobs \in Nat /\ MaxFiles \in Nat /\ Spaces # {}
    /\ NoDoc \notin DocRow /\ NoCollection \notin Spaces

VARIABLES
    colls,      \* rag_collections: their embedding space
    docs,       \* rag_documents
    chunks,     \* rag_chunks
    issued,     \* ids given out so far (fresh UUIDs, numbered here)
    embedder,   \* the space of the embedding model this process was started with
    jobs

ragvars == << colls, docs, chunks, issued, embedder, jobs >>

Callers == {"admin", "listed", "other"}

Free == [pc |-> "free", kind |-> "none"]

\* A request: what it does next and with which values.
Job ==
    {Free}
      \cup [pc : {"label"}, kind : {"text"}, coll : Collections, left : {1},
            admin : BOOLEAN]
      \cup [pc : {"embed", "ensure", "insert"}, kind : {"text", "upload"},
            coll : Collections, left : Nat \ {0}]
      \cup [pc : {"embed", "ensure", "insert", "summarize"}, kind : {"upload"},
            doc : Docs, coll : Collections, left : Nat \ {0}]
      \cup [pc : {"summarize"}, kind : {"resummary"}, doc : Docs, left : {1}]
      \cup [pc : {"query", "search"}, kind : {"search", "chat"},
            ws : Workspaces \cup {"none"}, scope : SUBSET Collections,
            todo : SUBSET Collections, hits : SUBSET Chunk]
      \cup [pc : {"prompt"}, kind : {"chat"}, hits : SUBSET Chunk,
            withheld : SUBSET Collections]

Present == {d \in Docs : docs[d] # NoDoc}

Becomes(j, job) == jobs' = [jobs EXCEPT ![j] = job]

At(j, pc) == jobs[j].pc = pc

RetrievalInit ==
    /\ colls = [c \in Collections |-> NoCollection]
    /\ docs = [d \in Docs |-> NoDoc] /\ chunks = {} /\ issued = {}
    /\ embedder = CHOOSE s \in Spaces : TRUE
    /\ jobs = [j \in Jobs |-> Free]

----------------------------------------------------------------------------
(* The vector store. *)

\* A collection keeps to the embedding model and dimension it was made with.
Mismatch(c) == colls[c] # NoCollection /\ colls[c] # embedder

ensure_collection(c) == colls' = [colls EXCEPT ![c] = embedder]

\* Mutant: foreign keys are not enforced.
RefusesNothing(c) == FALSE

\* One transaction; the foreign key refuses a collection that is gone.
Refuses(c) == colls[c] = NoCollection

insert_document(d, c) ==
    /\ docs' = [docs EXCEPT ![d] = [coll |-> c, summary |-> FALSE]]
    /\ chunks' = chunks \cup {[doc |-> d, coll |-> c, space |-> embedder]}
    /\ issued' = issued \cup {d}

\* Mutant: an upsert, within the foreign key.
SetSummaryUpsert(d) ==
    docs' = IF docs[d] # NoDoc THEN [docs EXCEPT ![d].summary = TRUE]
            ELSE IF \A c \in Collections : colls[c] = NoCollection THEN docs
            ELSE [docs EXCEPT ![d] = [coll |-> CHOOSE c \in Collections :
                                                 colls[c] # NoCollection,
                                      summary |-> TRUE]]

\* An UPDATE: no row, no effect.
set_summary(d) ==
    docs' = IF docs[d] = NoDoc THEN docs ELSE [docs EXCEPT ![d].summary = TRUE]

\* Deletes cascade from collections to documents to chunks.
WithoutDocs(gone) ==
    /\ docs' = [d \in Docs |-> IF d \in gone THEN NoDoc ELSE docs[d]]
    /\ chunks' = {k \in chunks : k.doc \notin gone}

\* Rows of the query's dimension, joined with their documents.
Searchable(c) ==
    {k \in chunks : k.coll = c /\ k.space.dim = embedder.dim /\ docs[k.doc] # NoDoc}

----------------------------------------------------------------------------
(* Ingestion: the text endpoint, and uploads of one or several files. *)

check_ingest_permission(by) ==
    \/ runtime.ingest = "Anyone"
    \/ /\ runtime.admin_key
       /\ by = "admin" \/ (by = "listed" /\ runtime.ingest = "Allowlist")

ingest_document(j) ==
    \E c \in Collections, by \in Callers :
      /\ check_ingest_permission(by)
      /\ Becomes(j, [pc |-> "label", kind |-> "text", coll |-> c, left |-> 1,
                      admin |-> by = "admin"])
      /\ UNCHANGED << colls, docs, chunks, issued, embedder >>

upload_documents(j) ==
    \E c \in Collections, by \in Callers, n \in 1 .. MaxFiles :
      /\ check_ingest_permission(by)
      /\ Becomes(j, [pc |-> "embed", kind |-> "upload", coll |-> c, left |-> n])
      /\ UNCHANGED << colls, docs, chunks, issued, embedder >>

\* Only the text endpoint asks for the admin key on a labelled collection.
LabelCheck(j) ==
    /\ At(j, "label")
    /\ LET p == policy.collections[jobs[j].coll]
       IN Becomes(j, IF p.block /\ p.label > 0
                        /\ ~(runtime.admin_key /\ jobs[j].admin)
                     THEN Free
                     ELSE [pc |-> "embed", kind |-> "text", coll |-> jobs[j].coll,
                           left |-> 1])
    /\ UNCHANGED << colls, docs, chunks, issued, embedder >>

\* The job's next file, after this one was stored or failed.
NextFile(job) ==
    IF job.left = 1 THEN Free ELSE [job EXCEPT !.pc = "embed", !.left = @ - 1]

\* Extraction, chunking and embedding, with every error they know.
Embed(j) ==
    /\ At(j, "embed")
    /\ Becomes(j, [jobs[j] EXCEPT !.pc = "ensure"]) \/ Becomes(j, NextFile(jobs[j]))
    /\ UNCHANGED << colls, docs, chunks, issued, embedder >>

Ensure(j) ==
    /\ At(j, "ensure")
    /\ IF Mismatch(jobs[j].coll)
         THEN Becomes(j, NextFile(jobs[j])) /\ UNCHANGED colls
         ELSE /\ Becomes(j, [jobs[j] EXCEPT !.pc = "insert"])
              /\ ensure_collection(jobs[j].coll)
    /\ UNCHANGED << docs, chunks, issued, embedder >>

\* An upload goes on to summarise what it stored.
Insert(j) ==
    /\ At(j, "insert")
    /\ IF Refuses(jobs[j].coll)
         THEN Becomes(j, NextFile(jobs[j])) /\ UNCHANGED << docs, chunks, issued >>
         ELSE \E d \in Docs \ issued :
                /\ \A e \in Docs \ issued : d <= e
                /\ insert_document(d, jobs[j].coll)
                /\ Becomes(j, IF jobs[j].kind = "text" THEN Free
                              ELSE [pc |-> "summarize", kind |-> "upload", doc |-> d,
                                    coll |-> jobs[j].coll, left |-> jobs[j].left])
    /\ UNCHANGED << colls, embedder >>

resummary_document(j) ==
    /\ \E by \in Callers : check_ingest_permission(by)
    /\ \E d \in Present :
         Becomes(j, [pc |-> "summarize", kind |-> "resummary", doc |-> d, left |-> 1])
    /\ UNCHANGED << colls, docs, chunks, issued, embedder >>

Summarize(j) ==
    /\ At(j, "summarize")
    /\ set_summary(jobs[j].doc) \/ UNCHANGED docs
    /\ Becomes(j, NextFile(jobs[j]))
    /\ UNCHANGED << colls, chunks, issued, embedder >>

----------------------------------------------------------------------------
delete_document ==
    /\ \E d \in Present : WithoutDocs({d})
    /\ UNCHANGED << colls, issued, embedder, jobs >>

delete_collection ==
    /\ \E c \in Collections :
         /\ colls[c] # NoCollection
         /\ colls' = [colls EXCEPT ![c] = NoCollection]
         /\ WithoutDocs({d \in Present : docs[d].coll = c})
    /\ UNCHANGED << issued, embedder, jobs >>

----------------------------------------------------------------------------
(* Queries; the empty scope stands for all collections. *)
Query(j, kind, w, scope) ==
    /\ Becomes(j, [pc |-> "query", kind |-> kind, ws |-> w, scope |-> scope,
                   todo |-> {}, hits |-> {}])
    /\ UNCHANGED << colls, docs, chunks, issued, embedder >>

\* /v1/rag/search: no workspace, no clearance.
search(j) == \E c \in Collections : Query(j, "search", "none", {c})

\* A chat with retrieval, in one collection or in all of them.
chat(j) ==
    /\ ~(air_gap /\ ~isolation_ok)
    /\ \E w \in Workspaces :
         Query(j, "chat", w, {}) \/ \E c \in Collections : Query(j, "chat", w, {c})

\* The query is embedded; over all collections the list is read first.
retrieve(j) ==
    /\ At(j, "query")
    /\ Becomes(j, [jobs[j] EXCEPT !.pc = "search",
                     !.todo = IF jobs[j].scope = {}
                                THEN {c \in Collections : colls[c] # NoCollection}
                                ELSE jobs[j].scope])
       \/ Becomes(j, Free)
    /\ UNCHANGED << colls, docs, chunks, issued, embedder >>

SearchNext(j) ==
    /\ At(j, "search")
    /\ \E c \in jobs[j].todo : \E found \in SUBSET Searchable(c) :
         Becomes(j, [jobs[j] EXCEPT !.todo = @ \ {c}, !.hits = @ \cup found])
    /\ UNCHANGED << colls, docs, chunks, issued, embedder >>

\* Mutant: "*" is looked up like the name of a collection.
ViolationsNamed(job) == UNION {check_access(policy, job.ws, c) : c \in job.scope}

\* Search answers; chat compares labels with the workspace's clearance.
Violations(job) ==
    IF job.scope = {} THEN check_all_collections(policy, job.ws)
    ELSE UNION {check_access(policy, job.ws, c) : c \in job.scope}

\* History: what the acknowledged labels keep from workspace w, where the saves of
\* label and clearance did not fail.
Withheld(w) == {c \in Collections : /\ w \in Workspaces \ lapse /\ c \notin lapse
                                    /\ told.collections[c].block
                                    /\ told.collections[c].label > told.workspaces[w]}

Searched(j) ==
    /\ At(j, "search") /\ jobs[j].todo = {}
    /\ Becomes(j, IF jobs[j].kind = "search" \/ Violations(jobs[j]) # {} THEN Free
                  ELSE [pc |-> "prompt", kind |-> "chat", hits |-> jobs[j].hits,
                        withheld |-> Withheld(jobs[j].ws)])
    /\ UNCHANGED << colls, docs, chunks, issued, embedder >>

\* The context prompt goes to the model (InferenceQueue), or there is none.
Prompt(j) ==
    /\ At(j, "prompt") /\ Becomes(j, Free)
    /\ UNCHANGED << colls, docs, chunks, issued, embedder >>

----------------------------------------------------------------------------
\* A new request takes the first free slot.
Takes(j) == jobs[j] = Free /\ \A i \in Jobs : jobs[i] = Free => j <= i

RetrievalRequest ==
    \/ \E j \in Jobs :
         /\ Takes(j)
         /\ \/ ingest_document(j) \/ upload_documents(j) \/ resummary_document(j)
            \/ search(j) \/ chat(j)
    \/ delete_document \/ delete_collection

RetrievalStep ==
    \E j \in Jobs : \/ LabelCheck(j) \/ Embed(j) \/ Ensure(j) \/ Insert(j) \/ Summarize(j)
                    \/ retrieve(j) \/ SearchNext(j) \/ Searched(j) \/ Prompt(j)

RetrievalStart == embedder' \in Spaces /\ UNCHANGED << colls, docs, chunks, issued, jobs >>

RetrievalCrash ==
    jobs' = [j \in Jobs |-> Free] /\ UNCHANGED << colls, docs, chunks, issued, embedder >>

----------------------------------------------------------------------------
RetrievalTypeOK ==
    /\ colls \in [Collections -> Spaces \cup {NoCollection}]
    /\ docs \in [Docs -> DocRow \cup {NoDoc}]
    /\ chunks \subseteq Chunk /\ issued \subseteq Docs /\ embedder \in Spaces
    /\ Present \subseteq issued /\ jobs \in [Jobs -> Job]
    /\ \A j \in Jobs : jobs[j].pc = "summarize" => jobs[j].doc \in issued

\* Although ensuring a collection and inserting into it are two steps, every
\* document has its collection, every chunk its document, and all
\* vectors of a collection come from the embedding model it was made with, over
\* concurrent deletions and restarts with another model.
StoreConsistent ==
    /\ \A d \in Present : colls[docs[d].coll] # NoCollection
    /\ \A k \in chunks : /\ docs[k.doc] # NoDoc /\ docs[k.doc].coll = k.coll
                         /\ colls[k.coll] = k.space

\* A deleted document does not come back, whoever is still summarising it.
DeletedStaysGone ==
    [][(Present' \cap (issued \ Present)) = {}]_ragvars

\* No prompt holds text of a collection whose acknowledged blocking label was
\* above the workspace's clearance when its search had ended (chat compares labels
\* then, in the order of DataLabel), whatever changed while it searched and across
\* restarts. An entry is exempt from the failed save of its own last change to the
\* next that succeeds, and every entry after a start that could not parse the file.
LabelsEnforced ==
    \A j \in Jobs : jobs[j].pc = "prompt" =>
      \A k \in jobs[j].hits : k.coll \notin jobs[j].withheld
=============================================================================
