----------------------------- MODULE RagIngest ------------------------------
(***************************************************************************)
(* Retrieval-augmented generation: files are loaded (rag/document), split, *)
(* embedded and put into a vector store in the place of the chunks an      *)
(* earlier ingestion of the same source left there (rag.Ingest), and a     *)
(* retriever searches the store. The stores are MemoryStore, rag/redis and *)
(* rag/postgres. Several ingestions run at once; any of them may fail at   *)
(* any call, or die with its process. A text is its length and its         *)
(* version, and a chunk the positions of the text it covers.               *)
(***************************************************************************)
EXTENDS Naturals, Sequences, FiniteSets
LOCAL INSTANCE SequencesExt

CONSTANTS Writers,     \* processes that ingest
          Sources,     \* files
          Supported,   \* files a parser is registered for
          Allowed,     \* files that WithExtensions and WithMaxDepth admit
          Batches,     \* lists of distinct files a call may name
          Lengths,     \* lengths each file's normalised text may have
          ChunkSize,   \* WithChunkSize
          Overlap,     \* WithChunkOverlap
          Concurrency, \* values of WithConcurrency
          ChunkScore,  \* similarity to the query of a chunk, by where it begins
          MaxResults,  \* WithMaxResults
          Threshold,   \* WithScoreThreshold
          SearchLimit, \* keys one Redis deletion finds (10000)
          MaxIngests   \* bound: ingestions begun

ASSUME SplitAssumption == ChunkSize >= 1 /\ Overlap \in 0..(ChunkSize - 1)

VARIABLES vstore,   \* "memory", "redis" or "postgres"
          docs,     \* stored chunks, each with the chunk its embedding is of
          job,      \* each writer's ingestion
          begun,    \* ingestions begun; the version of the texts they read
          nextID,   \* identifiers given to documents
          current,  \* history: source -> its text, if its last ingestion ran alone
          clash,    \* history: sources two ingestions worked on at once
          found     \* history: what the last step retrieved

rvars == <<vstore, docs, job, begun, nextID, current, clash, found>>

NoJob == [at |-> "idle", par |-> 1, items |-> <<>>, chunks |-> <<>>, embs |-> <<>>, errs |-> {},
          todo |-> {}, keys |-> {}, put |-> 0, alone |-> TRUE]
NoText == [ver |-> 0, len |-> 0]
NotAsked == [asked |-> FALSE, res |-> <<>>]

RInit ==
    /\ vstore \in {"memory", "redis", "postgres"}
    /\ docs = {}
    /\ job = [w \in Writers |-> NoJob]
    /\ begun = 0 /\ nextID = 0
    /\ current = [s \in Sources |-> NoText] /\ clash = {} /\ found = NotAsked

-----------------------------------------------------------------------------
(* Loading and splitting.                                                    *)

Smaller(a, b) == IF a < b THEN a ELSE b

\* Chunks begin every ChunkSize - Overlap runes, as long as one is left.
SplitText(len) ==
    LET step == ChunkSize - Overlap
    IN [k \in 1..((len + step - 1) \div step) |->
            ((k - 1) * step + 1)..Smaller((k - 1) * step + ChunkSize, len)]

Chunks(item) ==
    LET parts == SplitText(item.len)
    IN [k \in DOMAIN parts |-> [src |-> item.src, ver |-> item.ver, part |-> parts[k], chunk |-> k]]

SourcesOf(j) == {j.items[i].src : i \in DOMAIN j.items}
Overlapping(j) == {s \in SourcesOf(j) : \E w \in Writers : s \in SourcesOf(job[w])}

Begin(w, j) ==
    LET met == Overlapping(j)
    IN /\ job' = [v \in Writers |->
                     IF v = w THEN [j EXCEPT !.alone = met = {}]
                     ELSE [job[v] EXCEPT !.alone = @ /\ SourcesOf(job[v]) \cap met = {}]]
       /\ clash' = clash \cup met
       /\ begun' = begun + 1
       /\ found' = NotAsked
       /\ UNCHANGED <<vstore, docs, nextID, current>>

\* Texts without any chunk end the call before the store is touched.
StartIngest(w, items) ==
    LET chunks == FlattenSeq([i \in DOMAIN items |-> Chunks(items[i])])
    IN \E n \in Concurrency :
           Begin(w, IF chunks = <<>> THEN NoJob
                    ELSE [NoJob EXCEPT !.at = "embed", !.par = n, !.items = items, !.chunks = chunks,
                                       !.embs = [i \in DOMAIN chunks |-> 0],
                                       !.todo = {items[i].src : i \in DOMAIN items}])

Read(paths) ==
    {[i \in DOMAIN paths |-> [src |-> paths[i], len |-> len[paths[i]], ver |-> begun + 1]] :
        len \in {f \in [ToSet(paths) -> UNION {Lengths[s] : s \in Sources}] :
                    \A s \in ToSet(paths) : f[s] \in Lengths[s]}}

\* All files or none: an unsupported one fails the call.
LoadFiles(w) ==
    /\ job[w] = NoJob /\ begun < MaxIngests
    /\ \E paths \in Batches :
           IF ToSet(paths) \subseteq Supported
           THEN \E items \in Read(paths) : StartIngest(w, items)
           ELSE Begin(w, NoJob)

\* The walk keeps to the files it can read.
LoadDir(w) ==
    /\ job[w] = NoJob /\ begun < MaxIngests
    /\ \E items \in Read(SetToSeq(Supported \cap Allowed)) : StartIngest(w, items)

-----------------------------------------------------------------------------
(* Embedding. One by one, the first failure ending the call; or several at   *)
(* once, each into its own slot, failures looked at when all are done.       *)

EndJob(w) == job' = [job EXCEPT ![w] = NoJob]
Quiet == found' = NotAsked
Embedded(j) == {k \in DOMAIN j.embs : j.embs[k] # 0}

EmbedNext(w) ==
    /\ job[w].at = "embed" /\ job[w].par = 1
    /\ LET i == Cardinality(Embedded(job[w])) + 1
       IN \/ job' = [job EXCEPT ![w].embs[i] = i,
                                ![w].at = IF i = Len(job[w].chunks) THEN "delete" ELSE @]
          \/ EndJob(w)
    /\ Quiet /\ UNCHANGED <<vstore, docs, begun, nextID, current, clash>>


\* Embeddings arrive in any order; each goes where its chunk is.
EmbedSlot(j, i) == i

EmbedConcurrently(w) ==
    /\ job[w].at = "embed" /\ job[w].par > 1
    /\ \E i \in DOMAIN job[w].chunks :
           /\ i \notin job[w].errs
           /\ \A k \in DOMAIN job[w].embs : job[w].embs[k] # i
           /\ \/ job' = [job EXCEPT ![w].embs[EmbedSlot(job[w], i)] = i]
              \/ job' = [job EXCEPT ![w].errs = @ \cup {i}]
    /\ Quiet /\ UNCHANGED <<vstore, docs, begun, nextID, current, clash>>

AllEmbedded(w) ==
    /\ job[w].at = "embed" /\ job[w].par > 1
    /\ Cardinality(Embedded(job[w])) + Cardinality(job[w].errs) = Len(job[w].chunks)
    /\ IF job[w].errs = {} THEN job' = [job EXCEPT ![w].at = "delete"] ELSE EndJob(w)
    /\ Quiet /\ UNCHANGED <<vstore, docs, begun, nextID, current, clash>>

-----------------------------------------------------------------------------
(* Replacing. The old chunks of each source go first, in any order of the    *)
(* sources, then all new ones are written.                                   *)

From(s) == {d \in docs : d.src = s}
Unsettle(S) == current' = [s \in Sources |-> IF s \in S THEN NoText ELSE current[s]]

DeleteOldMemory(w) ==
    /\ job[w].at = "delete" /\ vstore = "memory"
    /\ \E s \in job[w].todo :
           /\ docs' = docs \ From(s)
           /\ Unsettle({s})
           /\ job' = [job EXCEPT ![w].todo = @ \ {s}]
    /\ Quiet /\ UNCHANGED <<vstore, begun, nextID, clash>>

DeleteOldPostgres(w) ==
    /\ job[w].at = "delete" /\ vstore = "postgres"
    /\ \E s \in job[w].todo :
           \/ /\ docs' = docs \ From(s)
              /\ Unsettle({s})
              /\ job' = [job EXCEPT ![w].todo = @ \ {s}]
           \/ EndJob(w) /\ UNCHANGED <<docs, current>>
    /\ Quiet /\ UNCHANGED <<vstore, begun, nextID, clash>>

\* Redis searches for at most SearchLimit keys and deletes those.
FindOldRedis(w) ==
    /\ job[w].at = "delete" /\ vstore = "redis"
    /\ \E s \in job[w].todo :
           \/ \E K \in SUBSET {d.id : d \in From(s)} :
                  /\ Cardinality(K) = Smaller(SearchLimit, Cardinality(From(s)))
                  /\ job' = [job EXCEPT ![w].keys = K, ![w].todo = @ \ {s},
                                        ![w].at = IF K = {} THEN "delete" ELSE "del"]
           \/ EndJob(w)
    /\ Quiet /\ UNCHANGED <<vstore, docs, begun, nextID, current, clash>>

DeleteOldRedis(w) ==
    /\ job[w].at = "del"
    /\ \/ /\ docs' = {d \in docs : d.id \notin job[w].keys}
          /\ Unsettle({d.src : d \in {e \in docs : e.id \in job[w].keys}})
          /\ job' = [job EXCEPT ![w].at = "delete", ![w].keys = {}]
       \/ EndJob(w) /\ UNCHANGED <<docs, current>>
    /\ Quiet /\ UNCHANGED <<vstore, begun, nextID, clash>>

Document(j, i, id) ==
    [id |-> id, src |-> j.chunks[i].src, ver |-> j.chunks[i].ver, part |-> j.chunks[i].part,
     chunk |-> j.chunks[i].chunk, emb |-> j.chunks[j.embs[i]]]
Written(j) == {Document(j, i, nextID + i) : i \in DOMAIN j.chunks}

\* An ingestion that had its sources to itself leaves them as it read them.
Finish(w) ==
    LET text(s) == LET i == CHOOSE k \in DOMAIN job[w].items : job[w].items[k].src = s
                   IN [ver |-> job[w].items[i].ver, len |-> job[w].items[i].len]
    IN /\ current' = [s \in Sources |-> IF s \in SourcesOf(job[w]) /\ job[w].alone THEN text(s)
                                        ELSE IF s \in SourcesOf(job[w]) THEN NoText
                                        ELSE current[s]]
       /\ clash' = IF job[w].alone THEN clash \ SourcesOf(job[w]) ELSE clash

UpsertMemory(w) ==
    /\ job[w].at = "delete" /\ job[w].todo = {} /\ vstore = "memory"
    /\ docs' = docs \cup Written(job[w])
    /\ nextID' = nextID + Len(job[w].chunks)
    /\ Finish(w) /\ EndJob(w) /\ Quiet /\ UNCHANGED <<vstore, begun>>

\* One batch, committed whole or not at all.
UpsertPostgres(w) ==
    /\ job[w].at = "delete" /\ job[w].todo = {} /\ vstore = "postgres"
    /\ \/ /\ docs' = docs \cup Written(job[w])
          /\ nextID' = nextID + Len(job[w].chunks)
          /\ Finish(w)
       \/ UNCHANGED <<docs, nextID, current, clash>>
    /\ EndJob(w) /\ Quiet /\ UNCHANGED <<vstore, begun>>

\* One HSET for each document.
UpsertRedis(w) ==
    /\ job[w].at = "delete" /\ job[w].todo = {} /\ vstore = "redis"
    /\ LET i == job[w].put + 1
       IN \/ /\ docs' = docs \cup {Document(job[w], i, nextID + 1)}
             /\ nextID' = nextID + 1
             /\ IF i = Len(job[w].chunks)
                THEN Finish(w) /\ EndJob(w)
                ELSE /\ Unsettle({job[w].chunks[i].src})
                     /\ job' = [job EXCEPT ![w].put = i]
                     /\ UNCHANGED clash
          \/ EndJob(w) /\ UNCHANGED <<docs, nextID, current, clash>>
    /\ Quiet /\ UNCHANGED <<vstore, begun>>

\* The process dies, or its context ends while it waits.
CrashIngest(w) ==
    /\ job[w] # NoJob
    /\ EndJob(w) /\ Quiet /\ UNCHANGED <<vstore, docs, begun, nextID, current, clash>>

\* Delete by identifier, by the application.
DeleteDocument ==
    /\ \E d \in docs :
           /\ docs' = docs \ {d} /\ Unsettle({d.src})
           /\ job' = [w \in Writers |-> [job[w] EXCEPT !.alone = @ /\ (d.src \notin SourcesOf(job[w]))]]
    /\ Quiet /\ UNCHANGED <<vstore, begun, nextID, clash>>

-----------------------------------------------------------------------------
(* Retrieval: the nearest MaxResults, those above the threshold, reranked.   *)

DocScore(d) == ChunkScore[CHOOSE p \in d.emb.part : \A q \in d.emb.part : p <= q]

Closer(a, b) == DocScore(a) > DocScore(b) \/ (DocScore(a) = DocScore(b) /\ a.id < b.id)

\* Nearest first, and of the equally near the one stored first.
Search(n) ==
    [k \in 1..Smaller(n, Cardinality(docs)) |->
        CHOOSE d \in docs : Cardinality({e \in docs : Closer(e, d)}) = k - 1]

Retrieve ==
    /\ docs # {} /\ ~ found.asked
    /\ LET kept == SelectSeq(Search(MaxResults), LAMBDA d : DocScore(d) >= Threshold)
       IN \E res \in {kept, Reverse(kept)} : found' = [asked |-> TRUE, res |-> res]
    /\ UNCHANGED <<vstore, docs, job, begun, nextID, current, clash>>

RNext ==
    \/ \E w \in Writers :
           \/ LoadFiles(w) \/ LoadDir(w)
           \/ EmbedNext(w) \/ EmbedConcurrently(w) \/ AllEmbedded(w)
           \/ DeleteOldMemory(w) \/ DeleteOldPostgres(w) \/ FindOldRedis(w) \/ DeleteOldRedis(w)
           \/ UpsertMemory(w) \/ UpsertPostgres(w) \/ UpsertRedis(w) \/ CrashIngest(w)
    \/ DeleteDocument
    \/ Retrieve

-----------------------------------------------------------------------------
(* Properties.                                                               *)

\* The text a source's chunks were made of, whole: every position in a chunk,
\* no chunk twice, none too long, each with the embedding of its own content.
HoldsText(s, text) ==
    LET mine == From(s)
    IN /\ UNION {d.part : d \in mine} = 1..text.len
       /\ \A d \in mine : /\ d.ver = text.ver /\ Cardinality(d.part) \in 1..ChunkSize
                          /\ d.emb.src = s /\ d.emb.part = d.part
       /\ \A d, e \in mine : d # e => d.chunk # e.chunk

=============================================================================
