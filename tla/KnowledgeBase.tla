----------------------------- MODULE KnowledgeBase -----------------------------
(***************************************************************************)
(* Knowledge articles and their chunks: KnowledgeService behind the        *)
(* /knowledge endpoints, whose calls overlap in the thread pool, and the   *)
(* command backfill_embeddings, a process of its own.                      *)
(*                                                                         *)
(* A call that changes the content of an article, or asks for its chunks   *)
(* to be made again, deletes the chunk rows it sees and inserts new ones   *)
(* in one transaction, with a call of the embedding service (external) in  *)
(* between, while it holds the locks of the rows it has written.           *)
(*                                                                         *)
(* The text of an article is a model value, cut in Pieces[text] chunks     *)
(* (ContentSplitter says how).  Title, tags, visibility and active have no *)
(* effect on chunks and are abstracted, with the PATCH that sets only them.*)
(***************************************************************************)
EXTENDS Naturals, FiniteSets

CONSTANTS
  Articles,     \* ids that articles have or will have
  Requests,     \* threads that serve calls
  Texts,        \* contents of articles
  Pieces,       \* [Texts -> number of chunks the text is cut in]
  Null,         \* no row, no vector
  Keep,         \* the call sets no content: POST /articles/{id}/chunk
  MaxRebuilds   \* bound: calls that build chunks

ASSUME KnowledgeAssumption ==
  /\ Pieces \in [Texts -> Nat \ {0}]
  /\ MaxRebuilds \in Nat
  /\ Keep \notin Texts
  /\ Null \notin Texts \cup Articles \cup (Texts \X Nat)

VARIABLES
  content,    \* table knowledge_articles: [Articles -> the text, or Null]
  chunks,     \* table knowledge_chunks: a set of rows
  rebuilds,   \* calls so far: numbers the sets of chunks they insert
  pc,         \* [Requests -> the next statement of the call]
  article,    \* [Requests -> the article of the call, or Null]
  patch,      \* [Requests -> the text the call sets, or Keep]
  loaded,     \* [Requests -> the text in the call's session, or Null]
  born,       \* [Requests -> the number of the call's chunks, or 0]
  doomed,     \* [Requests -> ids of the chunk rows the call deletes]
  backfill,   \* "idle" or "embed"
  listed,     \* [Articles -> article.chunks in the backfill's session, as loaded]
  computed    \* the backfill's vectors, each with the id of the row it is set on

call    == <<pc, article, patch, loaded, born, doomed>>
command == <<backfill, listed, computed>>
vars    == <<content, chunks, rebuilds, call, command>>

Chunk == [article : Articles, born : Nat \ {0}, index : Nat, text : Texts,
          vector : (Texts \X Nat) \cup {Null}]

Id == (Nat \ {0}) \X Nat

\* What a call on an article sets: the content of a PATCH, or nothing, which is
\* POST /articles/{id}/chunk.
Patches == Texts \cup {Keep}

\* Tables, sessions and the backfill's list of rows have their types.
TypeOK ==
  /\ content \in [Articles -> Texts \cup {Null}]
  /\ chunks \subseteq Chunk
  /\ rebuilds \in 0 .. MaxRebuilds
  /\ pc \in [Requests -> {"idle", "select", "delete", "insert"}]
  /\ article \in [Requests -> Articles \cup {Null}]
  /\ patch \in [Requests -> Patches]
  /\ loaded \in [Requests -> Texts \cup {Null}]
  /\ born \in [Requests -> 0 .. MaxRebuilds]
  /\ doomed \in [Requests -> SUBSET Id]
  /\ backfill \in {"idle", "embed"}
  /\ listed \in [Articles -> SUBSET Chunk]
  /\ computed \subseteq Id \X (Texts \X Nat)

Init ==
  /\ content = [a \in Articles |-> Null]
  /\ chunks = {}
  /\ rebuilds = 0
  /\ pc = [r \in Requests |-> "idle"]
  /\ article = [r \in Requests |-> Null]
  /\ patch = [r \in Requests |-> Keep]
  /\ loaded = [r \in Requests |-> Null]
  /\ born = [r \in Requests |-> 0]
  /\ doomed = [r \in Requests |-> {}]
  /\ backfill = "idle"
  /\ listed = [a \in Articles |-> {}]
  /\ computed = {}

------------------------------------------------------------------------------

\* The primary key of a row (a UUID in the code).
IdOf(c) == <<c.born, c.index>>

ChunksOf(a) == {c \in chunks : c.article = a}

IdsOf(rows) == {IdOf(c) : c \in rows}

\* The vector of a row's text: it stands for the piece it is computed from.
VectorOf(c) == <<c.text, c.index>>

\* The chunk_index values of a text's rows
Indexes(t) == 0 .. (Pieces[t] - 1)

\* a bug: one row per text, whatever its length
OnlyFirstPiece(a, n, t, embedded) ==
  {[article |-> a, born |-> n, index |-> 0, text |-> t,
    vector |-> IF embedded THEN <<t, 0>> ELSE Null]}

\* The rows that _rebuild_chunks inserts: one per piece, all with a vector or,
\* without a client, when it fails or returns an empty list, none.  A shorter list
\* of vectors than of texts raises, which is Fail.
NewChunks(a, n, t, embedded) ==
  {[article |-> a, born |-> n, index |-> i, text |-> t,
    vector |-> IF embedded THEN <<t, i>> ELSE Null] : i \in Indexes(t)}

\* The text the call leaves in its session, and cuts
Wanted(r) == IF patch[r] = Keep THEN loaded[r] ELSE patch[r]

\* The UPDATE of the article writes content only if it differs from the loaded one.
Updates(r) == Wanted(r) # loaded[r]

\* Row locks of the calls that have flushed and not yet committed
HoldsArticle(r, a) == pc[r] = "insert" /\ article[r] = a /\ Updates(r)

HoldsChunk(r, id) == pc[r] = "insert" /\ id \in doomed[r]

End(r) ==
  /\ pc' = [pc EXCEPT ![r] = "idle"]
  /\ article' = [article EXCEPT ![r] = Null]
  /\ patch' = [patch EXCEPT ![r] = Keep]
  /\ loaded' = [loaded EXCEPT ![r] = Null]
  /\ born' = [born EXCEPT ![r] = 0]
  /\ doomed' = [doomed EXCEPT ![r] = {}]

------------------------------------------------------------------------------
(* The calls.                                                              *)

\* create_article: nothing of it is seen before its commit.
Create(a, t) ==
  /\ content[a] = Null
  /\ rebuilds < MaxRebuilds
  /\ rebuilds' = rebuilds + 1
  /\ content' = [content EXCEPT ![a] = t]
  /\ \E embedded \in BOOLEAN :
       chunks' = chunks \cup NewChunks(a, rebuilds + 1, t, embedded)
  /\ UNCHANGED <<call, command>>

\* update_article with a content, or chunk_article: get_article.
Load(r, a, p) ==
  /\ pc[r] = "idle"
  /\ content[a] # Null
  /\ rebuilds < MaxRebuilds
  /\ rebuilds' = rebuilds + 1
  /\ born' = [born EXCEPT ![r] = rebuilds + 1]
  /\ article' = [article EXCEPT ![r] = a]
  /\ patch' = [patch EXCEPT ![r] = p]
  /\ loaded' = [loaded EXCEPT ![r] = content[a]]
  /\ pc' = [pc EXCEPT ![r] = "select"]
  /\ UNCHANGED <<content, chunks, doomed, command>>

\* delete_chunks, its SELECT: the chunk rows that are committed now.
Select(r) ==
  /\ pc[r] = "select"
  /\ doomed' = [doomed EXCEPT ![r] = IdsOf(ChunksOf(article[r]))]
  /\ pc' = [pc EXCEPT ![r] = "delete"]
  /\ UNCHANGED <<content, chunks, rebuilds, article, patch, loaded, born,
                 command>>

\* delete_chunks, its flush: the UPDATE of the article and the DELETEs wait for
\* the locks of others.  A row that is gone meanwhile is only warned about.
Delete(r) ==
  /\ pc[r] = "delete"
  /\ \A q \in Requests \ {r} :
       /\ Updates(r) => ~HoldsArticle(q, article[r])
       /\ \A id \in doomed[r] : ~HoldsChunk(q, id)
  /\ pc' = [pc EXCEPT ![r] = "insert"]
  /\ UNCHANGED <<content, chunks, rebuilds, article, patch, loaded, born, doomed,
                 command>>

\* a bug: an unset content is stored like a set one
CommitUnset(r) ==
  /\ pc[r] = "insert"
  /\ content' = [content EXCEPT ![article[r]] = patch[r]]
  /\ \E embedded \in BOOLEAN :
       chunks' = {c \in chunks : IdOf(c) \notin doomed[r]}
                   \cup NewChunks(article[r], born[r], Wanted(r), embedded)
  /\ End(r)
  /\ UNCHANGED <<rebuilds, command>>

\* a bug: the old rows stay
CommitKeepingOld(r) ==
  /\ pc[r] = "insert"
  /\ content' = IF Updates(r) THEN [content EXCEPT ![article[r]] = patch[r]]
                              ELSE content
  /\ \E embedded \in BOOLEAN :
       chunks' = chunks \cup NewChunks(article[r], born[r], Wanted(r), embedded)
  /\ End(r)
  /\ UNCHANGED <<rebuilds, command>>

\* _embed, add_chunk for every piece, commit.
Commit(r) ==
  /\ pc[r] = "insert"
  /\ content' = IF Updates(r) THEN [content EXCEPT ![article[r]] = patch[r]]
                              ELSE content
  /\ \E embedded \in BOOLEAN :
       chunks' = {c \in chunks : IdOf(c) \notin doomed[r]}
                   \cup NewChunks(article[r], born[r], Wanted(r), embedded)
  /\ End(r)
  /\ UNCHANGED <<rebuilds, command>>

\* A statement fails or the server dies: everything is rolled back.
Fail(r) ==
  /\ pc[r] # "idle"
  /\ End(r)
  /\ UNCHANGED <<content, chunks, rebuilds, command>>

------------------------------------------------------------------------------
(* backfill_embeddings.                                                    *)

\* The articles and their chunks are loaded.
StartBackfill ==
  /\ backfill = "idle"
  /\ backfill' = "embed"
  /\ listed' = [a \in Articles |-> ChunksOf(a)]
  /\ UNCHANGED <<content, chunks, rebuilds, call, computed>>

\* The orders that rows can have by chunk_index; rows of two sets tie.
Orders(rows) ==
  {order \in [1 .. Cardinality(rows) -> rows] :
     \A i, j \in DOMAIN order :
       i < j => order[i] # order[j] /\ order[i].index <= order[j].index}

\* The embedding service returns the vectors of the texts it was given, in their
\* order, but maybe only the first few.
Vectors(rows, few) == [k \in {i \in DOMAIN rows : i <= few} |-> VectorOf(rows[k])]

\* zip, strict=False: a vector is set on the row at its position.
Zip(rows, vectors) ==
  {<<IdOf(rows[k]), vectors[k]>> : k \in DOMAIN rows \cap DOMAIN vectors}

Missing(a) == {c \in listed[a] : c.vector = Null}

\* a bug: the vectors are set on the rows of the article from the first, although
\* they are those of the rows that miss one
EmbedZippingAll(a) ==
  /\ backfill = "embed"
  /\ listed[a] # {}
  /\ \E missing \in Orders(Missing(a)), all \in Orders(listed[a]) :
       \E few \in DOMAIN missing \cup {0} :
         computed' = computed \cup Zip(all, Vectors(missing, few))
  /\ listed' = [listed EXCEPT ![a] = {}]
  /\ UNCHANGED <<content, chunks, rebuilds, call, backfill>>

\* One call of the service per article, for the texts as they were loaded; the
\* vectors stay in the session.
Embed(a) ==
  /\ backfill = "embed"
  /\ listed[a] # {}
  /\ \E missing \in Orders(Missing(a)) : \E few \in DOMAIN missing \cup {0} :
       computed' = computed \cup Zip(missing, Vectors(missing, few))
  /\ listed' = [listed EXCEPT ![a] = {}]
  /\ UNCHANGED <<content, chunks, rebuilds, call, backfill>>

\* The row with the vector that was set on it, if one was
Stored(c) ==
  IF \E p \in computed : p[1] = IdOf(c)
    THEN [c EXCEPT !.vector = (CHOOSE p \in computed : p[1] = IdOf(c))[2]]
    ELSE c

\* The loop is over: one flush updates the rows, waiting for the locks of others,
\* and the commit follows.  If one of the rows is gone the flush raises
\* StaleDataError and nothing is stored.
FinishBackfill ==
  /\ backfill = "embed"
  /\ \A a \in Articles : listed[a] = {}
  /\ \A q \in Requests, p \in computed : ~HoldsChunk(q, p[1])
  /\ chunks' = IF \A p \in computed : p[1] \in IdsOf(chunks)
                 THEN {Stored(c) : c \in chunks}
                 ELSE chunks
  /\ backfill' = "idle"
  /\ computed' = {}
  /\ UNCHANGED <<content, rebuilds, call, listed>>

\* The embedding service raises, or the process dies.
FailBackfill ==
  /\ backfill = "embed"
  /\ backfill' = "idle"
  /\ listed' = [a \in Articles |-> {}]
  /\ computed' = {}
  /\ UNCHANGED <<content, chunks, rebuilds, call>>

Next ==
  \/ \E a \in Articles, t \in Texts : Create(a, t)
  \/ \E r \in Requests :
       \/ \E a \in Articles, p \in Patches : Load(r, a, p)
       \/ Select(r)
       \/ Delete(r)
       \/ Commit(r)
       \/ Fail(r)
  \/ StartBackfill
  \/ \E a \in Articles : Embed(a)
  \/ FinishBackfill
  \/ FailBackfill

Spec == Init /\ [][Next]_vars

------------------------------------------------------------------------------
(* The searches, which only read.                                          *)

\* search_chunks: the rows that match, joined with their article; here a query
\* that every text matches.
Found == {c \in chunks : content[c.article] # Null}

\* semantic_search ranks, by their distance from the query, the rows that have a
\* vector.
Ranked == {c \in Found : c.vector # Null}

------------------------------------------------------------------------------
(* Properties.                                                             *)

\* A vector is the one of the text it is stored with: semantic search never ranks
\* a chunk by another chunk's or another revision's vector, although the backfill
\* pairs vectors with rows by position, may get too few of them, and sets them on
\* rows it listed before others deleted and inserted some.
VectorsMatch == \A c \in Ranked : c.vector = VectorOf(c)

\* The rows inserted with c, if they are all still there and only those
WholeSet(c) ==
  LET set == {d \in chunks : d.born = c.born}
  IN  /\ \A d \in set : d.article = c.article /\ d.text = c.text
      /\ {d.index : d \in set} = Indexes(c.text)

\* Overlapping rebuilds may leave rows of two revisions, but each is there whole
\* and each row once, and no article is ever without chunks, so keyword search
\* finds it in every state that is committed.
ChunksWhole ==
  /\ \A c \in chunks : WholeSet(c)
  /\ \A c, d \in chunks : IdOf(c) = IdOf(d) => c = d
  /\ \A a \in Articles : content[a] # Null <=> \E c \in Found : c.article = a

\* Only overlap makes chunks stale: a rebuild that commits while the article and
\* its chunks are as it read them leaves the pieces of the article's text alone.
FreshRebuildExact ==
  [][\A r \in Requests :
       /\ pc[r] = "insert"
       /\ chunks' # chunks
       /\ pc'[r] = "idle"
       /\ loaded[r] = content[article[r]]
       /\ doomed[r] = IdsOf(ChunksOf(article[r]))
       => \A c \in chunks' : c.article = article[r] =>
            /\ c.text = content'[article[r]]
            /\ c.born = born[r]]_vars

=============================================================================
