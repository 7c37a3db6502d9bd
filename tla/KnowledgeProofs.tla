---------------------------- MODULE KnowledgeProofs ----------------------------
(***************************************************************************)
(* The chunks of the knowledge base, for any number of articles, threads   *)
(* and rebuilds: the inductive invariant of KnowledgeBase and its two      *)
(* state properties.                                                       *)
(***************************************************************************)
EXTENDS KnowledgeBase, TLAPS

------------------------------------------------------------------------------
(* The inductive invariant.                                                *)

Active(r) == pc[r] # "idle"

\* A call that runs is about an article that exists, and has a text to cut.
Loaded(r) ==
  Active(r) => /\ article[r] \in Articles
               /\ content[article[r]] # Null
               /\ loaded[r] \in Texts

\* The number of a running call is its own, and no row has it yet.
Numbered(r) ==
  Active(r) =>
    /\ born[r] # 0
    /\ born[r] <= rebuilds
    /\ \A c \in chunks : c.born # born[r]
    /\ \A q \in Requests : \A id \in doomed[q] : id[1] # born[r]
    /\ \A q \in Requests \ {r} : Active(q) => born[q] # born[r]

\* Numbers of rows that are there, or that a call deletes, were given.
Given ==
  /\ \A c \in chunks : c.born <= rebuilds
  /\ \A r \in Requests : \A id \in doomed[r] : id[1] <= rebuilds

\* A call deletes rows of its article, and of each set all or none.
WholeSetsDoomed(r) ==
  /\ pc[r] \in {"idle", "select"} => doomed[r] = {}
  /\ \A c \in chunks : IdOf(c) \in doomed[r] => c.article = article[r]
  /\ \A c, d \in chunks :
       c.born = d.born => (IdOf(c) \in doomed[r] <=> IdOf(d) \in doomed[r])

\* What ChunksWhole says of a set of rows, row by row
RowsAgree(rows) ==
  \A c, d \in rows :
    c.born = d.born => /\ c.article = d.article
                       /\ c.text = d.text
                       /\ (c.index = d.index => c = d)

RowsComplete(rows) ==
  \A c \in rows :
    /\ c.index \in Indexes(c.text)
    /\ \A i \in Indexes(c.text) :
         \E d \in rows : d.born = c.born /\ d.index = i

\* VectorsMatch, of the rows that no search reaches too
VectorsOwn == \A c \in chunks : c.vector \in {Null, VectorOf(c)}

\* The row with this id, while there is one, has the text whose vector v is, and
\* no call will insert another.
Remembered(id, v) ==
  /\ id[1] <= rebuilds
  /\ \A c \in chunks : IdOf(c) = id => VectorOf(c) = v
  /\ \A r \in Requests : Active(r) => born[r] # id[1]

\* What the backfill has loaded and computed holds of the rows as they are now.
Captured ==
  /\ \A a \in Articles : \A c \in listed[a] : Remembered(IdOf(c), VectorOf(c))
  /\ \A p \in computed : Remembered(p[1], p[2])

Stocked ==
  \A a \in Articles : content[a] # Null <=> \E c \in chunks : c.article = a

IInv ==
  /\ TypeOK
  /\ VectorsOwn
  /\ RowsAgree(chunks)
  /\ RowsComplete(chunks)
  /\ Stocked
  /\ Given
  /\ Captured
  /\ \A r \in Requests : Loaded(r) /\ Numbered(r) /\ WholeSetsDoomed(r)

------------------------------------------------------------------------------
(* Lemmas about the helpers.                                               *)

\* A text is cut in at least one piece.
LEMMA PieceZero ==
  ASSUME NEW t \in Texts
  PROVE  /\ 0 \in Indexes(t)
         /\ Indexes(t) \subseteq Nat
BY KnowledgeAssumption DEF KnowledgeAssumption, Indexes

\* The rows that a rebuild inserts: what their columns hold.
LEMMA NewRows ==
  ASSUME NEW a \in Articles, NEW n \in Nat \ {0}, NEW t \in Texts,
         NEW embedded \in BOOLEAN
  PROVE  /\ NewChunks(a, n, t, embedded) \subseteq Chunk
         /\ \A c \in NewChunks(a, n, t, embedded) :
              /\ c.article = a
              /\ c.born = n
              /\ c.text = t
              /\ c.index \in Indexes(t)
              /\ c.vector \in {Null, VectorOf(c)}
         /\ \A c, d \in NewChunks(a, n, t, embedded) : c.index = d.index => c = d
         /\ \A i \in Indexes(t) :
              \E c \in NewChunks(a, n, t, embedded) : c.index = i
<1>. DEFINE v(i) == IF embedded THEN <<t, i>> ELSE Null
            row(i) == [article |-> a, born |-> n, index |-> i, text |-> t,
                       vector |-> v(i)]
<1>1. ASSUME NEW i \in Indexes(t)
      PROVE  /\ row(i) \in Chunk
             /\ row(i).article = a /\ row(i).born = n /\ row(i).text = t
             /\ row(i).index = i
             /\ row(i).vector \in {Null, VectorOf(row(i))}
  <2>1. i \in Nat
    BY PieceZero
  <2>2. v(i) \in (Texts \X Nat) \cup {Null}
    BY <2>1
  <2>3. row(i) \in Chunk
    BY <2>1, <2>2 DEF Chunk
  <2>. QED  BY <2>3 DEF VectorOf
<1>2. NewChunks(a, n, t, embedded) = {row(i) : i \in Indexes(t)}
  BY DEF NewChunks
<1>. HIDE DEF row
<1>. QED  BY <1>1, <1>2

\* Equal keys are equal numbers and indexes.
LEMMA Keys ==
  ASSUME NEW c, NEW d
  PROVE  IdOf(c) = IdOf(d) <=> c.born = d.born /\ c.index = d.index
BY DEF IdOf

\* RowsAgree, RowsComplete and Stocked are ChunksWhole.
LEMMA WholeRows ==
  ASSUME RowsAgree(chunks), RowsComplete(chunks), Stocked
  PROVE  ChunksWhole
<1>1. ASSUME NEW c \in chunks
      PROVE  WholeSet(c)
  <2>. DEFINE set == {d \in chunks : d.born = c.born}
  <2>1. \A d \in set : d.article = c.article /\ d.text = c.text
    BY DEF RowsAgree
  <2>2. \A d \in set : d.index \in Indexes(c.text)
    BY <2>1 DEF RowsComplete
  <2>3. \A i \in Indexes(c.text) : \E d \in set : d.index = i
    BY DEF RowsComplete
  <2>4. {d.index : d \in set} = Indexes(c.text)
    BY <2>2, <2>3
  <2>. QED  BY <2>1, <2>4 DEF WholeSet
<1>2. \A c, d \in chunks : IdOf(c) = IdOf(d) => c = d
  BY Keys DEF RowsAgree
<1>3. \A a \in Articles : content[a] # Null <=> \E c \in Found : c.article = a
  BY DEF Stocked, Found
<1>. QED  BY <1>1, <1>2, <1>3 DEF ChunksWhole

\* The text a running call cuts
LEMMA WantedText ==
  ASSUME TypeOK, NEW r \in Requests, Loaded(r), Active(r)
  PROVE  /\ Wanted(r) \in Texts
         /\ Updates(r) => patch[r] \in Texts /\ patch[r] # Null
BY KnowledgeAssumption DEF KnowledgeAssumption, TypeOK, Patches, Loaded, Wanted,
                             Updates

\* Rows leave a table set by set, and one new set enters it.
LEMMA Replacement ==
  ASSUME NEW rows, RowsAgree(rows), RowsComplete(rows),
         NEW kept \in SUBSET rows,
         \A c, d \in rows : c.born = d.born => (c \in kept <=> d \in kept),
         NEW a \in Articles, NEW n \in Nat \ {0}, NEW t \in Texts,
         NEW embedded \in BOOLEAN,
         \A c \in rows : c.born # n
  PROVE  /\ RowsAgree(kept \cup NewChunks(a, n, t, embedded))
         /\ RowsComplete(kept \cup NewChunks(a, n, t, embedded))
<1>. DEFINE new == NewChunks(a, n, t, embedded)
<1>1. /\ \A c \in new : /\ c.article = a /\ c.born = n /\ c.text = t
                        /\ c.index \in Indexes(t)
      /\ \A c, d \in new : c.index = d.index => c = d
      /\ \A i \in Indexes(t) : \E c \in new : c.index = i
  BY NewRows
<1>. HIDE DEF new
<1>2. RowsAgree(kept \cup new)
  <2>. SUFFICES ASSUME NEW c \in kept \cup new, NEW d \in kept \cup new,
                       c.born = d.born
                PROVE  /\ c.article = d.article
                       /\ c.text = d.text
                       /\ (c.index = d.index => c = d)
    BY DEF RowsAgree
  <2>1. CASE c \in kept /\ d \in kept
    BY <2>1 DEF RowsAgree
  <2>2. CASE c \in new /\ d \in new
    BY <1>1, <2>2
  <2>. QED  BY <1>1, <2>1, <2>2
<1>3. RowsComplete(kept \cup new)
  <2>. SUFFICES ASSUME NEW c \in kept \cup new
                PROVE  /\ c.index \in Indexes(c.text)
                       /\ \A i \in Indexes(c.text) :
                            \E d \in kept \cup new : d.born = c.born /\ d.index = i
    BY DEF RowsComplete
  <2>1. CASE c \in kept
    <3>1. ASSUME NEW i \in Indexes(c.text)
          PROVE  \E d \in kept : d.born = c.born /\ d.index = i
      <4>1. PICK d \in rows : d.born = c.born /\ d.index = i
        BY <2>1, <3>1 DEF RowsComplete
      <4>. QED  BY <2>1, <4>1
    <3>. QED  BY <2>1, <3>1 DEF RowsComplete
  <2>2. CASE c \in new
    BY <1>1, <2>2
  <2>. QED  BY <2>1, <2>2
<1>. QED  BY <1>2, <1>3 DEF new

\* What was captured of a row holds as long as no new row or call takes its number.
LEMMA StillRemembered ==
  ASSUME rebuilds \in Nat, rebuilds' \in Nat, rebuilds <= rebuilds',
         NEW id \in Id, NEW v, Remembered(id, v),
         \A c \in chunks' :
           \/ \E d \in chunks : IdOf(c) = IdOf(d) /\ VectorOf(c) = VectorOf(d)
           \/ IdOf(c) # id,
         \A r \in Requests : Active(r)' => (Active(r) /\ born'[r] = born[r])
                                           \/ born'[r] # id[1]
  PROVE  Remembered(id, v)'
<1>1. id[1] \in Nat
  BY DEF Id
<1>2. \A c \in chunks' : IdOf(c) = id => VectorOf(c) = v
  BY DEF Remembered
<1>3. \A r \in Requests : Active(r)' => born'[r] # id[1]
  BY DEF Remembered
<1>4. id[1] <= rebuilds'
  BY <1>1 DEF Remembered
<1>. QED  BY <1>2, <1>3, <1>4 DEF Remembered, IdOf, VectorOf

LEMMA StillCaptured ==
  ASSUME TypeOK, Captured, UNCHANGED <<listed, computed>>,
         rebuilds' \in Nat, rebuilds <= rebuilds',
         \A c \in chunks' :
           \/ \E d \in chunks : IdOf(c) = IdOf(d) /\ VectorOf(c) = VectorOf(d)
           \/ \E r \in Requests : Active(r) /\ c.born = born[r]
           \/ c.born > rebuilds,
         \A r \in Requests : Active(r)' => (Active(r) /\ born'[r] = born[r])
                                           \/ born'[r] > rebuilds
  PROVE  Captured'
<1>1. ASSUME NEW id \in Id, NEW v, Remembered(id, v)
      PROVE  Remembered(id, v)'
  <2>1. rebuilds \in Nat /\ id[1] \in Nat /\ id[1] <= rebuilds
    BY <1>1, KnowledgeAssumption DEF TypeOK, Id, Remembered
  <2>2. \A c : IdOf(c)[1] = c.born
    BY DEF IdOf
  <2>3. \A c \in chunks' :
          \/ \E d \in chunks : IdOf(c) = IdOf(d) /\ VectorOf(c) = VectorOf(d)
          \/ IdOf(c) # id
    <3>. SUFFICES ASSUME NEW c \in chunks', IdOf(c) = id
                  PROVE  \E d \in chunks : IdOf(c) = IdOf(d) /\ VectorOf(c) = VectorOf(d)
      OBVIOUS
    <3>1. c.born = id[1]
      BY <2>2
    <3>2. ~(c.born > rebuilds)
      BY <2>1, <3>1
    <3>3. ~\E r \in Requests : Active(r) /\ c.born = born[r]
      BY <1>1, <3>1 DEF Remembered
    <3>. QED  BY <3>2, <3>3
  <2>4. \A r \in Requests : Active(r)' => (Active(r) /\ born'[r] = born[r])
                                          \/ born'[r] # id[1]
    BY <2>1
  <2>. QED  BY <1>1, <2>1, <2>3, <2>4, StillRemembered
<1>2. ASSUME NEW a \in Articles, NEW c \in listed[a]
      PROVE  Remembered(IdOf(c), VectorOf(c))'
  <2>1. c \in Chunk
    BY DEF TypeOK
  <2>2. IdOf(c) \in Id
    BY <2>1 DEF Chunk, IdOf, Id
  <2>. QED  BY <1>1, <2>2 DEF Captured
<1>3. ASSUME NEW p \in computed
      PROVE  Remembered(p[1], p[2])'
  <2>1. p[1] \in Id
    BY DEF TypeOK
  <2>. QED  BY <1>1, <2>1 DEF Captured
<1>. QED  BY <1>2, <1>3 DEF Captured

\* What zip pairs is the id and the vector of one and the same row.
LEMMA ZipPairs ==
  ASSUME NEW rows, NEW order \in Orders(rows), NEW few,
         NEW p \in Zip(order, Vectors(order, few))
  PROVE  \E c \in rows : p = <<IdOf(c), VectorOf(c)>>
<1>1. \A k \in DOMAIN order : order[k] \in rows
  BY DEF Orders
<1>2. PICK k \in DOMAIN order \cap DOMAIN Vectors(order, few) :
        p = <<IdOf(order[k]), Vectors(order, few)[k]>>
  BY DEF Zip
<1>3. Vectors(order, few)[k] = VectorOf(order[k])
  BY <1>2 DEF Vectors
<1>. QED  BY <1>1, <1>2, <1>3

\* The backfill only touches vectors, and gives each row its own.
LEMMA StoredRow ==
  ASSUME TypeOK, Captured, NEW c \in chunks
  PROVE  /\ Stored(c) \in Chunk
         /\ Stored(c).article = c.article
         /\ Stored(c).born = c.born
         /\ Stored(c).index = c.index
         /\ Stored(c).text = c.text
         /\ Stored(c).vector \in {c.vector, VectorOf(Stored(c))}
         /\ IdOf(Stored(c)) = IdOf(c)
         /\ VectorOf(Stored(c)) = VectorOf(c)
<1>. DEFINE pair == CHOOSE p \in computed : p[1] = IdOf(c)
<1>1. c \in Chunk
  BY DEF TypeOK
<1>2. CASE \E p \in computed : p[1] = IdOf(c)
  <2>1. pair \in computed /\ pair[1] = IdOf(c)
    BY <1>2
  <2>2. pair[2] = VectorOf(c) /\ pair[2] \in Texts \X Nat
    <3>1. Remembered(pair[1], pair[2])
      BY <2>1 DEF Captured
    <3>2. pair \in Id \X (Texts \X Nat)
      BY <2>1 DEF TypeOK
    <3>. QED  BY <2>1, <3>1, <3>2 DEF Remembered
  <2>3. Stored(c) = [c EXCEPT !.vector = pair[2]]
    BY <1>2 DEF Stored
  <2>. HIDE DEF pair
  <2>. QED  BY <1>1, <2>2, <2>3 DEF Chunk, IdOf, VectorOf
<1>3. CASE ~\E p \in computed : p[1] = IdOf(c)
  BY <1>1, <1>3 DEF Stored
<1>. QED  BY <1>2, <1>3

------------------------------------------------------------------------------
(* Each kind of step keeps the invariant.                                  *)

\* The first states: no article, no call.
LEMMA InitKeeps ==
  Init => IInv
<1>. SUFFICES ASSUME Init PROVE IInv
  OBVIOUS
<1>1. TypeOK
  BY KnowledgeAssumption DEF KnowledgeAssumption, Init, TypeOK, Patches
<1>2. VectorsOwn /\ RowsAgree(chunks) /\ RowsComplete(chunks) /\ Stocked /\ Given
  BY DEF Init, VectorsOwn, RowsAgree, RowsComplete, Stocked, Given
<1>c. Captured
  BY DEF Init, Captured
<1>3. \A r \in Requests : Loaded(r) /\ Numbered(r) /\ WholeSetsDoomed(r)
  BY DEF Init, Active, Loaded, Numbered, WholeSetsDoomed
<1>. QED  BY <1>1, <1>2, <1>3, <1>c DEF IInv

\* create_article: a new article with a new set of rows.
LEMMA CreateKeeps ==
  ASSUME IInv, NEW a \in Articles, NEW t \in Texts, Create(a, t)
  PROVE  IInv'
<1>. USE DEF IInv
<1>1. PICK embedded \in BOOLEAN :
        chunks' = chunks \cup NewChunks(a, rebuilds + 1, t, embedded)
  BY DEF Create
<1>. DEFINE n == rebuilds + 1
            new == NewChunks(a, n, t, embedded)
<1>2. n \in Nat \ {0} /\ rebuilds \in Nat /\ n = rebuilds + 1
  BY KnowledgeAssumption DEF KnowledgeAssumption, TypeOK
<1>3. /\ new \subseteq Chunk
      /\ \A c \in new : /\ c.article = a /\ c.born = n /\ c.text = t
                        /\ c.vector \in {Null, VectorOf(c)}
      /\ \E c \in new : c.index = 0
  BY <1>2, NewRows, PieceZero
<1>4. chunks' = chunks \cup new
  BY <1>1
<1>5. \A c \in chunks : c.born # n /\ c.born \in Nat /\ c.born <= rebuilds
  BY <1>2 DEF Given, TypeOK, Chunk
<1>6. RowsAgree(chunks') /\ RowsComplete(chunks')
  BY <1>1, <1>2, <1>5, Replacement
<1>. HIDE DEF new, n
<1>7. TypeOK'
  <2>1. chunks' \subseteq Chunk
    BY <1>3, <1>4 DEF TypeOK
  <2>2. rebuilds' \in 0 .. MaxRebuilds
    BY KnowledgeAssumption DEF KnowledgeAssumption, TypeOK, Create
  <2>. QED  BY <2>1, <2>2 DEF TypeOK, Create, call, command
<1>8. VectorsOwn'
  BY <1>3, <1>4 DEF VectorsOwn, VectorOf
<1>9. Stocked'
  <2>. SUFFICES ASSUME NEW b \in Articles
                PROVE  content'[b] # Null <=> \E c \in chunks' : c.article = b
    BY DEF Stocked
  <2>1. CASE b = a
    BY <1>3, <1>4, <2>1, KnowledgeAssumption
    DEF KnowledgeAssumption, Create, TypeOK
  <2>2. CASE b # a
    BY <1>3, <1>4, <2>2 DEF Create, TypeOK, Stocked
  <2>. QED  BY <2>1, <2>2
<1>10. Given'
  <2>1. \A c \in chunks' : c.born <= rebuilds'
    BY <1>2, <1>3, <1>4, <1>5 DEF Create
  <2>2. \A r \in Requests : \A id \in doomed[r] : id[1] <= rebuilds'
    BY <1>2 DEF Given, Create, TypeOK, Id
  <2>. QED  BY <2>1, <2>2 DEF Given, Create, call
<1>c. Captured'
  <2>1. UNCHANGED <<call, listed, computed>> /\ rebuilds' = n
    BY <1>2 DEF Create, command
  <2>2. \A c \in chunks' : c \in chunks \/ c.born > rebuilds
    BY <1>2, <1>3, <1>4
  <2>3. \A r \in Requests : Active(r)' => Active(r) /\ born'[r] = born[r]
    BY <2>1 DEF Active, call
  <2>. QED  BY <1>2, <2>1, <2>2, <2>3, StillCaptured
<1>11. ASSUME NEW r \in Requests
       PROVE  (Loaded(r) /\ Numbered(r) /\ WholeSetsDoomed(r))'
  <2>1. Loaded(r)'
    BY KnowledgeAssumption
    DEF KnowledgeAssumption, Loaded, Active, Create, TypeOK, call
  <2>2. ASSUME Active(r)
        PROVE  born[r] # n /\ born[r] <= rebuilds'
    BY <1>2, <2>2 DEF Numbered, Active, Create, TypeOK
  <2>3. Numbered(r)'
    BY <1>3, <1>4, <2>2 DEF Numbered, Active, Create, call
  <2>4. \A id \in doomed[r] : id[1] # n
    BY <1>2 DEF Given, TypeOK, Id
  <2>5. \A c \in new : IdOf(c) \notin doomed[r]
    BY <1>3, <2>4 DEF IdOf
  <2>6. WholeSetsDoomed(r)'
    BY <1>3, <1>4, <1>5, <2>5 DEF WholeSetsDoomed, Create, call
  <2>. QED  BY <2>1, <2>3, <2>6
<1>. QED  BY <1>6, <1>7, <1>8, <1>9, <1>10, <1>11, <1>c DEF RowsAgree, RowsComplete

\* Steps that leave the tables alone leave what is said of them.
LEMMA TablesKept ==
  ASSUME IInv, UNCHANGED <<content, chunks>>
  PROVE  (VectorsOwn /\ RowsAgree(chunks) /\ RowsComplete(chunks) /\ Stocked)'
BY DEF IInv, VectorsOwn, VectorOf, RowsAgree, RowsComplete, Stocked

\* get_article: the call gets a number nobody has.
LEMMA LoadKeeps ==
  ASSUME IInv, NEW r \in Requests, NEW a \in Articles,
         NEW p \in Patches, Load(r, a, p)
  PROVE  IInv'
<1>. USE DEF IInv
<1>1. (VectorsOwn /\ RowsAgree(chunks) /\ RowsComplete(chunks) /\ Stocked)'
  BY TablesKept DEF Load
<1>2. /\ rebuilds \in Nat /\ rebuilds' = rebuilds + 1
      /\ rebuilds' \in 0 .. MaxRebuilds /\ rebuilds' # 0
  BY KnowledgeAssumption DEF KnowledgeAssumption, TypeOK, Load
<1>3. TypeOK'
  BY <1>2 DEF TypeOK, Load, command
<1>4. \A c \in chunks : c.born \in Nat /\ c.born # rebuilds' /\ c.born <= rebuilds'
  BY <1>2 DEF Given, TypeOK, Chunk
<1>5. \A q \in Requests : \A id \in doomed[q] : id[1] # rebuilds' /\ id[1] <= rebuilds'
  BY <1>2 DEF Given, TypeOK, Id
<1>6. Given'
  BY <1>4, <1>5 DEF Given, Load
<1>c. Captured'
  <2>1. UNCHANGED <<chunks, listed, computed>>
    BY DEF Load, command
  <2>2. \A q \in Requests \ {r} : Active(q)' => Active(q) /\ born'[q] = born[q]
    BY DEF Active, Load, TypeOK
  <2>3. born'[r] > rebuilds
    BY <1>2 DEF Load, TypeOK
  <2>. QED  BY <1>2, <2>1, <2>2, <2>3, StillCaptured
<1>7. ASSUME NEW q \in Requests
      PROVE  (Loaded(q) /\ Numbered(q) /\ WholeSetsDoomed(q))'
  <2>1. Loaded(q)'
    BY DEF Loaded, Active, Load, TypeOK
  <2>2. WholeSetsDoomed(q)'
    BY DEF WholeSetsDoomed, Load, TypeOK
  <2>3. \A w \in Requests : Active(w) => born[w] # rebuilds' /\ born[w] <= rebuilds'
    BY <1>2 DEF Numbered, TypeOK
  <2>4. born'[q] = IF q = r THEN rebuilds' ELSE born[q]
    BY <1>2 DEF Load, TypeOK
  <2>5. \A w \in Requests \ {r} : Active(w)' => Active(w) /\ born'[w] = born[w]
    BY DEF Active, Load, TypeOK
  <2>6. Numbered(q)'
    <3>1. CASE q = r
      BY <1>2, <1>4, <1>5, <2>3, <2>4, <2>5, <3>1 DEF Numbered, Load, TypeOK
    <3>2. CASE q # r
      <4>1. born'[r] = rebuilds'
        BY <2>4, <1>2 DEF Load, TypeOK
      <4>. QED  BY <2>3, <2>5, <3>2, <4>1 DEF Numbered, Load
    <3>. QED  BY <3>1, <3>2
  <2>. QED  BY <2>1, <2>2, <2>6
<1>. QED  BY <1>1, <1>3, <1>6, <1>7, <1>c

\* The SELECT of delete_chunks sees whole sets of rows of the call's article.
LEMMA SelectKeeps ==
  ASSUME IInv, NEW r \in Requests, Select(r)
  PROVE  IInv'
<1>. USE DEF IInv
<1>1. (VectorsOwn /\ RowsAgree(chunks) /\ RowsComplete(chunks) /\ Stocked)'
  BY TablesKept DEF Select
<1>2. doomed' = [doomed EXCEPT ![r] = IdsOf(ChunksOf(article[r]))]
  BY DEF Select
<1>3. \A id \in IdsOf(ChunksOf(article[r])) :
        \E c \in chunks : id = IdOf(c) /\ c.article = article[r]
  BY DEF IdsOf, ChunksOf
<1>4. \A c \in chunks : IdOf(c) \in Id /\ IdOf(c)[1] = c.born
  BY DEF TypeOK, Chunk, IdOf, Id
<1>5. TypeOK'
  <2>1. IdsOf(ChunksOf(article[r])) \subseteq Id
    BY <1>3, <1>4
  <2>. QED  BY <1>2, <2>1 DEF TypeOK, Select, command
<1>6. Given'
  BY <1>2, <1>3, <1>4 DEF Given, Select, TypeOK
<1>c. Captured'
  <2>1. UNCHANGED <<chunks, rebuilds, listed, computed>> /\ rebuilds \in Nat
    BY KnowledgeAssumption DEF Select, command, TypeOK
  <2>2. \A q \in Requests : Active(q)' => Active(q) /\ born'[q] = born[q]
    BY DEF Active, Select, TypeOK
  <2>. QED  BY <2>1, <2>2, StillCaptured
<1>7. ASSUME NEW q \in Requests
      PROVE  (Loaded(q) /\ Numbered(q) /\ WholeSetsDoomed(q))'
  <2>1. Loaded(q)'
    BY DEF Loaded, Active, Select, TypeOK
  <2>2. Numbered(q)'
    <3>1. \A w \in Requests : Active(w)' <=> Active(w)
      BY DEF Active, Select, TypeOK
    <3>2. Active(q) => \A w \in Requests : \A id \in doomed'[w] : id[1] # born[q]
      BY <1>2, <1>3, <1>4 DEF Numbered, TypeOK
    <3>. QED  BY <3>1, <3>2 DEF Numbered, Select
  <2>3. WholeSetsDoomed(q)'
    <3>1. CASE q = r
      <4>1. \A c \in chunks :
              IdOf(c) \in doomed'[r] <=> c.article = article[r]
        <5>1. \A c \in chunks : c.article = article[r] => IdOf(c) \in doomed'[r]
          BY <1>2 DEF TypeOK, IdsOf, ChunksOf
        <5>2. \A c \in chunks : IdOf(c) \in doomed'[r] => c.article = article[r]
          BY <1>2, <1>3, Keys DEF TypeOK, RowsAgree
        <5>. QED  BY <5>1, <5>2
      <4>2. \A c, d \in chunks : c.born = d.born => c.article = d.article
        BY DEF RowsAgree
      <4>3. pc'[r] = "delete"
        BY DEF Select, TypeOK
      <4>. QED  BY <3>1, <4>1, <4>2, <4>3 DEF WholeSetsDoomed, Select, IdOf
    <3>2. CASE q # r
      BY <3>2 DEF WholeSetsDoomed, Select, TypeOK
    <3>. QED  BY <3>1, <3>2
  <2>. QED  BY <2>1, <2>2, <2>3
<1>. QED  BY <1>1, <1>5, <1>6, <1>7, <1>c

\* The flush of delete_chunks changes nothing that others see.
LEMMA DeleteKeeps ==
  ASSUME IInv, NEW r \in Requests, Delete(r)
  PROVE  IInv'
<1>. USE DEF IInv
<1>1. (VectorsOwn /\ RowsAgree(chunks) /\ RowsComplete(chunks) /\ Stocked)'
  BY TablesKept DEF Delete
<1>2. TypeOK' /\ Given'
  BY DEF TypeOK, Given, Delete, command
<1>3. \A q \in Requests : Active(q)' <=> Active(q)
  BY DEF Active, Delete, TypeOK
<1>4. \A q \in Requests : Loaded(q)' /\ Numbered(q)'
  BY <1>3 DEF Loaded, Numbered, Delete
<1>5. \A q \in Requests : WholeSetsDoomed(q)'
  BY DEF WholeSetsDoomed, Delete, TypeOK
<1>c. Captured'
  <2>1. UNCHANGED <<chunks, rebuilds, born, listed, computed>> /\ rebuilds \in Nat
    BY KnowledgeAssumption DEF Delete, command, TypeOK
  <2>. QED  BY <1>3, <2>1, StillCaptured
<1>. QED  BY <1>1, <1>2, <1>4, <1>5, <1>c

\* When a call ends its variables are those of the first state again.
LEMMA Ended ==
  ASSUME TypeOK, NEW r \in Requests, End(r)
  PROVE  /\ (/\ pc \in [Requests -> {"idle", "select", "delete", "insert"}]
             /\ article \in [Requests -> Articles \cup {Null}]
             /\ patch \in [Requests -> Patches]
             /\ loaded \in [Requests -> Texts \cup {Null}]
             /\ born \in [Requests -> 0 .. MaxRebuilds]
             /\ doomed \in [Requests -> SUBSET Id])'
         /\ pc'[r] = "idle" /\ doomed'[r] = {}
         /\ \A q \in Requests \ {r} :
              /\ pc'[q] = pc[q] /\ article'[q] = article[q]
              /\ loaded'[q] = loaded[q] /\ born'[q] = born[q]
              /\ doomed'[q] = doomed[q]
BY KnowledgeAssumption DEF KnowledgeAssumption, TypeOK, Patches, End

\* A call that fails leaves the tables alone.
LEMMA FailKeeps ==
  ASSUME IInv, NEW r \in Requests, Fail(r)
  PROVE  IInv'
<1>. USE DEF IInv
<1>1. (VectorsOwn /\ RowsAgree(chunks) /\ RowsComplete(chunks) /\ Stocked)'
  BY TablesKept DEF Fail
<1>2. End(r) /\ UNCHANGED <<content, chunks, rebuilds, command>>
  BY DEF Fail
<1>3. TypeOK'
  BY <1>2, Ended DEF TypeOK, command
<1>4. Given'
  BY <1>2, Ended DEF Given
<1>c. Captured'
  <2>1. UNCHANGED <<chunks, rebuilds, listed, computed>> /\ rebuilds \in Nat
    BY <1>2, KnowledgeAssumption DEF command, TypeOK
  <2>2. \A q \in Requests : Active(q)' => Active(q) /\ born'[q] = born[q]
    BY <1>2, Ended DEF Active
  <2>. QED  BY <2>1, <2>2, StillCaptured
<1>5. ASSUME NEW q \in Requests
      PROVE  (Loaded(q) /\ Numbered(q) /\ WholeSetsDoomed(q))'
  <2>1. CASE q = r
    BY <1>2, <2>1, Ended DEF Loaded, Numbered, WholeSetsDoomed, Active
  <2>2. CASE q # r
    <3>1. Loaded(q)' /\ WholeSetsDoomed(q)'
      BY <1>2, <2>2, Ended DEF Loaded, WholeSetsDoomed, Active
    <3>2. Numbered(q)'
      BY <1>2, <2>2, Ended DEF Numbered, Active
    <3>. QED  BY <3>1, <3>2
  <2>. QED  BY <2>1, <2>2
<1>. QED  BY <1>1, <1>3, <1>4, <1>5, <1>c

\* The commit: whole sets leave, one new set enters, and the article has it.
LEMMA CommitKeeps ==
  ASSUME IInv, NEW r \in Requests, Commit(r)
  PROVE  IInv'
<1>. USE DEF IInv
<1>. DEFINE a == article[r]
            n == born[r]
            t == Wanted(r)
            kept == {c \in chunks : IdOf(c) \notin doomed[r]}
<1>1. End(r) /\ pc[r] = "insert" /\ Active(r)
  BY DEF Commit, Active
<1>2. /\ a \in Articles /\ content[a] # Null
      /\ n \in Nat \ {0} /\ n <= rebuilds
      /\ t \in Texts
  BY <1>1, WantedText, KnowledgeAssumption
  DEF KnowledgeAssumption, Loaded, Numbered, TypeOK
<1>3. PICK embedded \in BOOLEAN : chunks' = kept \cup NewChunks(a, n, t, embedded)
  BY DEF Commit
<1>. DEFINE new == NewChunks(a, n, t, embedded)
<1>4. /\ new \subseteq Chunk
      /\ \A c \in new : /\ c.article = a /\ c.born = n /\ c.text = t
                        /\ c.vector \in {Null, VectorOf(c)}
      /\ \E c \in new : c.index = 0
  BY <1>2, NewRows, PieceZero
<1>5. \A c, d \in chunks : c.born = d.born => (c \in kept <=> d \in kept)
  BY DEF WholeSetsDoomed
<1>6. \A c \in chunks : c.born # n
  BY <1>1 DEF Numbered
<1>7. kept \in SUBSET chunks
  OBVIOUS
<1>8. RowsAgree(chunks)' /\ RowsComplete(chunks)'
  <2>1. /\ RowsAgree(kept \cup new)
        /\ RowsComplete(kept \cup new)
    <3>. HIDE DEF kept, a, n, t
    <3>. QED  BY <1>2, <1>5, <1>6, <1>7, Replacement
  <2>. QED  BY <1>3, <2>1 DEF RowsAgree, RowsComplete
<1>9. chunks' = kept \cup new
  BY <1>3
<1>10. \A c \in chunks : c.article # a => c \in kept
  BY DEF WholeSetsDoomed
<1>11. content' \in [Articles -> Texts \cup {Null}]
       /\ \A b \in Articles : content'[b] # Null <=> content[b] # Null
  BY <1>1, <1>2, WantedText DEF Commit, TypeOK
<1>. HIDE DEF new, kept
<1>12. TypeOK'
  <2>1. chunks' \subseteq Chunk
    BY <1>4, <1>7, <1>9 DEF TypeOK
  <2>. QED  BY <1>1, <1>11, <2>1, Ended DEF TypeOK, Commit, command
<1>13. VectorsOwn'
  BY <1>4, <1>7, <1>9 DEF VectorsOwn, VectorOf
<1>14. Stocked'
  <2>. SUFFICES ASSUME NEW b \in Articles
                PROVE  content[b] # Null <=> \E c \in chunks' : c.article = b
    BY <1>11 DEF Stocked
  <2>1. CASE b = a
    BY <1>2, <1>4, <1>9, <2>1
  <2>2. CASE b # a
    BY <1>4, <1>7, <1>9, <1>10, <2>2 DEF Stocked
  <2>. QED  BY <2>1, <2>2
<1>15. Given'
  <2>1. rebuilds' = rebuilds
    BY DEF Commit
  <2>2. \A c \in chunks' : c.born <= rebuilds'
    BY <1>2, <1>4, <1>7, <1>9, <2>1 DEF Given
  <2>. QED  BY <1>1, <2>1, <2>2, Ended DEF Given
<1>c. Captured'
  <2>1. UNCHANGED <<rebuilds, listed, computed>> /\ rebuilds \in Nat
    BY KnowledgeAssumption DEF Commit, command, TypeOK
  <2>2. \A c \in chunks' : c \in chunks \/ (Active(r) /\ c.born = born[r])
    BY <1>1, <1>4, <1>7, <1>9
  <2>3. \A q \in Requests : Active(q)' => Active(q) /\ born'[q] = born[q]
    BY <1>1, Ended DEF Active
  <2>. QED  BY <2>1, <2>2, <2>3, StillCaptured
<1>16. ASSUME NEW q \in Requests
       PROVE  (Loaded(q) /\ Numbered(q) /\ WholeSetsDoomed(q))'
  <2>1. CASE q = r
    BY <1>1, <2>1, Ended DEF Loaded, Numbered, WholeSetsDoomed, Active
  <2>2. CASE q # r
    <3>1. Loaded(q)'
      BY <1>1, <1>11, <2>2, Ended DEF Loaded, Active, TypeOK
    <3>2. Active(q) => born[q] # n
      BY <1>1, <2>2 DEF Numbered
    <3>3. Numbered(q)'
      <4>1. ASSUME Active(q)
            PROVE  /\ \A c \in chunks' : c.born # born[q]
                   /\ \A w \in Requests : \A id \in doomed'[w] : id[1] # born[q]
        BY <1>1, <1>4, <1>7, <1>9, <2>2, <3>2, <4>1, Ended DEF Numbered
      <4>2. rebuilds' = rebuilds
        BY DEF Commit
      <4>. QED  BY <1>1, <2>2, <4>1, <4>2, Ended DEF Numbered, Active
    <3>4. \A c \in new : IdOf(c) \notin doomed[q]
      BY <1>1, <1>4 DEF Numbered, IdOf
    <3>5. WholeSetsDoomed(q)'
      <4>1. doomed'[q] = doomed[q] /\ pc'[q] = pc[q] /\ article'[q] = article[q]
        BY <1>1, <2>2, Ended
      <4>2. \A c \in kept, d \in new : c.born # d.born
        BY <1>4, <1>6, <1>7
      <4>. QED  BY <1>7, <1>9, <3>4, <4>1, <4>2 DEF WholeSetsDoomed
    <3>. QED  BY <3>1, <3>3, <3>5
  <2>. QED  BY <2>1, <2>2
<1>. QED  BY <1>8, <1>12, <1>13, <1>14, <1>15, <1>16, <1>c

\* The commit of the backfill: each row of the table stays, with a vector.
LEMMA FinishBackfillKeeps ==
  ASSUME IInv, FinishBackfill
  PROVE  IInv'
<1>. USE DEF IInv
<1>1. UNCHANGED <<content, rebuilds, call, listed>> /\ backfill' = "idle" /\ computed' = {}
  BY DEF FinishBackfill
<1>2. \/ chunks' = chunks
      \/ chunks' = {Stored(c) : c \in chunks}
  BY DEF FinishBackfill
<1>r. rebuilds \in Nat
  BY KnowledgeAssumption DEF TypeOK
<1>3. CASE chunks' = chunks
  <2>1. (VectorsOwn /\ RowsAgree(chunks) /\ RowsComplete(chunks) /\ Stocked)'
    BY <1>1, <1>3, TablesKept
  <2>2. TypeOK' /\ Given'
    BY <1>1, <1>3 DEF TypeOK, Given, call
  <2>c. Captured'
    BY <1>1, <1>3 DEF Captured, Remembered, Active, call, TypeOK
  <2>3. \A q \in Requests : (Loaded(q) /\ Numbered(q) /\ WholeSetsDoomed(q))'
    BY <1>1, <1>3 DEF Loaded, Numbered, WholeSetsDoomed, Active, call
  <2>. QED  BY <2>1, <2>2, <2>3, <2>c
<1>4. CASE chunks' = {Stored(c) : c \in chunks}
  <2>1. /\ chunks \subseteq Chunk
        /\ \A c \in chunks : Stored(c) \in chunks'
        /\ \A d \in chunks' : \E c \in chunks : d = Stored(c)
    BY <1>4 DEF TypeOK
  <2>2. \A c \in chunks :
          /\ Stored(c) \in Chunk
          /\ Stored(c).article = c.article
          /\ Stored(c).born = c.born
          /\ Stored(c).index = c.index
          /\ Stored(c).text = c.text
          /\ Stored(c).vector \in {c.vector, VectorOf(Stored(c))}
          /\ IdOf(Stored(c)) = IdOf(c)
          /\ VectorOf(Stored(c)) = VectorOf(c)
    BY <2>1, StoredRow
  <2>3. TypeOK'
    BY <1>1, <2>1, <2>2 DEF TypeOK, call
  <2>c. Captured'
    <3>1. \A d \in chunks' :
            \E c \in chunks : IdOf(d) = IdOf(c) /\ VectorOf(d) = VectorOf(c)
      BY <2>1, <2>2
    <3>2. ASSUME NEW id, NEW v, Remembered(id, v) PROVE Remembered(id, v)'
      <4>1. \A d \in chunks' : IdOf(d) = id => VectorOf(d) = v
        BY <3>1, <3>2 DEF Remembered
      <4>. QED  BY <1>1, <3>2, <4>1 DEF Remembered, Active, call, IdOf, VectorOf
    <3>3. \A a \in Articles : \A c \in listed[a] : Remembered(IdOf(c), VectorOf(c))'
      BY <3>2 DEF Captured
    <3>. QED  BY <1>1, <3>3 DEF Captured
  <2>4. VectorsOwn'
    <3>1. \A d \in chunks' : d.vector \in {Null, VectorOf(d)}
      BY <2>1, <2>2 DEF VectorsOwn
    <3>. QED  BY <3>1 DEF VectorsOwn, VectorOf
  <2>5. RowsAgree(chunks)'
    BY <2>1, <2>2 DEF RowsAgree
  <2>6. RowsComplete(chunks)'
    <3>1. ASSUME NEW d \in chunks'
          PROVE  /\ d.index \in Indexes(d.text)
                 /\ \A i \in Indexes(d.text) :
                      \E e \in chunks' : e.born = d.born /\ e.index = i
      <4>1. PICK c \in chunks : d = Stored(c)
        BY <2>1, <3>1
      <4>2. d.index = c.index /\ d.text = c.text /\ d.born = c.born
        BY <2>2, <4>1
      <4>3. c.index \in Indexes(c.text)
        BY DEF RowsComplete
      <4>4. ASSUME NEW i \in Indexes(c.text)
            PROVE  \E e \in chunks' : e.born = c.born /\ e.index = i
        <5>1. PICK b \in chunks : b.born = c.born /\ b.index = i
          BY <4>4 DEF RowsComplete
        <5>2. Stored(b) \in chunks' /\ Stored(b).born = b.born
              /\ Stored(b).index = b.index
          BY <2>1, <2>2
        <5>. QED  BY <5>1, <5>2
      <4>. QED  BY <4>2, <4>3, <4>4
    <3>. QED  BY <3>1 DEF RowsComplete, Indexes
  <2>7. Stocked'
    BY <1>1, <2>1, <2>2 DEF Stocked
  <2>8. Given'
    BY <1>1, <2>1, <2>2 DEF Given, call
  <2>9. ASSUME NEW q \in Requests
        PROVE  (Loaded(q) /\ Numbered(q) /\ WholeSetsDoomed(q))'
    <3>1. Loaded(q)'
      BY <1>1 DEF Loaded, Active, call
    <3>2. Numbered(q)'
      BY <1>1, <2>1, <2>2 DEF Numbered, Active, call
    <3>3. WholeSetsDoomed(q)'
      <4>1. /\ \A c \in chunks' : IdOf(c) \in doomed[q] => c.article = article[q]
            /\ \A c, d \in chunks' :
                 c.born = d.born => (IdOf(c) \in doomed[q] <=> IdOf(d) \in doomed[q])
        BY <2>1, <2>2 DEF WholeSetsDoomed
      <4>. QED  BY <1>1, <4>1 DEF WholeSetsDoomed, IdOf, call
    <3>. QED  BY <3>1, <3>2, <3>3
  <2>. QED  BY <2>3, <2>4, <2>5, <2>6, <2>7, <2>8, <2>9, <2>c
<1>. QED  BY <1>2, <1>3, <1>4

\* The backfill loads rows as they are and computes vectors of what it loaded.
LEMMA BackfillCaptures ==
  ASSUME IInv, \/ StartBackfill
               \/ \E a \in Articles : Embed(a)
               \/ FailBackfill
               \/ UNCHANGED vars
  PROVE  /\ Captured'
         /\ listed' \in [Articles -> SUBSET Chunk]
         /\ computed' \subseteq Id \X (Texts \X Nat)
<1>. USE DEF IInv
<1>1. /\ UNCHANGED <<content, chunks, rebuilds, call>>
      /\ listed \in [Articles -> SUBSET Chunk]
      /\ computed \subseteq Id \X (Texts \X Nat)
  BY DEF StartBackfill, Embed, FailBackfill, vars, TypeOK
<1>2. \A c \in Chunk : IdOf(c) \in Id /\ VectorOf(c) \in Texts \X Nat
  BY DEF Chunk, IdOf, VectorOf, Id
<1>3. ASSUME NEW id, NEW v, Remembered(id, v) PROVE Remembered(id, v)'
  BY <1>1, <1>3 DEF Remembered, Active, call, IdOf, VectorOf
<1>4. CASE StartBackfill
  <2>1. listed' = [a \in Articles |-> ChunksOf(a)] /\ computed' = computed
    BY <1>4 DEF StartBackfill
  <2>2. ASSUME NEW c \in chunks PROVE Remembered(IdOf(c), VectorOf(c))
    <3>1. IdOf(c)[1] = c.born
      BY DEF IdOf
    <3>2. \A d \in chunks : IdOf(d) = IdOf(c) => VectorOf(d) = VectorOf(c)
      BY Keys DEF RowsAgree
    <3>. QED  BY <3>1, <3>2 DEF Remembered, Given, Numbered
  <2>3. \A a \in Articles : listed'[a] \subseteq chunks
    BY <2>1 DEF ChunksOf
  <2>4. listed' \in [Articles -> SUBSET Chunk]
    BY <2>1 DEF ChunksOf, TypeOK
  <2>5. \A a \in Articles : \A c \in listed'[a] : Remembered(IdOf(c), VectorOf(c))'
    BY <1>3, <2>2, <2>3
  <2>6. \A p \in computed' : Remembered(p[1], p[2])'
    BY <1>3, <2>1 DEF Captured
  <2>. QED  BY <1>1, <2>1, <2>4, <2>5, <2>6 DEF Captured, IdOf, VectorOf
<1>5. ASSUME NEW a \in Articles, Embed(a)
      PROVE  /\ Captured'
             /\ listed' \in [Articles -> SUBSET Chunk]
             /\ computed' \subseteq Id \X (Texts \X Nat)
  <2>1. listed' = [listed EXCEPT ![a] = {}]
    BY <1>5 DEF Embed
  <2>2. PICK missing \in Orders(Missing(a)) :
          \E few \in DOMAIN missing \cup {0} :
            computed' = computed \cup Zip(missing, Vectors(missing, few))
    BY <1>5 DEF Embed
  <2>z. PICK few \in DOMAIN missing \cup {0} :
          computed' = computed \cup Zip(missing, Vectors(missing, few))
    BY <2>2
  <2>3. \A p \in computed' :
          p \in computed \/ \E c \in listed[a] : p = <<IdOf(c), VectorOf(c)>>
    <3>1. Missing(a) \subseteq listed[a]
      BY DEF Missing
    <3>. QED  BY <2>z, <3>1, ZipPairs
  <2>4. /\ listed' \in [Articles -> SUBSET Chunk]
        /\ \A b \in Articles : listed'[b] \subseteq listed[b]
    BY <1>1, <2>1
  <2>5. listed[a] \subseteq Chunk
    BY <1>1
  <2>6. computed' \subseteq Id \X (Texts \X Nat)
    BY <1>1, <1>2, <2>3, <2>5
  <2>7. \A p \in computed' : Remembered(p[1], p[2])'
    BY <1>3, <2>3 DEF Captured
  <2>8. \A b \in Articles : \A c \in listed'[b] : Remembered(IdOf(c), VectorOf(c))'
    BY <1>3, <2>4 DEF Captured
  <2>. QED  BY <2>4, <2>6, <2>7, <2>8 DEF Captured, IdOf, VectorOf
<1>6. CASE FailBackfill
  BY <1>6 DEF FailBackfill, Captured
<1>7. CASE UNCHANGED vars
  <2>1. UNCHANGED <<listed, computed>>
    BY <1>7 DEF vars, command
  <2>2. \A a \in Articles : \A c \in listed[a] : Remembered(IdOf(c), VectorOf(c))'
    BY <1>3 DEF Captured
  <2>3. \A p \in computed : Remembered(p[1], p[2])'
    BY <1>3 DEF Captured
  <2>. QED  BY <1>1, <2>1, <2>2, <2>3 DEF Captured, IdOf, VectorOf
<1>. QED  BY <1>4, <1>5, <1>6, <1>7

\* The backfill's steps before its commit, and those that change nothing.
LEMMA OthersKeep ==
  ASSUME IInv, \/ StartBackfill
               \/ \E a \in Articles : Embed(a)
               \/ FailBackfill
               \/ UNCHANGED vars
  PROVE  IInv'
<1>. USE DEF IInv
<1>1. UNCHANGED <<content, chunks, rebuilds, call>>
  BY DEF StartBackfill, Embed, FailBackfill, vars
<1>2. (VectorsOwn /\ RowsAgree(chunks) /\ RowsComplete(chunks) /\ Stocked)'
  BY <1>1, TablesKept
<1>3. /\ Captured'
      /\ listed' \in [Articles -> SUBSET Chunk]
      /\ computed' \subseteq Id \X (Texts \X Nat)
  BY BackfillCaptures
<1>4. backfill' \in {"idle", "embed"}
  BY DEF TypeOK, StartBackfill, Embed, FailBackfill, vars, command
<1>5. TypeOK' /\ Given'
  BY <1>1, <1>3, <1>4 DEF TypeOK, Given, call
<1>6. \A q \in Requests : (Loaded(q) /\ Numbered(q) /\ WholeSetsDoomed(q))'
  BY <1>1 DEF Loaded, Numbered, WholeSetsDoomed, Active, call
<1>. QED  BY <1>2, <1>3, <1>5, <1>6

------------------------------------------------------------------------------
(* Theorems.                                                               *)

\* The invariant holds in every state, whatever overlaps.
THEOREM Invariance == Spec => []IInv
<1>1. Init => IInv
  BY InitKeeps
<1>2. IInv /\ [Next]_vars => IInv'
  <2>. SUFFICES ASSUME IInv, [Next]_vars PROVE IInv'
    OBVIOUS
  <2>1. ASSUME NEW a \in Articles, NEW t \in Texts, Create(a, t)  PROVE IInv'
    BY <2>1, CreateKeeps
  <2>2. ASSUME NEW r \in Requests, NEW a \in Articles,
               NEW p \in Patches, Load(r, a, p)
        PROVE  IInv'
    BY <2>2, LoadKeeps
  <2>3. ASSUME NEW r \in Requests, Select(r)  PROVE IInv'
    BY <2>3, SelectKeeps
  <2>4. ASSUME NEW r \in Requests, Delete(r)  PROVE IInv'
    BY <2>4, DeleteKeeps
  <2>5. ASSUME NEW r \in Requests, Commit(r)  PROVE IInv'
    BY <2>5, CommitKeeps
  <2>6. ASSUME NEW r \in Requests, Fail(r)  PROVE IInv'
    BY <2>6, FailKeeps
  <2>7. CASE FinishBackfill
    BY <2>7, FinishBackfillKeeps
  <2>8. CASE \/ StartBackfill
             \/ \E a \in Articles : Embed(a)
             \/ FailBackfill
             \/ UNCHANGED vars
    BY <2>8, OthersKeep
  <2>. QED  BY <2>1, <2>2, <2>3, <2>4, <2>5, <2>6, <2>7, <2>8 DEF Next
<1>. QED  BY <1>1, <1>2, PTL DEF Spec

\* Tables, sessions and the backfill keep their types: no call stores an unset
\* content (knowledge_service.py, update_article).
THEOREM TypeCorrect == Spec => []TypeOK
<1>1. IInv => TypeOK
  BY DEF IInv
<1>. QED  BY <1>1, Invariance, PTL

\* Whatever rebuilds overlap with the backfill, however few vectors it is given and in
\* whatever order rows tie, a vector is that of its row's text, because an id is never
\* given to a second row (knowledge_service.py, _rebuild_chunks and backfill_embeddings).
THEOREM VectorsStayMatched == Spec => []VectorsMatch
<1>1. IInv => VectorsMatch
  BY DEF IInv, VectorsOwn, VectorsMatch, Ranked, Found
<1>. QED  BY <1>1, Invariance, PTL

\* However many rebuilds of an article overlap, each set of chunks that is there
\* is whole and no article is without one (knowledge_service.py, _rebuild_chunks).
THEOREM SetsStayWhole == Spec => []ChunksWhole
<1>1. IInv => ChunksWhole
  BY WholeRows DEF IInv
<1>. QED  BY <1>1, Invariance, PTL

\* A rebuild that nothing overtook leaves the pieces of the article's content and
\* no other row (knowledge_service.py, _rebuild_chunks): only overlap makes stale
\* chunks.
THEOREM FreshRebuilds == Spec => FreshRebuildExact
<1>. DEFINE Exact(r) ==
       /\ pc[r] = "insert"
       /\ chunks' # chunks
       /\ pc'[r] = "idle"
       /\ loaded[r] = content[article[r]]
       /\ doomed[r] = IdsOf(ChunksOf(article[r]))
       => \A c \in chunks' : c.article = article[r] =>
            /\ c.text = content'[article[r]]
            /\ c.born = born[r]
<1>1. ASSUME IInv, [Next]_vars, NEW r \in Requests
      PROVE  Exact(r)
  <2>. SUFFICES ASSUME pc[r] = "insert", chunks' # chunks, pc'[r] = "idle",
                       loaded[r] = content[article[r]],
                       doomed[r] = IdsOf(ChunksOf(article[r])),
                       NEW c \in chunks', c.article = article[r]
                PROVE  c.text = content'[article[r]] /\ c.born = born[r]
    OBVIOUS
  <2>. USE <1>1 DEF IInv
  <2>1. Commit(r)
    <3>1. ASSUME NEW q \in Requests, Commit(q)
          PROVE  Commit(r)
      <4>1. End(q)
        BY <3>1 DEF Commit
      <4>2. q = r
        BY <4>1, Ended
      <4>. QED  BY <3>1, <4>2
    <3>2. ~\E a \in Articles, t \in Texts : Create(a, t)
      BY DEF Create, call
    <3>3. ~(\/ StartBackfill \/ FinishBackfill \/ FailBackfill \/ UNCHANGED vars
            \/ \E a \in Articles : Embed(a))
      BY DEF StartBackfill, Embed, FinishBackfill, FailBackfill, vars, call
    <3>4. \A q \in Requests :
            /\ ~\E a \in Articles, p \in Patches : Load(q, a, p)
            /\ ~Select(q) /\ ~Delete(q) /\ ~Fail(q)
      BY DEF Load, Select, Delete, Fail
    <3>. QED  BY <3>1, <3>2, <3>3, <3>4 DEF Next
  <2>2. /\ article[r] \in Articles /\ born[r] \in Nat \ {0}
        /\ Wanted(r) \in Texts
    BY <2>1, WantedText, KnowledgeAssumption
    DEF KnowledgeAssumption, Loaded, Numbered, Active, TypeOK
  <2>3. PICK embedded \in BOOLEAN :
          chunks' = {d \in chunks : IdOf(d) \notin doomed[r]}
                      \cup NewChunks(article[r], born[r], Wanted(r), embedded)
    BY <2>1 DEF Commit
  <2>4. \A d \in chunks : d.article = article[r] => IdOf(d) \in doomed[r]
    BY DEF IdsOf, ChunksOf
  <2>5. c \in NewChunks(article[r], born[r], Wanted(r), embedded)
    BY <2>3, <2>4
  <2>6. c.text = Wanted(r) /\ c.born = born[r]
    BY <2>2, <2>5, NewRows
  <2>7. content'[article[r]] = Wanted(r)
    BY <2>1, <2>2 DEF Commit, Updates, Wanted, TypeOK
  <2>. QED  BY <2>6, <2>7
<1>2. IInv /\ [Next]_vars => [\A r \in Requests : Exact(r)]_vars
  BY <1>1
<1>. QED  BY <1>2, Invariance, PTL DEF Spec, FreshRebuildExact

=============================================================================
