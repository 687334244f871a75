-------------------------- MODULE QueryEmbedding --------------------------
(***************************************************************************)
(* Searches that embed their queries through one embedder and its cache:   *)
(* CodeEmbedder.embed_query and embed_queries_batch, the lazy loading of   *)
(* the model, cleanup() (embeddings/embedder.py) and QueryEmbeddingCache   *)
(* (embeddings/query_cache.py).  Worker threads take the cache's lock and  *)
(* the embedder's lifecycle lock one at a time and neither for a whole     *)
(* call, so a call is four steps that those of others come between.        *)
(***************************************************************************)
EXTENDS Integers, Sequences, FiniteSets, SequencePlaces

CONSTANTS
  Threads, Queries,
  Requests,   \* the lists of queries that are asked for together
  MaxSize     \* query_cache_size

VARIABLES
  cache,  \* entries from the least to the most recently used
  model,  \* "none", "loaded" or "gone" (cleaned up)
  call    \* per thread: its queries, what is known of them, where it is

vars == <<cache, model, call>>

Unknown == <<>>
Vec(q) == <<q>>
Resting == [pc |-> "rest", asked |-> <<>>, got |-> <<>>, raw |-> <<>>]
Keys == {cache[i].query : i \in DOMAIN cache}

Init ==
  /\ cache = <<>>
  /\ model = "none"
  /\ call = [t \in Threads |-> Resting]

\* The places the cache has left open, and the queries that are embedded for them.
Open(c) == {i \in DOMAIN c.asked : c.got[i] = Unknown}
Missing(c) == Selected([i \in DOMAIN c.asked |-> i], Open(c))
Uncached(c) == [j \in DOMAIN Missing(c) |-> c.asked[Missing(c)[j]]]

\* The entries but that of a query.
Others(entries, q) == Selected(entries, {i \in DOMAIN entries : entries[i].query # q})

\* QueryEmbeddingCache.get: an entry that is too old is removed, a hit becomes the
\* most recently used.
Get(entries, q) ==
  LET here == {i \in DOMAIN entries : entries[i].query = q}
      entry == entries[CHOOSE i \in here : TRUE]
  IN IF here = {} THEN [entries |-> entries, vec |-> Unknown]
     ELSE IF entry.old THEN [entries |-> Others(entries, q), vec |-> Unknown]
     ELSE [entries |-> Append(Others(entries, q), entry), vec |-> entry.vec]

Put_OffByOne(entries, q, vec) ==
  LET rest == Others(entries, q)
      kept == IF Len(rest) <= MaxSize THEN rest
              ELSE SubSeq(rest, Len(rest) - MaxSize + 2, Len(rest))
  IN IF MaxSize = 0 THEN entries
     ELSE Append(kept, [query |-> q, vec |-> vec, old |-> FALSE])

\* QueryEmbeddingCache.put: the oldest entries make place for the new one.
Put(entries, q, vec) ==
  LET rest == Others(entries, q)
      kept == IF Len(rest) < MaxSize THEN rest
              ELSE SubSeq(rest, Len(rest) - MaxSize + 2, Len(rest))
  IN IF MaxSize = 0 THEN entries
     ELSE Append(kept, [query |-> q, vec |-> vec, old |-> FALSE])

-----------------------------------------------------------------------------
Ask(t, asked) ==
  /\ call[t].pc = "rest"
  /\ call' = [call EXCEPT ![t] = [pc |-> "lookup", asked |-> asked, got |-> <<>>, raw |-> <<>>]]
  /\ UNCHANGED <<cache, model>>

\* One query after another is looked up, each under the cache's lock.
LookUp(t) ==
  /\ call[t].pc = "lookup"
  /\ LET c == call[t]
         found == Get(cache, c.asked[Len(c.got) + 1])
         got == Append(c.got, found.vec)
         done == Len(got) = Len(c.asked)
     IN /\ cache' = found.entries
        /\ call' = [call EXCEPT ![t].got = got,
                                ![t].pc = IF ~done THEN "lookup"
                                          ELSE IF \E i \in DOMAIN got : got[i] = Unknown
                                          THEN "encode" ELSE "answered"]
  /\ UNCHANGED model

\* One forward pass for all that is missing, under the lifecycle lock, which loads
\* the model on first use and refuses once the embedder was cleaned up.
Encode(t) ==
  /\ call[t].pc = "encode"
  /\ IF model = "gone"
     THEN call' = [call EXCEPT ![t] = Resting] /\ UNCHANGED model
     ELSE /\ model' = "loaded"
          /\ call' = [call EXCEPT ![t].pc = "store",
                        ![t].raw = [j \in DOMAIN Uncached(call[t]) |-> Vec(Uncached(call[t])[j])]]
  /\ UNCHANGED cache

Store_LocalIndex(t) ==
  /\ call[t].pc = "store"
  /\ LET c == call[t]
         i == Missing(c)[1]
         vec == c.raw[IF i <= Len(c.raw) THEN i ELSE 1]
     IN /\ cache' = Put(cache, c.asked[i], vec)
        /\ call' = [call EXCEPT ![t].got[i] = vec,
                                ![t].pc = IF Len(Missing(c)) = 1 THEN "answered" ELSE "store"]
  /\ UNCHANGED model

\* One vector after another goes into the cache and to the place of its query.
Store(t) ==
  /\ call[t].pc = "store"
  /\ LET c == call[t]
         i == Missing(c)[1]
         vec == c.raw[Len(c.raw) - Len(Missing(c)) + 1]
     IN /\ cache' = Put(cache, c.asked[i], vec)
        /\ call' = [call EXCEPT ![t].got[i] = vec,
                                ![t].pc = IF Len(Missing(c)) = 1 THEN "answered" ELSE "store"]
  /\ UNCHANGED model

Return(t) ==
  /\ call[t].pc = "answered"
  /\ call' = [call EXCEPT ![t] = Resting]
  /\ UNCHANGED <<cache, model>>

\* ttl_seconds pass for an entry.
AgesOut ==
  /\ \E i \in DOMAIN cache : ~cache[i].old /\ cache' = [cache EXCEPT ![i].old = TRUE]
  /\ UNCHANGED <<model, call>>

\* cleanup(): an embedder whose model was never loaded keeps its loader.
Cleanup ==
  /\ model = "loaded"
  /\ model' = "gone"
  /\ cache' = <<>>
  /\ UNCHANGED call

\* The pool makes another embedder once nobody holds the old one.
FreshEmbedder ==
  /\ model = "gone" /\ \A t \in Threads : call[t].pc = "rest"
  /\ model' = "none"
  /\ cache' = <<>>
  /\ UNCHANGED call

Next ==
  \/ \E t \in Threads :
       \/ \E asked \in Requests : Ask(t, asked)
       \/ LookUp(t) \/ Encode(t) \/ Store(t) \/ Return(t)
  \/ AgesOut \/ Cleanup \/ FreshEmbedder

Spec == Init /\ [][Next]_vars

-----------------------------------------------------------------------------
\* Every query is answered with its own embedding at its own place, whichever of
\* its neighbours were in the cache, while other threads use and clear the same
\* cache; and the cache holds one entry for a query and no more than its size
\* (embedder.py:1677-1742, query_cache.py:90-195).
QueriesAnswered ==
  /\ \A t \in Threads : call[t].pc = "answered" =>
       call[t].got = [i \in DOMAIN call[t].asked |-> Vec(call[t].asked[i])]
  /\ Len(cache) <= MaxSize
  /\ Cardinality(Keys) = Len(cache)

-----------------------------------------------------------------------------
(* The invariant of the proof (Services_proofs).                           *)

\* An entry is that of its query, which has no other.
CacheSound(entries) ==
  /\ entries \in Seq([query : Queries, vec : Seq(Queries), old : BOOLEAN])
  /\ \A i \in DOMAIN entries : entries[i].vec = Vec(entries[i].query)
  /\ \A i, j \in DOMAIN entries : entries[i].query = entries[j].query => i = j
  /\ Len(entries) <= MaxSize

\* What is known at a place is of its query; the last of the vectors are those of the
\* places that are still open, in their order.
CallSound(c) ==
  /\ c \in [pc : {"rest", "lookup", "encode", "store", "answered"},
            asked : Seq(Queries), got : Seq(Seq(Queries)), raw : Seq(Seq(Queries))]
  /\ \A i \in DOMAIN c.got : c.got[i] \in {Unknown, Vec(c.asked[i])}
  /\ c.pc = "lookup" => Len(c.got) < Len(c.asked)
  /\ c.pc \in {"encode", "store", "answered"} => Len(c.got) = Len(c.asked)
  /\ c.pc = "answered" => Open(c) = {}
  /\ c.pc \in {"encode", "store"} => Open(c) # {}
  /\ c.pc = "store" =>
       /\ Len(Missing(c)) <= Len(c.raw)
       /\ \A j \in DOMAIN Missing(c) :
            c.raw[Len(c.raw) - Len(Missing(c)) + j] = Vec(c.asked[Missing(c)[j]])

IInv == CacheSound(cache) /\ call = [t \in Threads |-> call[t]] /\ \A t \in Threads : CallSound(call[t])
=============================================================================
