----------------------------- MODULE LexicalIndex -----------------------------
(***************************************************************************)
(* The BM25 index (search/bm25_index.py): four parallel structures in      *)
(* memory, three files that are written one after the other, and the       *)
(* tokenizer, which a document and a query have to share.                  *)
(*                                                                         *)
(* An identifier is a sequence of words (getUserName has three), a text a  *)
(* set of identifiers: how often one occurs is left out.  What score the   *)
(* library (BM25Okapi) gives is a parameter: it depends on all documents,  *)
(* may be negative, and is 0 for one that shares no token with the query.  *)
(* A document always has a token, since its path is part of it, so that    *)
(* what the code does for lack of tokens is left out.                      *)
(***************************************************************************)
EXTENDS Integers, Sequences, FiniteSets, SequencesExt, SequencePlaces

CONSTANTS
  ChunksOf,       \* the chunks of each file, in their order
  NamesOf,        \* the identifiers in the path and the symbol of each chunk
  Contents,       \* the texts that each file may have
  StopWords, Stem,
  Variants,       \* tokenizers that the configuration may ask for
  Queries,
  Sizes,          \* how many hits a search may ask for
  MinScore,       \* ... and the score they need
  Score(_, _, _), \* of all documents' tokens, the place of one, and those of a query
  MaxFaults       \* bound of the exploration

VARIABLES
  tokenizer,      \* that of the running process, from its configuration
  mem,            \* the index in memory
  disk,           \* bm25.index, bm25_docs.json and bm25_metadata.json
  at,             \* file that save() writes next; "down" after a crash, "stuck" after a
                  \* start that failed
  torn,           \* what the files do not agree about after an interrupted save: "nothing",
                  \* "metadata" alone or "all"
  mixed,          \* ... and what the structures in memory, loaded from them, do not
  faults

vars == <<tokenizer, mem, disk, at, torn, mixed, faults>>

-----------------------------------------------------------------------------
(* Tokens (TextPreprocessor) and the documents made of a chunk.             *)

Words(text) == UNION {ToSet(i) : i \in text}
Parts(text) == {<<w>> : w \in Words(text)}

\* augment_bm25_document: path and symbol, whole and in parts.
Augmented(chunk, content) == content \cup NamesOf[chunk] \cup Parts(NamesOf[chunk])

\* preprocess_code splits identifiers; the stop words go before the rest is stemmed.
Legacy(text) == {<<Stem[w]>> : w \in Words(text) \ StopWords}

\* _tokenize_identifiers: whole, and in "additive" also in parts; never stemmed.
Identifiers(text, additive) ==
  (text \cup (IF additive THEN Parts(text) ELSE {})) \ {<<w>> : w \in StopWords}

Process(variant, text) ==
  IF variant = "legacy" THEN Legacy(text) ELSE Identifiers(text, variant = "additive")

-----------------------------------------------------------------------------
NoIndex == <<>>
Fresh == [okapi |-> NoIndex, docs |-> <<>>, ids |-> <<>>, tokens |-> <<>>, meta |-> <<>>]
NoFile == [is |-> "none"]
Half == [is |-> "half"]
Whole(what) == [is |-> "whole", what |-> what]
NoFiles == [index |-> NoFile, docs |-> NoFile, meta |-> NoFile]

Up == at \notin {"down", "stuck"}
Idle == at = "idle"

\* To build the index anew puts all right but the metadata of what was there.
Rebuilt == IF mixed = "nothing" THEN "nothing" ELSE "metadata"

Init ==
  /\ tokenizer \in Variants
  /\ mem = Fresh /\ disk = NoFiles /\ at = "idle"
  /\ torn = "nothing" /\ mixed = "nothing" /\ faults = 0

\* index_documents: everything is appended and the index built anew of all tokens.
Extended(m, chunks, content) ==
  LET docs   == [i \in DOMAIN chunks |-> Augmented(chunks[i], content)]
      tokens == m.tokens \o [i \in DOMAIN chunks |-> Process(tokenizer, docs[i])]
  IN [okapi |-> tokens, docs |-> m.docs \o docs, ids |-> m.ids \o chunks, tokens |-> tokens,
      meta |-> [c \in DOMAIN m.meta \cup ToSet(chunks) |->
                  IF c \in ToSet(chunks) THEN content ELSE m.meta[c]]]

\* The chunks of a file are added once those it had are removed.
IndexDocuments(file, content) ==
  /\ Idle
  /\ ToSet(ChunksOf[file]) \cap ToSet(mem.ids) = {}
  /\ mem' = Extended(mem, ChunksOf[file], content)
  /\ mixed' = Rebuilt
  /\ UNCHANGED <<tokenizer, disk, at, torn, faults>>

Without_KeepsTokens(m, chunks) ==
  LET left == {i \in DOMAIN m.ids : m.ids[i] \notin chunks}
  IN [okapi |-> IF left = {} THEN NoIndex ELSE m.tokens,
      docs |-> Selected(m.docs, left), ids |-> Selected(m.ids, left),
      tokens |-> m.tokens, meta |-> [c \in DOMAIN m.meta \ chunks |-> m.meta[c]]]

\* What remove_files leaves.
Without(m, chunks) ==
  LET left == {i \in DOMAIN m.ids : m.ids[i] \notin chunks}
      tokens == Selected(m.tokens, left)
  IN [okapi |-> IF left = {} THEN NoIndex ELSE tokens, docs |-> Selected(m.docs, left),
      ids |-> Selected(m.ids, left), tokens |-> tokens,
      meta |-> [c \in DOMAIN m.meta \ chunks |-> m.meta[c]]]

\* Nothing is built anew if the files have no document.
RemoveFiles(files) ==
  LET chunks == UNION {ToSet(ChunksOf[f]) : f \in files}
  IN /\ Idle
     /\ chunks \cap ToSet(mem.ids) # {}
     /\ mem' = Without(mem, chunks)
     /\ mixed' = Rebuilt
     /\ UNCHANGED <<tokenizer, disk, at, torn, faults>>

Clear ==
  /\ Idle
  /\ mem' = Fresh /\ disk' = NoFiles /\ torn' = "nothing" /\ mixed' = "nothing"
  /\ UNCHANGED <<tokenizer, at, faults>>

-----------------------------------------------------------------------------
(* save(): an index without documents leaves the old file of the index.     *)

NextOf == [index |-> "docs", docs |-> "meta", meta |-> "idle"]
Written(file) ==
  CASE file = "index" -> IF mem.okapi = NoIndex THEN disk.index ELSE Whole(mem.okapi)
    [] file = "docs" -> Whole([documents |-> mem.docs, doc_ids |-> mem.ids, tokenized_docs |-> mem.tokens])
    [] file = "meta" -> Whole([tokenizer |-> tokenizer, doc_metadata |-> mem.meta])

BeginSave ==
  /\ Idle
  /\ at' = "index"
  /\ UNCHANGED <<tokenizer, mem, disk, torn, mixed, faults>>

WriteFile ==
  /\ at \in DOMAIN NextOf
  /\ disk' = [disk EXCEPT ![at] = Written(at)]
  /\ torn' = IF at = "meta" THEN mixed ELSE "all"
  /\ at' = NextOf[at]
  /\ UNCHANGED <<tokenizer, mem, mixed, faults>>

\* The disk is full: save() raises, and the index in memory goes on.
SaveFails ==
  /\ at \in DOMAIN NextOf /\ faults < MaxFaults
  /\ disk' = [disk EXCEPT ![at] = Half]
  /\ torn' = "all" /\ at' = "idle" /\ faults' = faults + 1
  /\ UNCHANGED <<tokenizer, mem, mixed>>

\* The process ends between two files or in the middle of one.
Crash ==
  /\ Up
  /\ \/ disk' = disk /\ torn' = torn
     \/ at \in DOMAIN NextOf /\ disk' = [disk EXCEPT ![at] = Half] /\ torn' = "all"
  /\ at' = "down" /\ mem' = Fresh /\ mixed' = "nothing"
  /\ faults < MaxFaults /\ faults' = faults + 1
  /\ UNCHANGED tokenizer

\* A process that ends with nothing left to save, to be started again.
Stop ==
  /\ Idle
  /\ at' = "down" /\ mem' = Fresh /\ mixed' = "nothing"
  /\ UNCHANGED <<tokenizer, disk, torn, faults>>

\* load(), by the constructor of HybridSearcher: with all three files there, what they say,
\* of whatever tokenizer; without one nothing; and nothing if one with JSON is damaged.
Loaded ==
  IF \E f \in DOMAIN disk : disk[f].is # "whole" THEN Fresh
  ELSE [okapi |-> disk.index.what, docs |-> disk.docs.what.documents, ids |-> disk.docs.what.doc_ids,
        tokens |-> disk.docs.what.tokenized_docs, meta |-> disk.meta.what.doc_metadata]

\* A damaged index file is not among the errors that load() catches.
Unreadable == disk.index.is = "half" /\ "none" \notin {disk.docs.is, disk.meta.is}

Load(variant) ==
  /\ at = "down"
  /\ tokenizer' = variant
  /\ IF Unreadable THEN at' = "stuck" /\ UNCHANGED <<mem, mixed>>
     ELSE at' = "idle" /\ mem' = Loaded /\ mixed' = torn
  /\ UNCHANGED <<disk, torn, faults>>

\* ... so that no searcher can be made until the user has the files deleted.
Deleted ==
  /\ at = "stuck"
  /\ disk' = NoFiles /\ torn' = "nothing" /\ at' = "down"
  /\ UNCHANGED <<tokenizer, mem, mixed, faults>>

-----------------------------------------------------------------------------
(* search(): the best k places of the index, but for those whose score is too    *)
(* low.  Of equal ones argsort() may prefer any.                                *)

Scored(corpus, i, tokens) == IF corpus[i] \cap tokens = {} THEN 0 ELSE Score(corpus, i, tokens)

Best_First(k, tokens) ==
  {top \in SUBSET DOMAIN mem.okapi :
     /\ \/ Cardinality(top) = k
        \/ Len(mem.okapi) < k /\ top = DOMAIN mem.okapi
     /\ \A i \in top, j \in DOMAIN mem.okapi \ top :
          Scored(mem.okapi, i, tokens) <= Scored(mem.okapi, j, tokens)}

\* What argsort()[-k:] may leave.
Best(k, tokens) ==
  {top \in SUBSET DOMAIN mem.okapi :
     /\ \/ Cardinality(top) = k
        \/ Len(mem.okapi) < k /\ top = DOMAIN mem.okapi
     /\ \A i \in top, j \in DOMAIN mem.okapi \ top :
          Scored(mem.okapi, i, tokens) >= Scored(mem.okapi, j, tokens)}

Search(query, k) ==
  LET tokens == Process(tokenizer, query)
  IN IF mem.docs = <<>> \/ tokens = {} THEN {{}}
     ELSE {{i \in top : Scored(mem.okapi, i, tokens) >= MinScore} : top \in Best(k, tokens)}

Next ==
  \/ \E f \in DOMAIN ChunksOf : \E c \in Contents[f] : IndexDocuments(f, c)
  \/ \E fs \in SUBSET DOMAIN ChunksOf : RemoveFiles(fs)
  \/ Clear \/ BeginSave \/ WriteFile \/ SaveFails \/ Crash \/ Stop
  \/ \E v \in Variants : Load(v)
  \/ Deleted

Spec == Init /\ [][Next]_vars

-----------------------------------------------------------------------------
\* A search finds the documents that have what it asks for.  Unless the process has loaded the
\* files of an interrupted save and changed nothing since, every hit is at the place of a
\* document of the index, whose metadata is that of its chunk, and has a word of the query; a
\* document with the minimal score is a hit, or there are k that score no less; and the tokens
\* that are scored are those of the documents: one made with today's tokenizer shares a token
\* with each query for an identifier of it, that of its file's name and each part of it
\* included, other than the stop words (for the legacy tokenizer, those made of stop words
\* alone).  All this whatever was added, removed, saved, lost and loaded before
\* (bm25_index.py:256-268, 350-460, 462-506, 620-811 and 833-919).
HasWord(i, word) == word \in {Stem[w] : w \in Words(mem.docs[i])} \cup Words(mem.docs[i])

Stopped(identifier) ==
  IF tokenizer = "legacy" THEN ToSet(identifier) \subseteq StopWords
  ELSE \E w \in StopWords : identifier = <<w>>

SoundHits(query, k, hits) ==
  LET Relevance(i) == Scored(mem.tokens, i, Process(tokenizer, query))
  IN /\ hits \subseteq DOMAIN mem.ids
     /\ \A i \in hits :
          /\ mixed = "nothing" => mem.docs[i] = Augmented(mem.ids[i], mem.meta[mem.ids[i]])
          /\ \E w \in Words(query) : HasWord(i, w) \/ HasWord(i, Stem[w])
     /\ \A i \in DOMAIN mem.ids \ hits :
          \/ Relevance(i) < MinScore
          \/ /\ Cardinality(hits) = k
             /\ \A j \in hits : Relevance(j) >= Relevance(i)

SharesTokens(query, i) ==
  LET names == mem.docs[i] \cup Parts(NamesOf[mem.ids[i]])
  IN (/\ mem.tokens[i] = Process(tokenizer, mem.docs[i])
      /\ \E n \in query \cap names : ~Stopped(n))
     => mem.tokens[i] \cap Process(tokenizer, query) # {}

HitsAreTheDocuments ==
  Up /\ mixed # "all" =>
    \A query \in Queries :
      /\ \A k \in Sizes : \A hits \in Search(query, k) : SoundHits(query, k, hits)
      /\ \A i \in DOMAIN mem.ids : SharesTokens(query, i)

-----------------------------------------------------------------------------
(* The invariant of the proof (Services_proofs).                             *)

Indexed == UNION {ToSet(ChunksOf[f]) : f \in DOMAIN ChunksOf}
Documents == {Augmented(c, t) : c \in Indexed, t \in UNION {Contents[f] : f \in DOMAIN ChunksOf}}
Tokens == {Process(v, d) : v \in Variants, d \in Documents}

\* Chunks, documents and tokens are in parallel: a document is of its chunk, its tokens are
\* what one of the tokenizers made of it.
Parallel(ids, docs, tokens) ==
  /\ ids \in Seq(Indexed) /\ docs \in Seq(Documents) /\ tokens \in Seq(Tokens)
  /\ Len(docs) = Len(ids) /\ Len(tokens) = Len(ids)
  /\ \A i \in DOMAIN ids : /\ Parts(NamesOf[ids[i]]) \subseteq docs[i]
                           /\ \E v \in Variants : tokens[i] = Process(v, docs[i])

\* How far the index and the metadata agree with them.
Agreed(apart, ids, docs, tokens, okapi, meta) ==
  /\ apart # "all" => docs = <<>> \/ okapi = tokens
  /\ apart = "nothing" => \A i \in DOMAIN ids :
       ids[i] \in DOMAIN meta /\ docs[i] = Augmented(ids[i], meta[ids[i]])

TypeOK ==
  /\ tokenizer \in Variants /\ {torn, mixed} \subseteq {"nothing", "metadata", "all"}
  /\ at \in {"idle", "index", "docs", "meta", "down", "stuck"}
  /\ mem = [okapi |-> mem.okapi, docs |-> mem.docs, ids |-> mem.ids, tokens |-> mem.tokens,
            meta |-> mem.meta]
  /\ disk = [index |-> disk.index, docs |-> disk.docs, meta |-> disk.meta]

InMemory ==
  /\ Parallel(mem.ids, mem.docs, mem.tokens)
  /\ Agreed(mixed, mem.ids, mem.docs, mem.tokens, mem.okapi, mem.meta)

OnDisk ==
  LET d == disk.docs.what
  IN disk.docs.is = "whole" =>
       /\ Parallel(d.doc_ids, d.documents, d.tokenized_docs)
       /\ disk.index.is = "whole" /\ disk.meta.is = "whole" =>
            Agreed(torn, d.doc_ids, d.documents, d.tokenized_docs, disk.index.what,
                   disk.meta.what.doc_metadata)

\* What a save has written so far is what there is in memory.
Saving ==
  /\ at \in {"docs", "meta"} => mem.okapi = NoIndex \/ disk.index = Whole(mem.okapi)
  /\ at = "meta" => disk.docs = Written("docs")

IInv == TypeOK /\ InMemory /\ OnDisk /\ Saving
=============================================================================
