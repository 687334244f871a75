-------------------------- MODULE ChunkEmbedding --------------------------
(***************************************************************************)
(* Indexing runs that embed chunks through the persistent cache of chunk   *)
(* embeddings: CodeEmbedder.embed_chunks (embeddings/embedder.py) and      *)
(* ChunkEmbeddingCache (embeddings/chunk_cache.py).                        *)
(*                                                                         *)
(* A file holds one chunk.  What is embedded is not the chunk's text alone *)
(* but the text with the imports of its file, which the embedder remembers *)
(* by modification time, so that an edit of the imports gives an unchanged *)
(* chunk another embedding.  A vector is what was embedded and the         *)
(* numerics (device, precision, backend) of the model that embedded it.    *)
(***************************************************************************)
EXTENDS Integers, Sequences, FiniteSets, SequencesExt, SequencePlaces

CONSTANTS
  Files,        \* files of the project
  Numerics,     \* device/dtype/backend descriptions a configuration can ask for
  BatchSizes,   \* what the sizing of batches can come to
  MaxEntries,   \* chunk_cache_max_entries, 0 for an automatic cap
  MinEntries,   \* _AUTO_MIN_ENTRIES
  ByteLimit,    \* entries that fit in _AUTO_MAX_BYTES
  LiveReconfig, \* the configured precision may change while a model is loaded
  MaxEdits, MaxFaults  \* bounds on the environment

VARIABLES
  file,     \* per file: mtime, imports and text of its chunk
  wanted,   \* the numerics the configuration asks for
  model,    \* "none", "gone" (cleaned up) or the numerics the model was loaded with
  sources,  \* _class_file_cache: imports by file and mtime
  imports,  \* _import_ctx_cache: the context made of them
  disk,     \* chunk_embeddings.bin
  run,      \* where embed_chunks is, and its locals
  edits, faults

vars == <<file, wanted, model, sources, imports, disk, run, edits, faults>>

Halves == {0, 1}
Content(f, text, head) == <<f, text, head>>
Vec(content, numerics) == <<content, numerics>>
Unread == [mtime |-> -1, head |-> 0]
Idle == [pc |-> "idle", full |-> FALSE, num |-> "none", on |-> FALSE, entries |-> <<>>,
         chunks |-> <<>>, want |-> <<>>, contents |-> <<>>, out |-> <<>>,
         pending |-> <<>>, order |-> <<>>, results |-> <<>>, size |-> 1]
Nothing == <<"nothing">>
KeysOf(entries) == {entries[i].key : i \in DOMAIN entries}
LiveKeys == {run.contents[i] : i \in DOMAIN run.contents}

Init ==
  /\ file = [f \in Files |-> [mtime |-> 0, head |-> 0, text |-> 0]]
  /\ wanted \in Numerics
  /\ model = "none"
  /\ sources = [f \in Files |-> Unread]
  /\ imports = [f \in Files |-> Unread]
  /\ disk = [ok |-> FALSE, num |-> "none", entries |-> <<>>]
  /\ run = Idle
  /\ edits = 0 /\ faults = 0

-----------------------------------------------------------------------------
(* The cache: entries from the least to the most recently used.            *)

\* Entries that are read or put go to the end, one after the other.  No key comes
\* twice: a file has one chunk.
Touched(entries, items) ==
  Selected(entries, {i \in DOMAIN entries : entries[i].key \notin KeysOf(items)}) \o items

Cached(entries, key) == CHOOSE e \in ToSet(entries) : e.key = key

\* load(): another provenance, or a damaged file, starts an empty cache.
LoadedEntries(num) == IF disk.ok /\ disk.num = num THEN disk.entries ELSE <<>>

Cap_AnyRun(live, full) == Max({MinEntries, 2 * Cardinality(live)})

\* _evict: the cap of a partial run is the byte ceiling alone.
Cap(live, full) ==
  LET bytes == Max({ByteLimit, Cardinality(live)})
      auto  == Max({MinEntries, 2 * Cardinality(live)})
  IN IF MaxEntries > 0 THEN MaxEntries ELSE IF full THEN Min({auto, bytes}) ELSE bytes

\* The oldest entries that are not live go until the cap is met.
Evict(entries, live, full) ==
  LET excess == Len(entries) - Cap(live, full)
      Rank(i) == Cardinality({j \in 1..i : entries[j].key \notin live})
  IN Selected(entries, {i \in DOMAIN entries : entries[i].key \in live \/ Rank(i) > excess})

-----------------------------------------------------------------------------
(* What is embedded.                                                       *)

\* _read_source_cached: the file is read again when its mtime has changed.
Source(f) == IF sources[f].mtime = file[f].mtime THEN sources[f]
             ELSE [mtime |-> file[f].mtime, head |-> file[f].head]

ImportContext_NeverInvalidated(f) == IF imports[f].mtime # -1 THEN imports[f] ELSE Source(f)

\* _extract_import_context: made again when the mtime has changed.
ImportContext(f) == IF imports[f].mtime = Source(f).mtime THEN imports[f] ELSE Source(f)

\* create_embedding_content of the chunk of a file as it was chunked.
Assemble(f, text) == Content(f, text, ImportContext(f).head)

\* describe_numerics: what the configuration asks for, without loading anything.
Provenance == IF model = "gone" THEN "unavailable" ELSE wanted

-----------------------------------------------------------------------------
(* embed_chunks.                                                           *)

\* A run over all files, or over a part of them (an incremental update).
Begin(files) ==
  /\ run.pc \in {"idle", "returned"}
  /\ LET fs == SetToSeq(files)
         texts == [i \in DOMAIN fs |-> file[fs[i]].text]
     IN run' = [Idle EXCEPT !.pc = "partition", !.full = (files = Files),
           !.num = Provenance, !.on = TRUE, !.entries = LoadedEntries(Provenance),
           !.chunks = fs,
           !.contents = [i \in DOMAIN fs |-> Assemble(fs[i], texts[i])],
           !.want = [i \in DOMAIN fs |-> Content(fs[i], texts[i], file[fs[i]].head)]]
  /\ sources' = [f \in Files |-> IF f \in files THEN Source(f) ELSE sources[f]]
  /\ imports' = [f \in Files |-> IF f \in files THEN ImportContext(f) ELSE imports[f]]
  /\ UNCHANGED <<file, wanted, model, disk, edits, faults>>

\* Hits are answered from the cache; all hits return without a model.
Partition ==
  /\ run.pc = "partition"
  /\ LET places == DOMAIN run.contents
         hits == {i \in places : run.contents[i] \in KeysOf(run.entries)}
         missed == Selected([i \in places |-> i], places \ hits)
         found == [i \in places |-> IF i \in hits THEN Cached(run.entries, run.contents[i]) ELSE Nothing]
     IN run' = [run EXCEPT !.pc = IF missed = <<>> THEN "returned" ELSE "prepare",
                  !.entries = Touched(@, Selected(found, hits)), !.pending = missed,
                  !.out = [i \in places |-> IF i \in hits THEN found[i].vec ELSE Nothing]]
  /\ UNCHANGED <<file, wanted, model, sources, imports, disk, edits, faults>>

\* A failure to read the cache turns it off for the rest of the call.
CacheReadFails ==
  /\ run.pc = "partition" /\ faults < MaxFaults
  /\ run' = [run EXCEPT !.pc = "prepare", !.on = FALSE,
               !.pending = [i \in DOMAIN run.contents |-> i],
               !.out = [i \in DOMAIN run.contents |-> Nothing]]
  /\ faults' = faults + 1
  /\ UNCHANGED <<file, wanted, model, sources, imports, disk, edits>>

\* The model is loaded, or was; an embedder that was cleaned up refuses.
LoadModel == IF model = "none" THEN wanted ELSE model

Fails == run' = Idle

\* The pending chunks are sorted by length: any order, as lengths go.
Prepare ==
  /\ run.pc = "prepare"
  /\ IF model = "gone"
     THEN Fails /\ UNCHANGED model
     ELSE /\ model' = LoadModel
          /\ \E size \in BatchSizes, order \in SetToSeqs(DOMAIN run.pending) :
               run' = [run EXCEPT !.pc = "batch", !.size = size, !.order = order]
  /\ UNCHANGED <<file, wanted, sources, imports, disk, edits, faults>>

Batch == LET i == Len(run.results) IN
  SubSeq(run.order, i + 1, Min({i + run.size, Len(run.order)}))

EncodeBatch ==
  /\ run.pc = "batch" /\ Len(run.results) < Len(run.order)
  /\ IF model = "gone"
     THEN Fails
     ELSE run' = [run EXCEPT !.results = @ \o [j \in DOMAIN Batch |->
                    Vec(run.contents[run.pending[Batch[j]]], model)]]
  /\ UNCHANGED <<file, wanted, model, sources, imports, disk, edits, faults>>

OutOfMemory_StartsOver ==
  /\ run.pc = "batch" /\ Len(run.results) < Len(run.order) /\ model # "gone"
  /\ run' = IF run.size > 1 THEN [run EXCEPT !.size = @ \div 2] ELSE [run EXCEPT !.results = <<>>]
  /\ UNCHANGED <<file, wanted, model, sources, imports, disk, edits, faults>>

\* Out of memory: the batch is halved and tried again, unless it is one chunk.
OutOfMemory ==
  /\ run.pc = "batch" /\ Len(run.results) < Len(run.order) /\ model # "gone"
  /\ IF run.size > 1 THEN run' = [run EXCEPT !.size = @ \div 2] ELSE Fails
  /\ UNCHANGED <<file, wanted, model, sources, imports, disk, edits, faults>>

\* VRAM above 95 %, or any other error of the model.
BatchFails ==
  /\ run.pc = "batch" /\ Len(run.results) < Len(run.order) /\ faults < MaxFaults
  /\ Fails
  /\ faults' = faults + 1
  /\ UNCHANGED <<file, wanted, model, sources, imports, disk, edits>>

Unpermuted_Skipped == [p \in DOMAIN run.pending |-> run.results[p]]

\* Results come in the order of the batches; they go back to the order of the
\* pending chunks, and these to their places in the input.
Unpermuted == [p \in DOMAIN run.pending |->
  run.results[CHOOSE s \in DOMAIN run.order : run.order[s] = p]]

Scattered == [i \in DOMAIN run.out |->
  IF \E p \in DOMAIN run.pending : run.pending[p] = i
  THEN Unpermuted[CHOOSE p \in DOMAIN run.pending : run.pending[p] = i]
  ELSE run.out[i]]

Written == Touched(run.entries, [p \in DOMAIN run.pending |->
             [key |-> run.contents[run.pending[p]], vec |-> Unpermuted[p]]])

Finish ==
  /\ run.pc = "batch" /\ Len(run.results) = Len(run.order)
  /\ run' = [run EXCEPT !.pc = IF run.on THEN "save" ELSE "returned", !.out = Scattered,
               !.entries = IF run.on THEN Evict(Written, LiveKeys, run.full) ELSE @]
  /\ UNCHANGED <<file, wanted, model, sources, imports, disk, edits, faults>>

\* The file is replaced as a whole.
Save ==
  /\ run.pc = "save"
  /\ disk' = [ok |-> TRUE, num |-> run.num, entries |-> run.entries]
  /\ run' = [run EXCEPT !.pc = "returned"]
  /\ UNCHANGED <<file, wanted, model, sources, imports, edits, faults>>

SaveFails ==
  /\ run.pc = "save" /\ faults < MaxFaults
  /\ run' = [run EXCEPT !.pc = "returned"]
  /\ faults' = faults + 1
  /\ UNCHANGED <<file, wanted, model, sources, imports, disk, edits>>

-----------------------------------------------------------------------------
(* Around it.                                                              *)

Edit(f) ==
  /\ edits < MaxEdits
  /\ \E head \in Halves, text \in Halves :
       /\ <<head, text>> # <<file[f].head, file[f].text>>
       /\ file' = [file EXCEPT ![f] = [mtime |-> @.mtime + 1, head |-> head, text |-> text]]
  /\ edits' = edits + 1
  /\ UNCHANGED <<wanted, model, sources, imports, disk, run, faults>>

\* The configuration is read anew whenever it is asked for.
Reconfigure ==
  /\ edits < MaxEdits
  /\ LiveReconfig \/ (model \in {"none", "gone"} /\ run.pc \in {"idle", "returned"})
  /\ \E num \in Numerics \ {wanted} : wanted' = num
  /\ edits' = edits + 1
  /\ UNCHANGED <<file, model, sources, imports, disk, run, faults>>

\* cleanup(): does nothing to an embedder whose model was never loaded.
Cleanup ==
  /\ model \in Numerics
  /\ model' = "gone"
  /\ UNCHANGED <<file, wanted, sources, imports, disk, run, edits, faults>>

\* The pool makes another embedder.
FreshEmbedder ==
  /\ model = "gone" /\ run.pc \in {"idle", "returned"}
  /\ model' = "none"
  /\ sources' = [f \in Files |-> Unread]
  /\ imports' = [f \in Files |-> Unread]
  /\ run' = Idle
  /\ UNCHANGED <<file, wanted, disk, edits, faults>>

Crash ==
  /\ faults < MaxFaults /\ run.pc # "idle"
  /\ model' = "none"
  /\ sources' = [f \in Files |-> Unread]
  /\ imports' = [f \in Files |-> Unread]
  /\ run' = Idle
  /\ faults' = faults + 1
  /\ UNCHANGED <<file, wanted, disk, edits>>

Next ==
  \/ \E files \in SUBSET Files \ {{}} : Begin(files)
  \/ Partition \/ Prepare \/ EncodeBatch \/ Finish \/ Save
  \/ CacheReadFails \/ OutOfMemory \/ BatchFails \/ SaveFails
  \/ \E f \in Files : Edit(f)
  \/ Reconfigure \/ Cleanup \/ FreshEmbedder \/ Crash

Spec == Init /\ [][Next]_vars

-----------------------------------------------------------------------------
(* Properties.                                                             *)

\* Every vector that embed_chunks returns is the one its own chunk would be
\* given now: by the model in the precision that is configured, for the text with
\* the imports the file had when it was read, at the place of the chunk in the
\* input, whether it came from the cache or from whichever batch (embedder.py:1526-1566);
\* and the cache on disk holds nothing but what a model of its provenance computes.
VectorsAreTheChunks ==
  /\ run.pc = "returned" =>
       run.out = [i \in DOMAIN run.want |-> Vec(run.want[i], run.num)]
  /\ \A i \in DOMAIN disk.entries : disk.entries[i].vec = Vec(disk.entries[i].key, disk.num)

\* Saving the cache drops nothing the run has used, and a run over a part of the
\* project drops nothing at all while the file is within its byte ceiling
\* (chunk_cache.py:267-304).
SaveKeeps ==
  disk' # disk =>
    /\ LiveKeys \subseteq KeysOf(disk'.entries)
    /\ (MaxEntries = 0 /\ ~run.full /\ disk.num = run.num) =>
         \/ KeysOf(disk.entries) \subseteq KeysOf(disk'.entries)
         \/ Len(disk'.entries) >= ByteLimit

\* The batches end, however often memory runs out: every attempt either embeds
\* more chunks or is smaller than the last one, and the smallest is given up
\* (embedder.py:1441-1495).
BatchesProgress ==
  run.pc = "batch" /\ run'.pc = "batch" =>
    \/ Len(run'.results) > Len(run.results)
    \/ run'.results = run.results /\ run'.size < run.size
    \/ run' = run

-----------------------------------------------------------------------------
(* The invariant of the proofs (Services_proofs).                          *)

Keys == Files \X Halves \X Halves
Vecs == Keys \X (Numerics \cup {"none"})
Entry == [key : Keys, vec : Vecs]
Imports == [mtime : Int, head : Halves]
Provenances == Numerics \cup {"none", "unavailable"}
Run == [pc : {"idle", "partition", "prepare", "batch", "save", "returned"},
        full : BOOLEAN, num : Provenances, on : BOOLEAN, entries : Seq(Entry),
        chunks : Seq(Files), want : Seq(Keys), contents : Seq(Keys),
        out : Seq(Vecs \cup {Nothing}), pending : Seq(Nat), order : Seq(Nat),
        results : Seq(Vecs), size : Nat \ {0}]

TypeOK ==
  /\ file \in [Files -> [mtime : Nat, head : Halves, text : Halves]]
  /\ wanted \in Numerics
  /\ model \in Numerics \cup {"none", "gone"}
  /\ sources \in [Files -> Imports] /\ imports \in [Files -> Imports]
  /\ disk \in [ok : BOOLEAN, num : Provenances, entries : Seq(Entry)]
  /\ run \in Run

\* Imports that are remembered of a file as it is are those it has.
Remembered(cache) ==
  \A f \in Files :
    /\ cache[f].mtime <= file[f].mtime
    /\ cache[f].mtime = file[f].mtime => cache[f].head = file[f].head

Injective(s) == \A i, j \in DOMAIN s : s[i] = s[j] => i = j
Pending == {run.pending[p] : p \in DOMAIN run.pending}

\* Contents are as wanted, each once, and some of them pending in an order of their own.
RunShape ==
  /\ run.contents = run.want /\ Injective(run.contents)
  /\ run.pc \in {"prepare", "batch"} =>
       /\ Len(run.out) = Len(run.contents)
       /\ Pending \subseteq DOMAIN run.contents /\ Injective(run.pending)
  /\ run.pc \in {"partition", "prepare"} => run.results = <<>>
  /\ run.pc = "batch" =>
       /\ Len(run.order) = Len(run.pending) /\ Injective(run.order)
       /\ {run.order[s] : s \in DOMAIN run.order} = DOMAIN run.pending
       /\ Len(run.results) <= Len(run.order)

\* Until they are written, no entry that was loaded goes; then, none that the run used.
EntriesStay ==
  /\ disk.ok \/ disk.entries = <<>>
  /\ run.pc \in {"partition", "prepare", "batch"} /\ disk.num = run.num =>
       KeysOf(disk.entries) \subseteq KeysOf(run.entries)
  /\ run.pc \in {"prepare", "batch"} /\ run.on =>
       \A i \in DOMAIN run.contents : i \in Pending \/ run.contents[i] \in KeysOf(run.entries)
  /\ run.pc = "save" =>
       /\ LiveKeys \subseteq KeysOf(run.entries)
       /\ MaxEntries = 0 /\ ~run.full /\ disk.num = run.num =>
            \/ KeysOf(disk.entries) \subseteq KeysOf(run.entries)
            \/ Len(run.entries) >= ByteLimit

IInv == TypeOK /\ Remembered(sources) /\ Remembered(imports) /\ RunShape /\ EntriesStay

\* A loaded model is the one that is wanted, and a run is for it.
ModelAsWanted ==
  /\ model \in Numerics => model = wanted
  /\ run.pc \in {"partition", "prepare", "batch"} =>
       run.num = wanted \/ (run.num = "unavailable" /\ model = "gone")
  /\ run.pc = "batch" => model # "none"

SoundEntries(entries, num) == \A i \in DOMAIN entries : entries[i].vec = Vec(entries[i].key, num)

\* Vectors that the run has, wherever they are, are those of its contents.
VectorsSoFar ==
  /\ SoundEntries(disk.entries, disk.num) /\ SoundEntries(run.entries, run.num)
  /\ run.pc \in {"prepare", "batch"} =>
       \A i \in DOMAIN run.contents : i \in Pending \/ run.out[i] = Vec(run.contents[i], run.num)
  /\ run.pc = "batch" =>
       \A s \in DOMAIN run.results :
         run.results[s] = Vec(run.contents[run.pending[run.order[s]]], run.num)
  /\ run.pc \in {"save", "returned"} =>
       run.out = [i \in DOMAIN run.contents |-> Vec(run.contents[i], run.num)]
=============================================================================
