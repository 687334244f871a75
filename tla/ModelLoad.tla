----------------------------- MODULE ModelLoad -----------------------------
(***************************************************************************)
(* Loading the embedding model: ModelLoader.load                           *)
(* (embeddings/model_loader.py) over the two places where files of a model *)
(* may be, the server's own cache directory and the default one of         *)
(* HuggingFace, which ModelCacheManager (embeddings/model_cache.py)        *)
(* inspects.  A place is what its latest snapshot holds.                   *)
(***************************************************************************)
EXTENDS Integers, FiniteSets

VARIABLES
  custom, default, \* the two places
  trust,           \* trust_remote_code: such a model may use both places
  online,          \* the hub answers and has the model
  deletable,       \* files of the cache can be removed
  atFirst,         \* the places as the load found them
  pc, valid, source

vars == <<custom, default, trust, online, deletable, atFirst, pc, valid, source>>

\* single: model.safetensors; bin: pytorch_model.bin; index: a list of shards, all
\* of them there, some missing, or some only in part (an interrupted download).
Places == [config : {"none", "bad", "ok"}, single : BOOLEAN, bin : BOOLEAN,
           index : {"none", "whole", "holes", "partial"}, tokenizer : BOOLEAN]
Empty == [config |-> "none", single |-> FALSE, bin |-> FALSE, index |-> "none",
          tokenizer |-> FALSE]
Downloaded == [config |-> "ok", single |-> TRUE, bin |-> FALSE, index |-> "none",
               tokenizer |-> TRUE]

Init ==
  /\ custom \in Places /\ default \in Places
  /\ trust \in BOOLEAN /\ online \in BOOLEAN /\ deletable \in BOOLEAN
  /\ atFirst = [custom |-> custom, default |-> default]
  /\ pc = "validate" /\ valid = FALSE /\ source = "none"

-----------------------------------------------------------------------------
(* ModelCacheManager.                                                      *)

\* check_cache_at_location: config, weights (every shard of an index), tokenizer.
Complete(p) ==
  /\ p.config = "ok"
  /\ p.index = "whole" \/ (p.index = "none" /\ (p.single \/ p.bin))
  /\ p.tokenizer

\* The reason it gives first is a shard whose download was interrupted.
Interrupted(p) == p.config = "ok" /\ p.index = "partial"

\* check_config_at_location looks for the file, not into it.
HasConfig(p) == p.config # "none"

HasWeights(p) == p.single \/ p.bin \/ p.index # "none"

SplitWith(c) == trust /\ HasConfig(c) /\ HasWeights(default)

Split == SplitWith(custom)

\* validate_cache, with c in the custom place.
Valid_CustomOnly(c) == Complete(c) \/ SplitWith(c)

Valid(c) == Complete(c) \/ SplitWith(c) \/ (trust /\ Complete(default))

\* ensure_split_cache_symlink: only model.safetensors is linked.
Linked == IF Split /\ ~custom.single /\ default.single
          THEN [custom EXCEPT !.single = TRUE] ELSE custom

\* find_local_model_dir.
LocalDir_DefaultIgnored ==
  IF Split \/ Complete(custom) THEN "custom" ELSE "none"

LocalDir ==
  IF Split THEN "custom"
  ELSE IF Complete(custom) THEN "custom"
  ELSE IF trust /\ Complete(default) THEN "default"
  ELSE "none"

\* cleanup_incomplete_downloads removes the beginning of a shard, not the gap.
Cleaned == IF deletable THEN [custom EXCEPT !.index = "holes"] ELSE custom

-----------------------------------------------------------------------------
(* ModelLoader.load.                                                       *)

Validate ==
  /\ pc = "validate"
  /\ valid' = Valid(custom)
  /\ pc' = IF Valid(custom) THEN "locate"
           ELSE IF custom = Empty THEN "hub"
           ELSE IF Interrupted(custom) THEN "cleanup" ELSE "delete"
  /\ UNCHANGED <<custom, default, trust, online, deletable, atFirst, source>>

\* Incomplete downloads are removed and the cache is validated again.
CleanUpDownloads ==
  /\ pc = "cleanup"
  /\ custom' = Cleaned
  /\ valid' = (Cleaned # custom /\ Valid(Cleaned))
  /\ pc' = IF valid' THEN "locate" ELSE "delete"
  /\ UNCHANGED <<default, trust, online, deletable, atFirst, source>>

DeleteCache ==
  /\ pc = "delete"
  /\ IF deletable THEN custom' = Empty /\ pc' = "hub" ELSE UNCHANGED custom /\ pc' = "failed"
  /\ UNCHANGED <<default, trust, online, deletable, atFirst, valid, source>>

AskHub ==
  /\ pc = "hub"
  /\ pc' = IF online THEN "construct" ELSE "failed"
  /\ UNCHANGED <<custom, default, trust, online, deletable, atFirst, valid, source>>

Locate ==
  /\ pc = "locate"
  /\ source' = LocalDir
  /\ custom' = Linked
  /\ pc' = "construct"
  /\ UNCHANGED <<default, trust, online, deletable, atFirst, valid>>

\* What the library can load from a place.
Loadable(p) == p.config = "ok" /\ p.tokenizer /\ (p.single \/ p.index = "whole" \/ p.bin)

\* local_files_only is asked for exactly when the cache was found valid; a load by
\* name from the hub fills the custom place.
Construct ==
  /\ pc = "construct"
  /\ \/ /\ source # "none"
        /\ pc' = IF Loadable(IF source = "custom" THEN custom ELSE default) THEN "loaded" ELSE "fallback"
        /\ UNCHANGED custom
     \/ /\ source = "none" /\ valid
        /\ pc' = IF Loadable(custom) THEN "loaded" ELSE "failed"
        /\ UNCHANGED custom
     \/ /\ source = "none" /\ ~valid
        /\ custom' = Downloaded /\ pc' = "loaded"
  /\ UNCHANGED <<default, trust, online, deletable, atFirst, valid, source>>

\* A local directory that does not load after all is fetched again by name.
Fallback ==
  /\ pc = "fallback"
  /\ IF online THEN custom' = Downloaded /\ pc' = "loaded" ELSE UNCHANGED custom /\ pc' = "failed"
  /\ UNCHANGED <<default, trust, online, deletable, atFirst, valid, source>>

Next == Validate \/ CleanUpDownloads \/ DeleteCache \/ AskHub \/ Locate \/ Construct \/ Fallback

Spec == Init /\ [][Next]_vars

-----------------------------------------------------------------------------
\* A load fails only if it must: with the hub at hand, only where a damaged cache
\* cannot be removed; without, only if the custom place was not complete, nor the
\* default one of a model that may use it and has no config of its own in the custom
\* place (model_loader.py:327-619, model_cache.py:573-665).
LoadsIfItCan ==
  pc = "failed" =>
    IF online THEN ~deletable
    ELSE /\ ~Complete(atFirst.custom)
         /\ trust /\ ~HasConfig(atFirst.custom) => ~Complete(atFirst.default)

-----------------------------------------------------------------------------
(* The invariant of the proof (Services_proofs).                            *)

TypeOK ==
  /\ custom \in Places /\ default \in Places
  /\ trust \in BOOLEAN /\ online \in BOOLEAN /\ deletable \in BOOLEAN
  /\ atFirst \in [custom : Places, default : Places]
  /\ pc \in {"validate", "cleanup", "delete", "hub", "locate", "construct", "fallback", "loaded", "failed"}
  /\ valid \in BOOLEAN
  /\ source \in {"none", "custom", "default"}

\* Until a place is chosen, none was found that is any good; removing the beginning of a
\* shard does not make one.
NothingValid ==
  /\ pc \in {"cleanup", "delete", "hub"} => ~Valid(atFirst.custom) /\ ~valid
  /\ pc \in {"validate", "cleanup", "locate"} => custom = atFirst.custom
  /\ pc = "cleanup" => Interrupted(custom)
  /\ pc = "locate" => Valid(custom)

\* A place that was complete is still, and another one is chosen only beside it.
ChosenIsGood ==
  /\ pc = "construct" =>
       \/ source = "none" /\ ~valid
       \/ source = "default" /\ Complete(default)
       \/ /\ source = "custom" /\ (Complete(atFirst.custom) => Complete(custom))
          /\ Complete(custom) \/ HasConfig(atFirst.custom)
  /\ pc = "fallback" => ~Complete(atFirst.custom) /\ HasConfig(atFirst.custom)

IInv ==
  /\ TypeOK
  /\ default = atFirst.default
  /\ pc \in {"validate", "cleanup", "delete", "hub", "locate"} => source = "none"
  /\ NothingValid
  /\ ChosenIsGood
  /\ LoadsIfItCan
===============================================================================
