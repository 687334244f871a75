-------------------------- MODULE Configuration_proofs --------------------------
(***************************************************************************)
(* For any number of threads that read the configuration, any fields,      *)
(* layers and requests, the cached configuration is what the files say     *)
(* (CacheIsTrue), and a project's overrides get into the global file at no *)
(* other time than while a thread reloads (GlobalStaysGlobal).             *)
(*                                                                         *)
(* CacheIsTrue is not inductive: it says nothing of the moment between a   *)
(* handler's write and its look at the file's time, nor of what a thread   *)
(* has read and not yet published.  The strengthening says that what is    *)
(* kept under a version of a file that is still current was read from that *)
(* version (ReadIsCurrent), that a field a higher layer sets still has     *)
(* that layer's value unless a request set it (LayersHold), that what was  *)
(* just written is what is cached (WrittenIsCached), and that what is      *)
(* known of the overrides is true but while one thread, which has the      *)
(* lock, reads them again (ReloadsInTurn, OverridesAreKnown).              *)
(***************************************************************************)
EXTENDS Configuration, TLAPS

Fieldset == ToSet(Fields)
Old(key) == key \in Nat \X Nat /\ key[1] <= global.version /\ key[2] <= overrides.version
Cached == DOMAIN cache = {"key", "config"} /\ Old(cache.key)

FilesTyped ==
  /\ writes \in Nat
  /\ DOMAIN global = {"version", "content"} /\ DOMAIN overrides = {"version", "content"}
  /\ global.version \in Nat /\ global.version <= writes
  /\ overrides.version \in Nat /\ overrides.version <= writes

CacheTyped ==
  /\ cache = NoCache \/ Cached
  /\ Cached => Fieldset \subseteq DOMAIN cache.config

LoadsTyped ==
  /\ DOMAIN at = Threads
  /\ \A t \in Threads :
       \/ at[t] = [pc |-> "idle"]
       \/ DOMAIN at[t] = {"pc", "key"} /\ at[t].pc = "check" /\ Old(at[t].key)
       \/ DOMAIN at[t] = {"pc", "key", "global"} /\ at[t].pc = "merge" /\ Old(at[t].key)
       \/ /\ DOMAIN at[t] = {"pc", "key", "global", "overrides"}
          /\ at[t].pc = "publish" /\ Old(at[t].key)
  /\ at["handler"].pc # "idle" => task.pc = "load"

\* What the handler is at, and the object it goes on with.
TaskTyped ==
  \/ task = [pc |-> "idle"]
  \/ DOMAIN task = {"pc", "asks"} /\ task.pc = "load"
  \/ /\ DOMAIN task = {"pc", "asks", "object", "project", "shared"}
     /\ task.pc \in {"patch", "save"} /\ task.shared \in BOOLEAN
     /\ Fieldset \subseteq DOMAIN task.object
     /\ Cached
     /\ task.shared => task.object = cache.config
  \/ task = [pc |-> "stat"] /\ Cached

ReadIsCurrent ==
  \A t \in Threads :
    /\ at[t].pc \in Reloading /\ at[t].key[1] = global.version => at[t].global = global.content
    /\ at[t].pc = "publish" /\ at[t].key[2] = overrides.version => at[t].overrides = overrides.content

\* One thread at a time reloads; what is known of the overrides is what it has read.
ReloadsInTurn ==
  /\ \A t, u \in Threads : at[t].pc \in Reloading /\ at[u].pc \in Reloading => t = u
  /\ \A t \in Threads : /\ at[t].pc = "merge" => overridden = <<>>
                        /\ at[t].pc = "publish" => overridden = at[t].overrides

Known == overridden = overrides.content \/ \E t \in Threads : at[t].pc = "merge"

OverridesAreKnown ==
  /\ Cached /\ cache.key[2] = overrides.version => Known
  /\ task.pc \in {"patch", "save"} =>
       /\ task.project \in Nat /\ task.project <= overrides.version
       /\ task.project = overrides.version => Known

LayersHold ==
  Cached /\ ~missed /\ cache.key[2] = overrides.version =>
    \A f \in (Layered \cap Fieldset) \ touched :
      cache.config[f] = Over(Environment, overrides.content)[f]

IsWhatTheFilesSay ==
  \A f \in Fieldset \ touched :
    cache.config[f] = Effective(global.content, overrides.content)[f]

WrittenIsCached ==
  task.pc = "stat" /\ ~missed /\ cache.key[2] = overrides.version => IsWhatTheFilesSay

IInv ==
  /\ missed \in BOOLEAN
  /\ FilesTyped /\ CacheTyped /\ LoadsTyped /\ TaskTyped
  /\ ReadIsCurrent /\ ReloadsInTurn /\ OverridesAreKnown /\ LayersHold
  /\ WrittenIsCached /\ CacheIsTrue

-----------------------------------------------------------------------------
(* The layers of a configuration.                                          *)

LEMMA OverFields ==
  ASSUME NEW upper, NEW lower
  PROVE  /\ DOMAIN Over(upper, lower) = DOMAIN upper \cup DOMAIN lower
         /\ \A f \in DOMAIN upper : Over(upper, lower)[f] = upper[f]
         /\ \A f \in DOMAIN lower : f \notin DOMAIN upper => Over(upper, lower)[f] = lower[f]
  BY DEF Over

LEMMA KeepFields ==
  ASSUME NEW content, NEW fields
  PROVE  /\ DOMAIN Keep(content, fields) = DOMAIN content \cap fields
         /\ \A f \in DOMAIN content \cap fields : Keep(content, fields)[f] = content[f]
  BY DEF Keep

\* What a field has is what the topmost layer that sets it says.
LEMMA EffectiveFields ==
  ASSUME NEW g, NEW o
  PROVE  /\ Fieldset \subseteq DOMAIN Effective(g, o)
         /\ \A f \in Fieldset : Effective(g, o)[f] =
              IF f \in DOMAIN Environment THEN Environment[f]
              ELSE IF f \in DOMAIN o THEN o[f]
              ELSE IF f \in DOMAIN g THEN g[f] ELSE Default
<1> DEFINE d == [f \in Fieldset |-> Default]
<1>1. DOMAIN d = Fieldset /\ \A f \in Fieldset : d[f] = Default
  OBVIOUS
<1>2. Effective(g, o) = Over(Environment, Over(o, Over(g, d)))
  BY DEF Effective, Fieldset
<1> HIDE DEF d
<1>3. /\ DOMAIN Over(g, d) = DOMAIN g \cup Fieldset
      /\ \A f \in Fieldset : Over(g, d)[f] = IF f \in DOMAIN g THEN g[f] ELSE Default
  BY <1>1 DEF Over
<1>4. /\ DOMAIN Over(o, Over(g, d)) = DOMAIN o \cup DOMAIN Over(g, d)
      /\ \A f \in Fieldset : Over(o, Over(g, d))[f] = IF f \in DOMAIN o THEN o[f] ELSE Over(g, d)[f]
  BY <1>3 DEF Over
<1>5. /\ DOMAIN Effective(g, o) = DOMAIN Environment \cup DOMAIN Over(o, Over(g, d))
      /\ \A f \in Fieldset : Effective(g, o)[f] =
           IF f \in DOMAIN Environment THEN Environment[f] ELSE Over(o, Over(g, d))[f]
  BY <1>2, <1>3, <1>4 DEF Over
<1> QED
  BY <1>3, <1>4, <1>5

-----------------------------------------------------------------------------
LEMMA InitInductive == Init => IInv
<1> SUFFICES ASSUME Init PROVE IInv
  OBVIOUS
<1> USE DEF Init
<1>1. FilesTyped
  BY DEF FilesTyped
<1>2. ~Cached
  <2>1. DOMAIN cache = {"key"}
    BY DEF NoCache
  <2> QED
    BY <2>1 DEF Cached
<1>3. "handler" \in Threads
  BY DEF Threads
<1>4. LoadsTyped
  BY <1>3 DEF LoadsTyped
<1>5. ReadIsCurrent /\ ReloadsInTurn
  BY DEF ReadIsCurrent, ReloadsInTurn, Reloading
<1>6. CacheIsTrue
  <2>1. cache.key # Now
    <3>1. cache.key = <<>>
      BY DEF NoCache
    <3> QED
      BY <3>1 DEF Now
  <2> QED
    BY <2>1 DEF CacheIsTrue
<1> QED
  BY <1>1, <1>2, <1>4, <1>5, <1>6 DEF IInv, CacheTyped, TaskTyped, OverridesAreKnown,
     LayersHold, WrittenIsCached

\* A key is not the key of a file that was written later.
LEMMA GlobalEdited ==
  ASSUME FilesTyped, writes' = writes + 1, overrides' = overrides,
         NEW c, global' = [version |-> writes + 1, content |-> c]
  PROVE  /\ FilesTyped'
         /\ \A key : Old(key) => Old(key)' /\ key[1] # global'.version
  BY DEF FilesTyped, Old

LEMMA OverridesEdited ==
  ASSUME FilesTyped, writes' = writes + 1, global' = global,
         NEW c, overrides' = [version |-> writes + 1, content |-> c]
  PROVE  /\ FilesTyped'
         /\ \A key : Old(key) => Old(key)' /\ key[2] # overrides'.version
  BY DEF FilesTyped, Old

\* What is cached has a key, and nothing cached has none.
LEMMA CachedOrNot ==
  ASSUME CacheTyped
  PROVE  /\ Cached <=> cache # NoCache
         /\ ~Cached => cache.key = <<>>
         /\ \A a, b : <<a, b>> # <<>>
  BY DEF CacheTyped, Cached, NoCache

\* Where nobody reloads or edits the overrides, they are as known as they were.
LEMMA UntilRead ==
  ASSUME ReloadsInTurn, OverridesAreKnown, UNCHANGED <<at, overrides, overridden>>,
         Cached' /\ cache'.key[2] = overrides.version => Cached /\ cache.key[2] = overrides.version,
         task'.pc \in {"patch", "save"} => task.pc \in {"patch", "save"} /\ task'.project = task.project
  PROVE  ReloadsInTurn' /\ OverridesAreKnown'
<1>1. ReloadsInTurn'
  BY DEF ReloadsInTurn, Threads
<1>2. Known' <=> Known
  BY DEF Known, Threads
<1>3. OverridesAreKnown'
  BY <1>2 DEF OverridesAreKnown
<1> QED
  BY <1>1, <1>3

-----------------------------------------------------------------------------
LEMMA EditGlobalInductive ==
  ASSUME IInv, NEW c \in Contents, EditGlobal(c)
  PROVE  IInv'
<1> USE DEF EditGlobal
<1>1. /\ FilesTyped'
      /\ \A key : Old(key) => Old(key)' /\ key[1] # global'.version
  BY GlobalEdited DEF IInv
<1>2. Cached => Cached'
  BY <1>1 DEF Cached
<1>3. Cached' => cache # NoCache
  <2>1. DOMAIN NoCache = {"key"} /\ {"key", "config"} # {"key"}
    BY DEF NoCache
  <2> QED
    BY <2>1 DEF Cached
<1>4. Cached' => Cached
  BY <1>3 DEF IInv, CacheTyped
<1>5. CacheTyped'
  BY <1>2, <1>4 DEF IInv, CacheTyped, NoCache
<1>6. LoadsTyped'
  BY <1>1 DEF IInv, LoadsTyped, Threads
<1>7. TaskTyped'
  BY <1>2 DEF IInv, TaskTyped
<1>8. ReadIsCurrent'
  <2> SUFFICES ASSUME NEW t \in Threads', at[t].pc \in Reloading
               PROVE  /\ at[t].key[1] # global'.version
                      /\ at[t].pc = "publish" /\ at[t].key[2] = overrides.version =>
                           at[t].overrides = overrides.content
    BY DEF ReadIsCurrent, Reloading
  <2>1. t \in Threads
    BY DEF Threads
  <2>2. Old(at[t].key)
    BY <2>1 DEF IInv, LoadsTyped, Reloading
  <2> QED
    BY <1>1, <2>1, <2>2 DEF IInv, ReadIsCurrent
<1>9. ReloadsInTurn' /\ OverridesAreKnown'
  BY <1>4, UntilRead DEF IInv
<1>10. LayersHold'
  BY <1>4 DEF IInv, LayersHold, Layered
<1>11. WrittenIsCached'
  BY DEF WrittenIsCached
<1>12. CacheIsTrue'
  <2>1. cache.key # Now'
    <3>1. CASE Cached
      BY <1>1, <3>1 DEF Cached, Now
    <3>2. CASE ~Cached
      BY <3>2, CachedOrNot DEF Now, IInv
    <3> QED
      BY <3>1, <3>2
  <2> QED
    BY <2>1 DEF CacheIsTrue
<1> QED
  BY <1>1, <1>5, <1>6, <1>7, <1>8, <1>9, <1>10, <1>11, <1>12 DEF IInv

LEMMA EditOverridesInductive ==
  ASSUME IInv, NEW c \in Contents, EditOverrides(c)
  PROVE  IInv'
<1> USE DEF EditOverrides
<1>1. /\ FilesTyped'
      /\ \A key : Old(key) => Old(key)' /\ key[2] # overrides'.version
  BY OverridesEdited DEF IInv
<1>2. Cached => Cached' /\ cache.key[2] # overrides'.version
  BY <1>1 DEF Cached
<1>3. Cached' => cache # NoCache
  <2>1. DOMAIN NoCache = {"key"} /\ {"key", "config"} # {"key"}
    BY DEF NoCache
  <2> QED
    BY <2>1 DEF Cached
<1>4. Cached' => Cached
  BY <1>3 DEF IInv, CacheTyped
<1>5. CacheTyped'
  BY <1>2, <1>4 DEF IInv, CacheTyped, NoCache
<1>6. LoadsTyped'
  BY <1>1 DEF IInv, LoadsTyped, Threads
<1>7. TaskTyped'
  BY <1>2 DEF IInv, TaskTyped
<1>8. ReadIsCurrent'
  <2> SUFFICES ASSUME NEW t \in Threads', at[t].pc \in Reloading
               PROVE  /\ at[t].key[2] # overrides'.version
                      /\ at[t].key[1] = global.version => at[t].global = global.content
    BY DEF ReadIsCurrent, Reloading
  <2>1. t \in Threads
    BY DEF Threads
  <2>2. Old(at[t].key)
    BY <2>1 DEF IInv, LoadsTyped, Reloading
  <2> QED
    BY <1>1, <2>1, <2>2 DEF IInv, ReadIsCurrent
<1>9. ReloadsInTurn' /\ OverridesAreKnown'
  <2>1. ReloadsInTurn'
    BY DEF IInv, ReloadsInTurn, Threads
  <2>2. overrides.version < overrides'.version /\ overrides.version \in Nat /\ overrides'.version \in Nat
    BY DEF IInv, FilesTyped
  <2>3. task.pc \in {"patch", "save"} =>
          /\ task.project \in Nat /\ task.project <= overrides'.version
          /\ task.project # overrides'.version
    BY <2>2 DEF IInv, OverridesAreKnown
  <2> QED
    BY <1>2, <1>4, <2>1, <2>3 DEF OverridesAreKnown
<1>10. LayersHold'
  BY <1>2, <1>4 DEF LayersHold
<1>11. WrittenIsCached'
  <2>1. task.pc = "stat" => Cached
    BY DEF IInv, TaskTyped
  <2> QED
    BY <1>2, <2>1 DEF WrittenIsCached
<1>12. CacheIsTrue'
  <2>1. cache.key # Now'
    <3>1. CASE Cached
      BY <1>2, <3>1 DEF Cached, Now
    <3>2. CASE ~Cached
      BY <3>2, CachedOrNot DEF Now, IInv
    <3> QED
      BY <3>1, <3>2
  <2> QED
    BY <2>1 DEF CacheIsTrue
<1> QED
  BY <1>1, <1>5, <1>6, <1>7, <1>8, <1>9, <1>10, <1>11, <1>12 DEF IInv

LEMMA InvalidateInductive ==
  ASSUME IInv, Invalidate
  PROVE  IInv'
<1> USE DEF Invalidate
<1>1. FilesTyped'
  BY DEF IInv, FilesTyped
<1>2. ~Cached'
  <2>1. DOMAIN cache' = {"key"}
    BY DEF NoCache
  <2> QED
    BY <2>1 DEF Cached
<1>3. LoadsTyped'
  BY DEF IInv, LoadsTyped, Threads, Old
<1>4. TaskTyped'
  <2>1. task = [pc |-> "idle"]
    BY DEF IInv, TaskTyped
  <2> QED
    BY <2>1 DEF TaskTyped
<1>5. ReadIsCurrent' /\ ReloadsInTurn'
  BY DEF ReadIsCurrent, ReloadsInTurn, Reloading, Threads
<1>6. cache'.key # Now'
  <2>1. cache'.key = <<>>
    BY DEF NoCache
  <2> QED
    BY <2>1 DEF Now
<1>7. CacheIsTrue'
  BY <1>6 DEF CacheIsTrue
<1>8. WrittenIsCached'
  BY DEF WrittenIsCached
<1> QED
  BY <1>1, <1>2, <1>3, <1>4, <1>5, <1>7, <1>8 DEF IInv, CacheTyped, NoCache,
     OverridesAreKnown, LayersHold

-----------------------------------------------------------------------------
\* What the files and the cached configuration say does not depend on the threads.
LEMMA FilesAndCacheStay ==
  ASSUME IInv, UNCHANGED <<global, overrides, writes, cache, touched, missed>>
  PROVE  /\ missed' \in BOOLEAN /\ FilesTyped' /\ CacheTyped'
         /\ LayersHold'
         /\ Cached' <=> Cached
         /\ \A key : Old(key)' <=> Old(key)
         /\ (task'.pc = "stat" <=> task.pc = "stat") => WrittenIsCached' /\ CacheIsTrue'
         /\ task.pc # "stat" /\ task'.pc # "stat" => WrittenIsCached' /\ CacheIsTrue'
<1>1. \A key : Old(key)' <=> Old(key)
  BY DEF Old
<1>2. Cached' <=> Cached
  BY <1>1 DEF Cached
<1>3. missed' \in BOOLEAN /\ FilesTyped' /\ CacheTyped'
  BY <1>2 DEF IInv, FilesTyped, CacheTyped
<1>4. LayersHold'
  BY <1>2 DEF IInv, LayersHold, Layered
<1>5. /\ WrittenIsCached /\ (task'.pc = "stat" => task.pc = "stat") => WrittenIsCached'
      /\ CacheIsTrue /\ (task.pc = "stat" => task'.pc = "stat") => CacheIsTrue'
  BY DEF WrittenIsCached, CacheIsTrue, IsWhatTheFilesSay, Now, Effective
<1> QED
  BY <1>1, <1>2, <1>3, <1>4, <1>5 DEF IInv

LEMMA StatInductive ==
  ASSUME IInv, NEW t \in Threads, Stat(t)
  PROVE  IInv'
<1> USE DEF Stat
<1>1. Old(Now)
  BY DEF IInv, FilesTyped, Old, Now
<1>2. LoadsTyped'
  BY <1>1, FilesAndCacheStay DEF IInv, LoadsTyped, Threads
<1>3. ReadIsCurrent'
  BY DEF IInv, ReadIsCurrent, LoadsTyped, Threads, Reloading
<1>4. TaskTyped'
  BY FilesAndCacheStay DEF IInv, TaskTyped
<1>5. ReloadsInTurn' /\ (Known' <=> Known)
  BY DEF IInv, ReloadsInTurn, LoadsTyped, Known, Threads, Reloading
<1>6. OverridesAreKnown'
  BY <1>5, FilesAndCacheStay DEF IInv, OverridesAreKnown
<1> QED
  BY <1>2, <1>3, <1>4, <1>5, <1>6, FilesAndCacheStay DEF IInv

LEMMA ReadInductive ==
  ASSUME IInv, NEW t \in Threads, Read(t)
  PROVE  IInv'
<1> USE DEF Read
<1>1. Old(at[t].key)
  BY DEF IInv, LoadsTyped
<1>2. LoadsTyped'
  BY <1>1, FilesAndCacheStay DEF IInv, LoadsTyped, Threads
<1>3. ReadIsCurrent'
  BY DEF IInv, ReadIsCurrent, LoadsTyped, Threads, Reloading
<1>4. TaskTyped'
  BY FilesAndCacheStay DEF IInv, TaskTyped
<1>5. ReloadsInTurn' /\ Known'
  BY DEF IInv, ReloadsInTurn, LoadsTyped, Known, Threads, Reloading
<1>6. OverridesAreKnown'
  BY <1>5, FilesAndCacheStay DEF IInv, OverridesAreKnown
<1> QED
  BY <1>2, <1>3, <1>4, <1>5, <1>6, FilesAndCacheStay DEF IInv

LEMMA MergeInductive ==
  ASSUME IInv, NEW t \in Threads, Merge(t)
  PROVE  IInv'
<1> USE DEF Merge
<1>1. Old(at[t].key)
  BY DEF IInv, LoadsTyped
<1>2. LoadsTyped'
  BY <1>1, FilesAndCacheStay DEF IInv, LoadsTyped, Threads
<1>3. ReadIsCurrent'
  BY DEF IInv, ReadIsCurrent, LoadsTyped, Threads, Reloading
<1>4. TaskTyped'
  BY FilesAndCacheStay DEF IInv, TaskTyped
<1>5. ReloadsInTurn' /\ Known'
  BY DEF IInv, ReloadsInTurn, LoadsTyped, Known, Threads, Reloading
<1>6. OverridesAreKnown'
  BY <1>5, FilesAndCacheStay DEF IInv, OverridesAreKnown
<1> QED
  BY <1>2, <1>3, <1>4, <1>5, <1>6, FilesAndCacheStay DEF IInv

LEMMA HitInductive ==
  ASSUME IInv, NEW t \in Threads, Hit(t)
  PROVE  IInv'
<1> USE DEF Hit
<1>1. Cached
  <2>1. Old(at[t].key)
    BY DEF IInv, LoadsTyped
  <2>2. cache.key # <<>>
    BY <2>1 DEF Old
  <2> QED
    BY <2>2, CachedOrNot DEF IInv
<1>2. LoadsTyped'
  <2>1. DOMAIN at' = Threads' /\ Threads' = Threads
    BY DEF IInv, LoadsTyped, Threads
  <2>2. at'["handler"].pc # "idle" => task'.pc = "load"
    BY DEF IInv, LoadsTyped, Threads, Loaded
  <2> QED
    BY <2>1, <2>2, FilesAndCacheStay DEF IInv, LoadsTyped
<1>3. ReadIsCurrent' /\ ReloadsInTurn' /\ (Known' <=> Known)
  BY DEF IInv, ReadIsCurrent, ReloadsInTurn, LoadsTyped, Known, Threads, Reloading
<1>4. CASE t = "handler"
  <2>1. task.pc = "load"
    BY <1>4 DEF IInv, LoadsTyped
  <2>2. task' = [pc |-> "patch", asks |-> task.asks, object |-> cache.config,
                 project |-> at[t].key[2], shared |-> TRUE]
    BY <1>4 DEF Loaded
  <2>3. TaskTyped'
    BY <1>1, <2>2, FilesAndCacheStay DEF TaskTyped, IInv, CacheTyped
  <2>4. cache.key[2] \in Nat /\ cache.key[2] <= overrides.version
    BY <1>1 DEF Cached, Old
  <2>5. OverridesAreKnown'
    BY <1>1, <1>3, <2>2, <2>4, FilesAndCacheStay DEF IInv, OverridesAreKnown
  <2> QED
    BY <1>2, <1>3, <2>1, <2>2, <2>3, <2>5, FilesAndCacheStay DEF IInv
<1>5. CASE t # "handler"
  <2>1. task' = task
    BY <1>5 DEF Loaded
  <2>2. TaskTyped'
    BY <2>1, FilesAndCacheStay DEF IInv, TaskTyped
  <2>3. OverridesAreKnown'
    BY <1>3, <2>1, FilesAndCacheStay DEF IInv, OverridesAreKnown
  <2> QED
    BY <1>2, <1>3, <2>1, <2>2, <2>3, FilesAndCacheStay DEF IInv
<1> QED
  BY <1>4, <1>5

LEMMA PublishInductive ==
  ASSUME IInv, NEW t \in Threads, Publish(t)
  PROVE  IInv'
<1> USE DEF Publish
<1>1. Old(at[t].key)
  BY DEF IInv, LoadsTyped
<1>2. \A key : Old(key)' <=> Old(key)
  BY DEF Old
<1>3. /\ DOMAIN cache' = {"key", "config"}
      /\ cache'.key = at[t].key
      /\ cache'.config = Effective(at[t].global, at[t].overrides)
  OBVIOUS
<1>4. Cached'
  BY <1>1, <1>2, <1>3 DEF Cached
<1>5. FilesTyped' /\ missed' \in BOOLEAN
  BY DEF IInv, FilesTyped
<1>6. Fieldset \subseteq DOMAIN cache'.config
  BY <1>3, EffectiveFields
<1>7. CacheTyped'
  BY <1>4, <1>6 DEF CacheTyped, Fieldset
<1>8. LoadsTyped'
  <2>1. DOMAIN at' = Threads' /\ Threads' = Threads
    BY DEF IInv, LoadsTyped, Threads
  <2>2. at'["handler"].pc # "idle" => task'.pc = "load"
    BY DEF IInv, LoadsTyped, Threads, Loaded
  <2> QED
    BY <1>2, <2>1, <2>2 DEF IInv, LoadsTyped
<1>9. ReadIsCurrent' /\ ReloadsInTurn'
  BY DEF IInv, ReadIsCurrent, ReloadsInTurn, LoadsTyped, Threads, Reloading
<1>10. /\ at[t].key[1] = global.version => at[t].global = global.content
       /\ at[t].key[2] = overrides.version => at[t].overrides = overrides.content
  BY DEF IInv, ReadIsCurrent, Reloading
<1>11. (at[t].key[2] = overrides.version => Known') /\ (Known => Known')
  <2>1. overridden = at[t].overrides
    BY DEF IInv, ReloadsInTurn
  <2>2. Threads' = Threads /\ \A u \in Threads : at[u].pc = "merge" => u = t
    BY DEF IInv, ReloadsInTurn, Reloading, Threads
  <2> QED
    BY <1>10, <2>1, <2>2 DEF Known
<1>12. LayersHold'
  <2> SUFFICES ASSUME at[t].key[2] = overrides.version, NEW f \in Fieldset, f \in Layered
               PROVE  cache'.config[f] = Over(Environment, overrides.content)[f]
    BY <1>3 DEF LayersHold, Fieldset, Layered
  <2>1. at[t].overrides = overrides.content /\ f \in DOMAIN at[t].overrides \cup DOMAIN Environment
    BY <1>10 DEF Layered
  <2>2. Effective(at[t].global, at[t].overrides)[f] =
          IF f \in DOMAIN Environment THEN Environment[f] ELSE at[t].overrides[f]
    BY <2>1, EffectiveFields
  <2>3. Over(Environment, at[t].overrides)[f] =
          IF f \in DOMAIN Environment THEN Environment[f] ELSE at[t].overrides[f]
    BY <2>1 DEF Over
  <2> QED
    BY <1>3, <2>1, <2>2, <2>3
<1>13. (task'.pc = "stat" <=> task.pc = "stat") /\ TaskTyped' /\ OverridesAreKnown'
  <2>1. CASE t = "handler"
    <3>1. task.pc = "load"
      BY <2>1 DEF IInv, LoadsTyped
    <3>2. task' = [pc |-> "patch", asks |-> task.asks, object |-> cache'.config,
                   project |-> at[t].key[2], shared |-> TRUE]
      BY <2>1 DEF Loaded
    <3>3. at[t].key[2] \in Nat /\ at[t].key[2] <= overrides.version
      BY <1>1 DEF Old
    <3>4. OverridesAreKnown'
      BY <1>3, <1>11, <3>2, <3>3 DEF OverridesAreKnown
    <3> QED
      BY <1>4, <1>6, <3>1, <3>2, <3>4 DEF TaskTyped, Fieldset
  <2>2. CASE t # "handler" /\ task.pc \in {"patch", "save"} /\ cache' # cache
    <3>1. task' = [task EXCEPT !.shared = FALSE]
      BY <2>2 DEF Loaded
    <3>2. /\ DOMAIN task = {"pc", "asks", "object", "project", "shared"}
          /\ Fieldset \subseteq DOMAIN task.object
      BY <2>2 DEF IInv, TaskTyped
    <3>3. /\ DOMAIN task' = {"pc", "asks", "object", "project", "shared"}
          /\ task'.pc = task.pc /\ task'.object = task.object /\ task'.shared = FALSE
          /\ task'.project = task.project
      BY <3>1, <3>2
    <3>4. OverridesAreKnown'
      BY <1>3, <1>11, <3>3 DEF IInv, OverridesAreKnown
    <3> QED
      BY <1>4, <2>2, <3>2, <3>3, <3>4 DEF TaskTyped, Fieldset
  <2>3. CASE t # "handler" /\ ~(task.pc \in {"patch", "save"} /\ cache' # cache)
    <3>1. task' = task
      BY <2>3 DEF Loaded
    <3>2. OverridesAreKnown'
      BY <1>3, <1>11, <3>1 DEF IInv, OverridesAreKnown
    <3> QED
      BY <1>4, <2>3, <3>1, <3>2 DEF IInv, TaskTyped, Fieldset
  <2> QED
    BY <2>1, <2>2, <2>3
<1>14. WrittenIsCached'
  BY <1>13 DEF WrittenIsCached
<1>15. CacheIsTrue'
  <2> SUFFICES ASSUME cache'.key = Now', NEW f \in Fieldset
               PROVE  cache'.config[f] = Effective(global.content, overrides.content)[f]
    BY DEF CacheIsTrue, Fieldset, Effective
  <2> QED
    BY <1>3, <1>10 DEF Now
<1> QED
  BY <1>4, <1>5, <1>7, <1>8, <1>9, <1>12, <1>13, <1>14, <1>15 DEF IInv

-----------------------------------------------------------------------------
LEMMA HandlerAtRest ==
  ASSUME IInv, task.pc # "load", UNCHANGED <<at, global, overrides, overridden>>
  PROVE  LoadsTyped' /\ ReadIsCurrent' /\ ReloadsInTurn' /\ (Known' <=> Known)
<1>1. \A key : Old(key)' <=> Old(key)
  BY DEF Old
<1> QED
  BY <1>1 DEF IInv, LoadsTyped, ReadIsCurrent, ReloadsInTurn, Known, Threads

LEMMA AskInductive ==
  ASSUME IInv, NEW r \in Requests, Ask(r)
  PROVE  IInv'
<1> USE DEF Ask
<1>1. DOMAIN task' = {"pc", "asks"} /\ task'.pc = "load"
  OBVIOUS
<1>2. TaskTyped'
  BY <1>1 DEF TaskTyped
<1>3. OverridesAreKnown'
  BY <1>1, HandlerAtRest, FilesAndCacheStay DEF IInv, OverridesAreKnown
<1> QED
  BY <1>1, <1>2, <1>3, HandlerAtRest, FilesAndCacheStay DEF IInv

LEMMA GiveUpInductive ==
  ASSUME IInv, GiveUp
  PROVE  IInv'
<1> USE DEF GiveUp
<1>1. TaskTyped'
  BY DEF TaskTyped
<1>2. OverridesAreKnown'
  BY HandlerAtRest, FilesAndCacheStay DEF IInv, OverridesAreKnown
<1> QED
  BY <1>1, <1>2, HandlerAtRest, FilesAndCacheStay DEF IInv

LEMMA PatchInductive ==
  ASSUME IInv, Patch
  PROVE  IInv'
<1> DEFINE asked == SelectSeq(Fields, LAMBDA f : f \in DOMAIN task.asks)
           bad == {i \in DOMAIN asked : task.asks[asked[i]] \notin Values}
           done == {asked[i] : i \in {j \in DOMAIN asked : \A b \in bad : j < b}}
           config == Over(Keep(task.asks, done), task.object)
<1>1. /\ task.pc = "patch"
      /\ task' = IF bad # {} THEN [pc |-> "idle"]
                 ELSE [task EXCEPT !.pc = "save", !.object = config]
      /\ IF task.shared
         THEN cache' = [cache EXCEPT !.config = config] /\ touched' = touched \cup done
         ELSE UNCHANGED <<cache, touched>>
      /\ UNCHANGED <<global, overrides, writes, at, missed, overridden>>
  BY DEF Patch
<1> HIDE DEF bad, done
<1>2. /\ DOMAIN task = {"pc", "asks", "object", "project", "shared"}
      /\ task.shared \in BOOLEAN /\ Fieldset \subseteq DOMAIN task.object /\ Cached
      /\ task.shared => task.object = cache.config
  BY <1>1 DEF IInv, TaskTyped
<1>3. /\ Fieldset \subseteq DOMAIN config
      /\ \A f \in Fieldset \ done : config[f] = task.object[f]
  <2>1. DOMAIN Keep(task.asks, done) \subseteq done
    BY DEF Keep
  <2> QED
    BY <1>2, <2>1 DEF Over
<1> HIDE DEF config
<1>4. \A key : Old(key)' <=> Old(key)
  BY <1>1 DEF Old
<1>5. LoadsTyped' /\ ReadIsCurrent' /\ ReloadsInTurn' /\ (Known' <=> Known)
  BY <1>1, HandlerAtRest
<1>6. FilesTyped' /\ missed' \in BOOLEAN
  BY <1>1 DEF IInv, FilesTyped
<1>7. /\ DOMAIN cache' = {"key", "config"}
      /\ cache'.key = cache.key
      /\ task.shared => cache'.config = config /\ touched' = touched \cup done
      /\ ~task.shared => cache' = cache /\ touched' = touched
  BY <1>1, <1>2 DEF Cached
<1>8. Cached'
  BY <1>2, <1>4, <1>7 DEF Cached
<1>9. CacheTyped'
  BY <1>2, <1>3, <1>7, <1>8 DEF IInv, CacheTyped, Fieldset
<1>10. task'.pc # "stat" /\ TaskTyped' /\ (task'.pc = "idle" \/ task'.project = task.project)
  <2>1. CASE bad # {}
    BY <1>1, <2>1 DEF TaskTyped
  <2>2. CASE bad = {}
    <3>1. /\ DOMAIN task' = {"pc", "asks", "object", "project", "shared"}
          /\ task'.pc = "save" /\ task'.object = config /\ task'.shared = task.shared
          /\ task'.project = task.project
      BY <1>1, <1>2, <2>2
    <3> QED
      BY <1>2, <1>3, <1>7, <1>8, <3>1 DEF TaskTyped, Fieldset
  <2> QED
    BY <2>1, <2>2
<1>11. OverridesAreKnown'
  BY <1>1, <1>2, <1>5, <1>7, <1>10 DEF IInv, OverridesAreKnown
<1>12. \A f \in Fieldset \ touched' : f \notin touched /\ cache'.config[f] = cache.config[f]
  BY <1>2, <1>3, <1>7
<1>13. LayersHold'
  BY <1>1, <1>2, <1>7, <1>12 DEF IInv, LayersHold, Layered, Fieldset
<1>14. WrittenIsCached'
  BY <1>10 DEF WrittenIsCached
<1>15. CacheIsTrue'
  <2> SUFFICES ASSUME cache'.key = Now', ~missed', NEW f \in Fieldset, f \notin touched'
               PROVE  cache'.config[f] = Effective(global.content, overrides.content)'[f]
    BY DEF CacheIsTrue, Fieldset
  <2>1. /\ Effective(global.content, overrides.content)' = Effective(global.content, overrides.content)
        /\ Now' = Now
    BY <1>1 DEF Effective, Now
  <2>2. cache.config[f] = Effective(global.content, overrides.content)[f]
    BY <1>1, <1>7, <1>12, <2>1 DEF IInv, CacheIsTrue, Fieldset
  <2> QED
    BY <1>12, <2>1, <2>2
<1> QED
  BY <1>5, <1>6, <1>9, <1>10, <1>11, <1>13, <1>14, <1>15 DEF IInv

LEMMA SaveWriteInductive ==
  ASSUME IInv, SaveWrite
  PROVE  IInv'
<1> DEFINE D == DOMAIN overridden
           written == Over(Keep(global.content, D), Keep(task.object, Fieldset \ D))
<1>1. /\ task.pc = "save" /\ writes' = writes + 1
      /\ global' = [version |-> writes + 1, content |-> written]
      /\ cache' = [cache EXCEPT !.config = task.object]
      /\ touched' = touched \cap Layered
      /\ task' = [pc |-> "stat"] /\ missed' = (missed \/ ~task.shared)
      /\ UNCHANGED <<overrides, at, overridden>>
  BY DEF SaveWrite, Fieldset
<1>2. /\ task.shared \in BOOLEAN /\ Fieldset \subseteq DOMAIN task.object /\ Cached
      /\ task.shared => task.object = cache.config
  BY <1>1 DEF IInv, TaskTyped
<1>3. /\ FilesTyped'
      /\ \A key : Old(key) => Old(key)' /\ key[1] # global'.version
  BY <1>1, GlobalEdited DEF IInv
<1>4. \A f \in Fieldset : f \notin D => f \in DOMAIN written /\ written[f] = task.object[f]
  BY <1>2 DEF Over, Keep
<1> HIDE DEF written
<1>5. /\ DOMAIN cache' = {"key", "config"}
      /\ cache'.key = cache.key
      /\ cache'.config = task.object
  BY <1>1, <1>2 DEF Cached
<1>6. Cached'
  BY <1>2, <1>3, <1>5 DEF Cached
<1>7. CacheTyped'
  BY <1>2, <1>5, <1>6 DEF CacheTyped, Fieldset
<1>8. LoadsTyped'
  BY <1>1, <1>3 DEF IInv, LoadsTyped, Threads
<1>9. ReadIsCurrent'
  <2> SUFFICES ASSUME NEW t \in Threads', at[t].pc \in Reloading
               PROVE  /\ at[t].key[1] # global'.version
                      /\ at[t].pc = "publish" /\ at[t].key[2] = overrides.version =>
                           at[t].overrides = overrides.content
    BY <1>1 DEF ReadIsCurrent, Reloading
  <2>1. t \in Threads
    BY DEF Threads
  <2>2. Old(at[t].key)
    BY <2>1 DEF IInv, LoadsTyped, Reloading
  <2> QED
    BY <1>3, <2>1, <2>2 DEF IInv, ReadIsCurrent
<1>10. TaskTyped'
  BY <1>1, <1>6 DEF TaskTyped
<1>11. ReloadsInTurn' /\ OverridesAreKnown'
  BY <1>1, <1>2, <1>5, UntilRead DEF IInv
<1>12. ~missed' => ~missed /\ cache'.config = cache.config
  BY <1>1, <1>2, <1>5
<1>13. Layered' = Layered
  BY <1>1 DEF Layered
<1>14. LayersHold'
  <2> SUFFICES ASSUME ~missed', cache.key[2] = overrides.version,
                      NEW f \in Fieldset, f \in Layered, f \notin touched
               PROVE  cache'.config[f] = Over(Environment, overrides.content)[f]
    BY <1>1, <1>5, <1>13 DEF LayersHold, Fieldset
  <2> QED
    BY <1>2, <1>5, <1>12 DEF IInv, LayersHold
<1>15. WrittenIsCached'
  <2> SUFFICES ASSUME ~missed', cache.key[2] = overrides.version,
                      NEW f \in Fieldset, f \notin touched'
               PROVE  cache'.config[f] = Effective(written, overrides.content)[f]
    BY <1>1, <1>5 DEF WrittenIsCached, IsWhatTheFilesSay, Fieldset, Effective
  <2>1. D \subseteq DOMAIN overrides.content
    <3>1. overridden = overrides.content \/ overridden = <<>>
      BY <1>2 DEF IInv, OverridesAreKnown, Known, ReloadsInTurn
    <3> QED
      BY <3>1
  <2>2. Effective(written, overrides.content)[f] =
          IF f \in DOMAIN Environment THEN Environment[f]
          ELSE IF f \in DOMAIN overrides.content THEN overrides.content[f]
          ELSE IF f \in DOMAIN written THEN written[f] ELSE Default
    BY EffectiveFields
  <2>3. CASE f \in Layered
    <3>1. f \notin touched
      BY <1>1, <2>3
    <3>2. cache.config[f] = Over(Environment, overrides.content)[f]
      BY <1>2, <1>12, <2>3, <3>1 DEF IInv, LayersHold
    <3>3. Over(Environment, overrides.content)[f] =
            IF f \in DOMAIN Environment THEN Environment[f] ELSE overrides.content[f]
      BY <2>3 DEF Over, Layered
    <3> QED
      BY <1>12, <2>2, <2>3, <3>2, <3>3 DEF Layered
  <2>4. CASE f \notin Layered
    <3>1. f \notin D /\ f \notin DOMAIN overrides.content /\ f \notin DOMAIN Environment
      BY <2>1, <2>4 DEF Layered
    <3> QED
      BY <1>4, <1>5, <2>2, <3>1
  <2> QED
    BY <2>3, <2>4
<1>16. CacheIsTrue'
  BY <1>1 DEF CacheIsTrue
<1>17. missed' \in BOOLEAN
  BY <1>1
<1> QED
  BY <1>3, <1>7, <1>8, <1>9, <1>10, <1>11, <1>14, <1>15, <1>16, <1>17 DEF IInv

LEMMA SaveStatInductive ==
  ASSUME IInv, SaveStat
  PROVE  IInv'
<1> USE DEF SaveStat
<1>1. Cached
  BY DEF IInv, TaskTyped
<1>2. /\ DOMAIN cache' = {"key", "config"}
      /\ cache'.key = <<global.version, cache.key[2]>>
      /\ cache'.config = cache.config
  BY <1>1 DEF Cached
<1>3. FilesTyped' /\ missed' \in BOOLEAN
  BY DEF IInv, FilesTyped
<1>4. Cached'
  BY <1>1, <1>2 DEF IInv, FilesTyped, Cached, Old
<1>5. CacheTyped'
  BY <1>1, <1>2, <1>4 DEF IInv, CacheTyped, Fieldset
<1>6. LoadsTyped' /\ ReadIsCurrent' /\ ReloadsInTurn'
  BY HandlerAtRest
<1>7. TaskTyped'
  BY DEF TaskTyped
<1>8. OverridesAreKnown'
  BY <1>1, <1>2, UntilRead DEF IInv
<1>9. LayersHold'
  BY <1>1, <1>2 DEF IInv, LayersHold, Layered, Fieldset
<1>10. WrittenIsCached'
  BY DEF WrittenIsCached
<1>11. CacheIsTrue'
  <2> SUFFICES ASSUME cache'.key = Now', ~missed
               PROVE  IsWhatTheFilesSay'
    BY DEF CacheIsTrue, IsWhatTheFilesSay, Fieldset
  <2>1. cache.key[2] = overrides.version
    BY <1>2 DEF Now
  <2>2. IsWhatTheFilesSay
    BY <2>1 DEF IInv, WrittenIsCached
  <2> QED
    BY <1>2, <2>2 DEF IsWhatTheFilesSay, Fieldset, Effective
<1> QED
  BY <1>3, <1>5, <1>6, <1>7, <1>8, <1>9, <1>10, <1>11 DEF IInv

-----------------------------------------------------------------------------
LEMMA StepInductive == IInv /\ [Next]_vars => IInv'
<1> SUFFICES ASSUME IInv, [Next]_vars PROVE IInv'
  OBVIOUS
<1>1. ASSUME NEW c \in Contents, EditGlobal(c) \/ EditOverrides(c) PROVE IInv'
  BY <1>1, EditGlobalInductive, EditOverridesInductive
<1>2. CASE Invalidate
  BY <1>2, InvalidateInductive
<1>3. ASSUME NEW t \in Threads, Stat(t) \/ Hit(t) \/ Read(t) \/ Merge(t) \/ Publish(t) PROVE IInv'
  BY <1>3, StatInductive, HitInductive, ReadInductive, MergeInductive, PublishInductive
<1>4. ASSUME NEW r \in Requests, Ask(r) PROVE IInv'
  BY <1>4, AskInductive
<1>5. CASE Patch \/ SaveWrite \/ SaveStat \/ GiveUp
  BY <1>5, PatchInductive, SaveWriteInductive, SaveStatInductive, GiveUpInductive
<1>6. CASE UNCHANGED vars
  <2>1. UNCHANGED <<global, overrides, writes, cache, at, task, touched, missed, overridden>>
    BY <1>6 DEF vars
  <2>2. \A key : Old(key)' <=> Old(key)
    BY <2>1 DEF Old
  <2>3. LoadsTyped' /\ ReadIsCurrent' /\ ReloadsInTurn' /\ (Known' <=> Known)
    BY <2>1, <2>2 DEF IInv, LoadsTyped, ReadIsCurrent, ReloadsInTurn, Known, Threads
  <2>4. TaskTyped'
    BY <2>1, FilesAndCacheStay DEF IInv, TaskTyped
  <2>5. OverridesAreKnown'
    BY <2>1, <2>3, FilesAndCacheStay DEF IInv, OverridesAreKnown
  <2> QED
    BY <2>1, <2>3, <2>4, <2>5, FilesAndCacheStay DEF IInv
<1> QED
  BY <1>1, <1>2, <1>3, <1>4, <1>5, <1>6 DEF Next

\* The invariant holds of every reachable state, and so does each part of it.
THEOREM Invariant == Spec => []IInv
  BY InitInductive, StepInductive, PTL DEF Spec

\* A configuration that is served from the cache is what the files say, for any number
\* of threads and whatever is written into the files (config.py:1842-1944, 2049-2072).
THEOREM CacheTrue == Spec => []CacheIsTrue
<1>1. IInv => CacheIsTrue
  BY DEF IInv
<1> QED
  BY <1>1, Invariant, PTL

\* A value that only the active project's overrides set gets into the global file at no
\* other time than while a thread reloads and has not read the overrides yet, or when they
\* changed since the handler looked (config.py:1899-1915, 2023-2047).
THEOREM GlobalStays == Spec => [][GlobalStaysGlobal]_vars
<1>1. IInv /\ [Next]_vars => [GlobalStaysGlobal]_vars
  <2> SUFFICES ASSUME IInv, Next, task.pc = "save", task'.pc = "stat",
                      task.project = overrides.version, \A t \in Threads : at[t].pc # "merge",
                      NEW f \in DOMAIN overrides.content
               PROVE  IF f \in DOMAIN global.content
                      THEN f \in DOMAIN global'.content /\ global'.content[f] = global.content[f]
                      ELSE f \notin DOMAIN global'.content
    BY DEF GlobalStaysGlobal
  <2>1. DOMAIN task = {"pc", "asks", "object", "project", "shared"}
    BY DEF IInv, TaskTyped
  <2>2. SaveWrite
    <3>1. task' # task
      OBVIOUS
    <3>2. ASSUME NEW t \in Threads, Hit(t) \/ Publish(t) PROVE FALSE
      <4>1. t # "handler"
        BY <3>2 DEF IInv, LoadsTyped, Hit, Publish
      <4>2. task' = task \/ task' = [task EXCEPT !.shared = FALSE]
        BY <3>2, <4>1 DEF Hit, Publish, Loaded
      <4> QED
        BY <2>1, <4>2
    <3> QED
      BY <3>1, <3>2 DEF Next, EditGlobal, EditOverrides, Invalidate, Stat, Read, Merge, Ask,
         Patch, SaveStat, GiveUp
  <2>3. overridden = overrides.content
    BY DEF IInv, OverridesAreKnown, Known
  <2>4. global'.content = Over(Keep(global.content, DOMAIN overrides.content),
                               Keep(task.object, ToSet(Fields) \ DOMAIN overrides.content))
    BY <2>2, <2>3 DEF SaveWrite
  <2> QED
    BY <2>4 DEF Over, Keep
<1> QED
  BY <1>1, Invariant, PTL DEF Spec
===============================================================================
