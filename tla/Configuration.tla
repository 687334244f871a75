---------------------------- MODULE Configuration ----------------------------
(***************************************************************************)
(* The configuration: search/config.py (SearchConfigManager) with the      *)
(* handlers that change it (mcp_server/tools/config_handlers.py).          *)
(*                                                                         *)
(* A configuration gives every field a value.  It is layered: the defaults,*)
(* the global file, the active project's overrides, the environment.  It   *)
(* is read by any thread, cached as one shared object under the versions   *)
(* (modification times) of the two files, and changed in place by a        *)
(* handler, which then saves it.  Handlers exclude each other (the         *)
(* mutation lock); the threads that read do not wait for them.  Sections,  *)
(* conversions and the old flat layout of the file are left out, and a     *)
(* file that does not parse counts as empty, as it does in the code.       *)
(***************************************************************************)
EXTENDS Integers, Sequences, FiniteSets, SequencesExt

CONSTANTS Readers,     \* the threads that read it, other than the handler's
          Fields,      \* a sequence: the order in which a request's fields are applied
          Values,      \* what a field may hold; a request may ask for something else
          Default,
          Environment, \* the fields that environment variables set, and their values
          Requests,    \* what handlers are asked to set: functions on some fields
          Contents,    \* what somebody may write into either file
          MaxWrites    \* bound: writes of either file

VARIABLES global, overrides, writes, \* the files: [version, content]; the last version
          cache,                     \* the manager's config and its key
          overridden,                \* what it says the active project overrides, for a save
                                     \* to leave out (_active_overrides_meta)
          at,                        \* what each thread that loads has seen and read
          task,                      \* the handler: its step, its request, its object
          touched, missed            \* history: fields set on the cached object since it was
                                     \* made and not in the files; an edit or a reload
                                     \* came between what a handler did

vars == <<global, overrides, writes, cache, at, task, touched, missed, overridden>>

Threads == {"handler"} \cup Readers
NoCache == [key |-> <<>>]
Over(upper, lower) ==
  [f \in DOMAIN upper \cup DOMAIN lower |-> IF f \in DOMAIN upper THEN upper[f] ELSE lower[f]]
Effective(g, o) ==
  Over(Environment, Over(o, Over(g, [f \in ToSet(Fields) |-> Default])))
Now == <<global.version, overrides.version>>
Keep(content, fields) == [f \in DOMAIN content \cap fields |-> content[f]]
Layered == DOMAIN overrides.content \cup DOMAIN Environment
Reloading == {"merge", "publish"}

Init ==
  /\ global = [version |-> 0, content |-> <<>>] /\ overrides = global
  /\ writes = 0 /\ cache = NoCache
  /\ at = [t \in Threads |-> [pc |-> "idle"]]
  /\ task = [pc |-> "idle"]
  /\ touched = {} /\ missed = FALSE /\ overridden = <<>>

\* Somebody edits the global file, or a project's overrides are written or removed, or
\* another project is active whose overrides are different.
EditGlobal(c) ==
  /\ writes < MaxWrites /\ writes' = writes + 1
  /\ global' = [version |-> writes + 1, content |-> c]
  /\ missed' = (missed \/ task.pc = "stat")
  /\ UNCHANGED <<overrides, cache, at, task, touched, overridden>>

EditOverrides(c) ==
  /\ writes < MaxWrites /\ writes' = writes + 1
  /\ overrides' = [version |-> writes + 1, content |-> c]
  /\ UNCHANGED <<global, cache, at, task, touched, missed, overridden>>

\* invalidate_config_caches, after a project switch: the manager is dropped.
Invalidate ==
  /\ task.pc = "idle" /\ \A t \in Threads : at[t].pc = "idle"
  /\ cache # NoCache /\ cache' = NoCache /\ touched' = {} /\ missed' = FALSE
  /\ overridden' = <<>>
  /\ UNCHANGED <<global, overrides, writes, at, task>>

-----------------------------------------------------------------------------
(* load_config: the versions are read first; on a miss the files are read   *)
(* under the manager's lock, and kept under the versions read before.       *)

Stat(t) ==
  /\ at[t].pc = "idle" /\ (t = "handler" => task.pc = "load")
  /\ at' = [at EXCEPT ![t] = [pc |-> "check", key |-> Now]]
  /\ UNCHANGED <<global, overrides, writes, cache, task, touched, missed, overridden>>

\* The handler goes on with the object it got; another thread's reload replaces the
\* cached one and leaves the handler with its own.
Loaded(t) ==
  task' = IF t = "handler"
          THEN [pc |-> "patch", asks |-> task.asks, object |-> cache'.config,
                project |-> at[t].key[2], shared |-> TRUE]
          ELSE IF task.pc \in {"patch", "save"} /\ cache' # cache
          THEN [task EXCEPT !.shared = FALSE] ELSE task

Hit(t) ==
  /\ at[t].pc = "check" /\ cache.key = at[t].key
  /\ at' = [at EXCEPT ![t] = [pc |-> "idle"]]
  /\ UNCHANGED cache /\ Loaded(t)
  /\ UNCHANGED <<global, overrides, writes, touched, missed, overridden>>

\* The global file is read; meanwhile nothing is known of overrides.
Read(t) ==
  /\ at[t].pc = "check" /\ cache.key # at[t].key
  /\ \A u \in Threads : at[u].pc \notin Reloading
  /\ at' = [at EXCEPT ![t] = [pc |-> "merge", key |-> at[t].key, global |-> global.content]]
  /\ overridden' = <<>>
  /\ UNCHANGED <<global, overrides, writes, cache, task, touched, missed>>

\* ... until their file is read too.
Merge(t) ==
  /\ at[t].pc = "merge"
  /\ at' = [at EXCEPT ![t] = [pc |-> "publish", key |-> at[t].key,
                              global |-> at[t].global, overrides |-> overrides.content]]
  /\ overridden' = overrides.content
  /\ UNCHANGED <<global, overrides, writes, cache, task, touched, missed>>

Publish_StatsLast(t) ==
  /\ at[t].pc = "publish"
  /\ cache' = [key |-> Now, config |-> Effective(at[t].global, at[t].overrides)]
  /\ at' = [at EXCEPT ![t] = [pc |-> "idle"]]
  /\ touched' = {} /\ missed' = (task.pc = "stat")
  /\ Loaded(t)
  /\ UNCHANGED <<global, overrides, writes, overridden>>

Publish(t) ==
  /\ at[t].pc = "publish"
  /\ cache' = [key |-> at[t].key, config |-> Effective(at[t].global, at[t].overrides)]
  /\ at' = [at EXCEPT ![t] = [pc |-> "idle"]]
  /\ touched' = {} /\ missed' = (task.pc = "stat")
  /\ Loaded(t)
  /\ UNCHANGED <<global, overrides, writes, overridden>>

-----------------------------------------------------------------------------
(* handle_configure_...: load, apply_config_patch, save_config.             *)

Ask(r) ==
  /\ task.pc = "idle" /\ task' = [pc |-> "load", asks |-> r]
  /\ UNCHANGED <<global, overrides, writes, cache, at, touched, missed, overridden>>

\* Up to the first field that does not validate, which refuses the request; what was set
\* before it stays set.
Patch ==
  /\ task.pc = "patch"
  /\ LET asked == SelectSeq(Fields, LAMBDA f : f \in DOMAIN task.asks)
         bad == {i \in DOMAIN asked : task.asks[asked[i]] \notin Values}
         done == {asked[i] : i \in {j \in DOMAIN asked : \A b \in bad : j < b}}
         config == Over(Keep(task.asks, done), task.object)
     IN /\ task' = IF bad # {} THEN [pc |-> "idle"]
                   ELSE [task EXCEPT !.pc = "save", !.object = config]
        /\ IF task.shared
           THEN cache' = [cache EXCEPT !.config = config] /\ touched' = touched \cup done
           ELSE UNCHANGED <<cache, touched>>
  /\ UNCHANGED <<global, overrides, writes, at, missed, overridden>>

\* _prune_active_overrides and write_json_atomic: every field is written, the overridden
\* ones with what the global file has, if anything.
SaveWrite_Unpruned ==
  /\ task.pc = "save" /\ writes < MaxWrites /\ writes' = writes + 1
  /\ global' = [version |-> writes + 1, content |-> task.object]
  /\ cache' = [cache EXCEPT !.config = task.object]
  /\ touched' = touched \cap Layered
  /\ task' = [pc |-> "stat"] /\ missed' = (missed \/ ~task.shared)
  /\ UNCHANGED <<overrides, at, overridden>>

SaveWrite ==
  /\ task.pc = "save" /\ writes < MaxWrites /\ writes' = writes + 1
  /\ global' = [version |-> writes + 1,
                content |-> Over(Keep(global.content, DOMAIN overridden),
                                 Keep(task.object, ToSet(Fields) \ DOMAIN overridden))]
  /\ cache' = [cache EXCEPT !.config = task.object]
  /\ touched' = touched \cap Layered
  /\ task' = [pc |-> "stat"] /\ missed' = (missed \/ ~task.shared)
  /\ UNCHANGED <<overrides, at, overridden>>

SaveStat ==
  /\ task.pc = "stat"
  /\ cache' = [cache EXCEPT !.key = <<global.version, cache.key[2]>>]
  /\ task' = [pc |-> "idle"]
  /\ UNCHANGED <<global, overrides, writes, at, touched, missed, overridden>>

\* A request beyond the bound of writes goes no further.
GiveUp ==
  /\ task.pc = "save" /\ writes = MaxWrites /\ task' = [pc |-> "idle"]
  /\ UNCHANGED <<global, overrides, writes, cache, at, touched, missed, overridden>>

Next ==
  \/ \E c \in Contents : EditGlobal(c) \/ EditOverrides(c)
  \/ Invalidate
  \/ \E t \in Threads : Stat(t) \/ Hit(t) \/ Read(t) \/ Merge(t) \/ Publish(t)
  \/ \E r \in Requests : Ask(r)
  \/ Patch \/ SaveWrite \/ SaveStat \/ GiveUp

Spec == Init /\ [][Next]_vars

-----------------------------------------------------------------------------
\* A configuration that is served from the cache is what the files say, but for the
\* fields that requests set on it and that a higher layer keeps out of the file, or
\* that a refused request left there, and unless a reload by another thread came
\* between a handler's load and the end of its save, or an edit of the file between its
\* write and its look at the file's time (config.py:1842-1944 and 2049-2072).
CacheIsTrue ==
  cache.key = Now /\ ~missed /\ task.pc # "stat" =>
    LET now == Effective(global.content, overrides.content)
    IN \A f \in ToSet(Fields) \ touched : cache.config[f] = now[f]

\* A value that only the active project's overrides set gets into the global file when a
\* save comes while another thread reloads, between its forgetting the overrides and its
\* reading them again, or when they changed since the handler looked at their file; and
\* at no other time (config.py:1899-1915 and 2023-2047).
GlobalStaysGlobal ==
  /\ task.pc = "save" /\ task'.pc = "stat" /\ task.project = overrides.version
  /\ \A t \in Threads : at[t].pc # "merge"
  => \A f \in DOMAIN overrides.content :
       IF f \in DOMAIN global.content
       THEN f \in DOMAIN global'.content /\ global'.content[f] = global.content[f]
       ELSE f \notin DOMAIN global'.content
=============================================================================
