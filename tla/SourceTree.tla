------------------------------ MODULE SourceTree ------------------------------
(* Which files of a project are indexed, and how a change of them is noticed:   *)
(* search/filters.py, merkle/merkle_dag.py, merkle/change_detector.py.          *)
(*                                                                              *)
(* A path is the sequence of its names.  A pattern as the user writes it is     *)
(*   [names, absolute, under]: whether it is absolute, and under the project.   *)
(* A disk maps the path of each file to [content, mtime, readable, supported].  *)
(* A hash is taken to be as good as what is hashed.                             *)
EXTENDS Integers, Sequences, FiniteSets, FiniteSetsExt, SequencesExt

CONSTANTS
  AlwaysIgnored,   \* names of directories that are never entered
  DefaultIgnored,  \* ... entered only when an include pattern asks for it
  DependencyDirs,  \* ... that hold the code of others
  IgnoredNames,    \* names of files that are never tracked
  Star, Deep       \* the wildcards * and **

------------------------------------------------------------------------------
(* Patterns.                                                                    *)

None == 0
Ancestor == 1     \* something below may match
Inside == 2

Parse(raws) ==
  {[names |-> r.names, anchored |-> r.absolute \/ Len(r.names) > 1] :
     r \in {p \in raws : p.names # <<>> /\ (p.absolute => p.under)}}

IsDependency(pattern) == ToSet(pattern.names) \cap DependencyDirs # {}

SegmentMatches(name, segment) == name \in {Star, Deep, segment}

\* With **: position i of the pattern against position j of the path.
MatchRec(names, path) ==
  LET rec[i \in 1..Len(names) + 1, j \in 1..Len(path) + 1] ==
        CASE i > Len(names) -> Inside
          [] i <= Len(names) /\ names[i] = Deep ->
               IF j > Len(path) THEN rec[i + 1, j] ELSE Max({rec[i + 1, j], rec[i, j + 1]})
          [] i <= Len(names) /\ names[i] # Deep /\ j > Len(path) -> Ancestor
          [] OTHER -> IF SegmentMatches(names[i], path[j]) THEN rec[i + 1, j + 1] ELSE None
  IN rec[1, 1]

MatchAnchored(names, path) ==
  IF Deep \in ToSet(names) THEN MatchRec(names, path)
  ELSE IF \E i \in 1..Min({Len(names), Len(path)}) : ~SegmentMatches(names[i], path[i]) THEN None
  ELSE IF Len(path) >= Len(names) THEN Inside ELSE Ancestor

\* A name alone matches at any depth, so anything may be above it.
MatchUnanchored(names, path) ==
  IF \E i \in DOMAIN path : SegmentMatches(names[1], path[i]) THEN Inside ELSE Ancestor

BestMatch(patterns, path) ==
  Max({None} \cup {IF p.anchored THEN MatchAnchored(p.names, path)
                                 ELSE MatchUnanchored(p.names, path) : p \in patterns})

------------------------------------------------------------------------------
(* PathFilter.  A filter is [include, exclude, exclusive], the first two sets of *)
(* parsed patterns.  Patterns that reach into the code of others only widen.     *)

Narrowing(filter) ==
  IF filter.exclusive THEN filter.include
  ELSE {p \in filter.include : ~IsDependency(p)}

\* Mutant: a directory has to be inside a pattern, as a file has to.
Required_Inside(isDir) == Inside
Required(isDir) == IF isDir THEN Ancestor ELSE Inside

Allowed(filter, path, isDir) ==
  LET names == ToSet(path)
      included == BestMatch(filter.include, path)
  IN /\ names \cap AlwaysIgnored = {}
     /\ BestMatch(filter.exclude, path) # Inside
     /\ Narrowing(filter) # {} => included >= Required(isDir)
     /\ names \cap DefaultIgnored # {} => included # None

\* only_dependency_paths_matched, dependency_segments: what a run that found
\* nothing but the code of others is warned about.
OnlyDependencies(filter, paths) ==
  /\ Narrowing(filter) # {} /\ paths # {}
  /\ \A p \in paths : ToSet(p) \cap DependencyDirs # {}
DependencySegments(paths) == UNION {ToSet(p) \cap DependencyDirs : p \in paths}

(* The filter of a search, by prefix; with FilterEngine's other criteria.  An    *)
(* absent criterion is an empty set.                                             *)

MatchesDirectoryFilter(path, include, exclude, traversal) ==
  /\ \A d \in exclude : ~IsPrefix(d, path)
  /\ include # {} => \E d \in include : IsPrefix(d, path) \/ (traversal /\ IsPrefix(path, d))

\* A chunk: its path, the patterns its path contains, type, tags, folders and the
\* values of other keys.
Matches(chunk, criteria) ==
  /\ MatchesDirectoryFilter(chunk.path, criteria.include, criteria.exclude, FALSE)
  /\ criteria.filePatterns # {} => criteria.filePatterns \cap chunk.contains # {}
  /\ criteria.chunkTypes # {} => chunk.type \in criteria.chunkTypes
  /\ criteria.tags # {} => criteria.tags \cap chunk.tags # {}
  /\ criteria.folders # {} => criteria.folders \cap chunk.folders # {}
  /\ \A k \in DOMAIN criteria.extra \cap DOMAIN chunk.others : chunk.others[k] = criteria.extra[k]

------------------------------------------------------------------------------
(* MerkleDAG.  unlistable: directories whose content cannot be read.            *)

Ancestors(path) == {SubSeq(path, 1, i) : i \in 1..Len(path) - 1}
Dirs(disk) == UNION {Ancestors(f) : f \in DOMAIN disk}
Ignored(filter, path, isDir) == Last(path) \in IgnoredNames \/ ~Allowed(filter, path, isDir)

\* A node is reached when no directory above it is ignored or unlistable.
Reached(filter, unlistable, path) ==
  <<>> \notin unlistable /\ \A d \in Ancestors(path) : d \notin unlistable /\ ~Ignored(filter, d, TRUE)
Files(filter, disk, unlistable) ==
  {f \in DOMAIN disk : Reached(filter, unlistable, f) /\ ~Ignored(filter, f, FALSE)}
Folders(filter, disk, unlistable) ==
  {d \in Dirs(disk) : Reached(filter, unlistable, d) /\ ~Ignored(filter, d, TRUE)}

Hash(kind, name, value, below) == [kind |-> kind, name |-> name, value |-> value, below |-> below]

\* An unreadable file is hashed by its time, one that is not indexed by its name
\* and its time.
HashFile(disk, f) ==
  LET file == disk[f]
  IN IF ~file.supported THEN Hash("stat", <<Last(f)>>, file.mtime, {})
     ELSE IF file.readable THEN Hash("content", <<>>, file.content, {})
     ELSE Hash("unreadable", <<>>, file.mtime, {})

\* A directory is hashed by its name and the hashes of what it holds, in order of
\* hash: the names of the files below do not count.
BuildNodes(filter, disk, unlistable) ==
  LET files == Files(filter, disk, unlistable)
      all == files \cup Folders(filter, disk, unlistable) \cup {<<>>}
      node[p \in all] ==
        IF p \in files THEN HashFile(disk, p)
        ELSE LET children == {c \in all : c # <<>> /\ Front(c) = p}
                 hashes == {node[c] : c \in children}
             IN Hash("dir", IF p = <<>> THEN <<>> ELSE <<Last(p)>>, 0,
                     {<<h, Cardinality({c \in children : node[c] = h})>> : h \in hashes})
  IN node

\* The snapshot keeps the filter the tree was built with.
Snapshot(filter, disk, unlistable) ==
  [nodes |-> BuildNodes(filter, disk, unlistable),
   files |-> Files(filter, disk, unlistable), filter |-> filter]
RootHash(dag) == dag.nodes[<<>>]

------------------------------------------------------------------------------
(* ChangeDetector.  request: a filter whose sides may be NotGiven ({NotGiven}).  *)

NotGiven == {"not given"}

CurrentFilter(request, old) ==
  LET inherited == request.include = NotGiven /\ old.filter.include # {}
      given(side) == IF side = NotGiven THEN {} ELSE side
  IN [include |-> IF inherited THEN old.filter.include ELSE given(request.include),
      exclude |-> IF request.exclude = NotGiven THEN old.filter.exclude ELSE request.exclude,
      exclusive |-> IF inherited THEN old.filter.exclusive ELSE request.exclusive]

DetectChanges(old, new) ==
  LET both == old.files \cap new.files
      modified == {f \in both : old.nodes[f] # new.nodes[f]}
  IN [added |-> new.files \ old.files, removed |-> old.files \ new.files,
      modified |-> modified, unchanged |-> both \ modified]

FilesToReindex(changes) == changes.added \cup changes.modified
FilesToRemove(changes) == changes.removed \cup changes.modified

QuickCheck(old, new) == RootHash(old) # RootHash(new)

ChangedDirectories(old, new) ==
  {d \in DOMAIN new.nodes \ new.files :
     d \notin DOMAIN old.nodes \ old.files \/ old.nodes[d] # new.nodes[d]}

------------------------------------------------------------------------------
(* Properties of an input: [kind |-> "filter", filter, disk], or                 *)
(* [kind |-> "change", filter, request, before, after, unlistable].              *)

\* No file that may be indexed lies in a directory the walk does not enter, for
\* the filter of the index and, by prefix, for that of a search.
WalkFindsAll(filter, disk) ==
  \A f \in DOMAIN disk : Allowed(filter, f, FALSE) =>
    \A d \in Ancestors(f) :
      /\ Allowed(filter, d, TRUE)
      /\ \A wanted \in Dirs(disk) :
           MatchesDirectoryFilter(f, {wanted}, {}, FALSE) => MatchesDirectoryFilter(d, {wanted}, {}, TRUE)

\* A file that is taken for unchanged and can be read has the content that is
\* indexed; one change of one file is never missed by the comparison of the roots;
\* and its directories are among the changed ones.
ChangesAreTold(old, new, before, after) ==
  LET changes == DetectChanges(old, new)
      changed == FilesToReindex(changes) \cup changes.removed
  IN /\ \A f \in changes.unchanged :
          after[f].supported /\ after[f].readable =>
            before[f].readable /\ before[f].content = after[f].content
     /\ Cardinality(changed) = 1 => QuickCheck(old, new)
     /\ QuickCheck(old, new) <=> <<>> \in ChangedDirectories(old, new)
     /\ \A f \in changes.modified :
          Cardinality(changed) = 1 => Ancestors(f) \subseteq ChangedDirectories(old, new)

\* Both, for an index built under a filter and looked at again under the filter of a
\* request: a filter that is not given is the one the index was built with
\* (change_detector.py:102-155).
TreeIsTold(in) ==
  IF in.kind = "filter" THEN WalkFindsAll(in.filter, in.disk)
  ELSE LET old == Snapshot(in.filter, in.before, {})
           current == CurrentFilter(in.request, old)
           new == Snapshot(current, in.after, in.unlistable)
       IN /\ in.request.include = NotGiven => current.include = in.filter.include
          /\ ChangesAreTold(old, new, in.before, in.after)
=============================================================================
