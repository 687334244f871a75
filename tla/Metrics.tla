------------------------------- MODULE Metrics -------------------------------
(* evaluation/metrics.py: what a benchmark says of a list of results.           *)
(*                                                                              *)
(* A score is a fraction <<numerator, denominator>>.  A result is a record of   *)
(* its file, its name (NoName for a module chunk), the names of the chunks it   *)
(* absorbed ("merged"), its lines and its community; an expected answer is its  *)
(* file and name, which is what the identifier of a result without its lines    *)
(* comes to.  Discount[i] is 1 / log2(i + 1), scaled to an integer.             *)
EXTENDS Integers, Sequences, FiniteSets, FiniteSetsExt, SequencesExt

CONSTANTS Discount, NoName, NoCommunity

Zero == <<0, 1>>
Ratio(n, d) == IF d = 0 THEN Zero ELSE <<n, d>>
Leq(p, q) == p[1] * q[2] <= q[1] * p[2]
Same(p, q) == p[1] * q[2] = q[1] * p[2]
Upto(s, k) == SubSeq(s, 1, Min({k, Len(s)}))

------------------------------------------------------------------------------
(* Each retrieved entry is the set of the identifiers it is credited with.      *)

Normalized(result) == [file |-> result.file, name |-> result.name]

Unrepeated(results) ==
  FoldLeft(LAMBDA kept, r :
             IF \E o \in ToSet(kept) : Normalized(o) = Normalized(r)
             THEN kept ELSE Append(kept, r), <<>>, results)

WithContainment(results, expected) ==
  LET first == Unrepeated(results)
      absorbed(r) == {g \in expected : g.name # NoName /\ g.file = r.file /\ g.name \in r.merged}
  IN [i \in DOMAIN first |-> {Normalized(first[i])} \cup absorbed(first[i])]

\* Members: the community of every chunk of the index that has a name.
CommunityMembers(index, community) ==
  {Normalized(o) : o \in {r \in index : r.community = community /\ r.name # NoName}}

WithCommunityCredit(results, expected, index) ==
  LET first == Unrepeated(results)
      credit(r) == IF r.community = NoCommunity THEN {}
                   ELSE expected \cap CommunityMembers(index, r.community)
  IN [i \in DOMAIN first |-> {Normalized(first[i])} \cup credit(first[i])]

\* What files a result stands for: a summary of a community stands for no file of
\* its own, or, generously, for every file of the community.
FileEntries(results, index) ==
  [strict |-> [i \in DOMAIN results |->
                 IF results[i].synthetic THEN {} ELSE {results[i].file}],
   expanded |-> [i \in DOMAIN results |->
                 IF results[i].synthetic
                 THEN IF results[i].community = NoCommunity THEN {}
                      ELSE {o.file : o \in {r \in index : r.community = results[i].community}}
                 ELSE {results[i].file}]]

ToFiles(entries) == [i \in DOMAIN entries |-> {id.file : id \in entries[i]}]

------------------------------------------------------------------------------
(* Scores by rank.                                                              *)

Flatten(entries) == UNION ToSet(entries)
Matched(entries, relevant, k) == Flatten(Upto(entries, k)) \cap relevant

Recall(entries, relevant, k) ==
  Ratio(Cardinality(Matched(entries, relevant, k)), Cardinality(relevant))
Precision(entries, relevant, k) == Ratio(Cardinality(Matched(entries, relevant, k)), k)
Acc(entries, relevant, k) ==
  IF relevant # {} /\ relevant \subseteq Flatten(Upto(entries, k)) THEN <<1, 1>> ELSE Zero

Hits(entries, relevant) == {i \in DOMAIN entries : entries[i] \cap relevant # {}}
Mrr(entries, relevant) ==
  LET hits == Hits(entries, relevant) IN IF hits = {} THEN Zero ELSE <<1, Min(hits)>>

Discounted(gains) == FoldLeftDomain(LAMBDA sum, i : sum + gains[i] * Discount[i], 0, gains)

Ndcg(entries, relevant, k) ==
  LET top == Upto(entries, k)
      gains == [i \in DOMAIN top |-> IF i \in Hits(top, relevant) THEN 1 ELSE 0]
      ideal == [i \in 1..Min({Cardinality(relevant), k}) |-> 1]
  IN Ratio(Discounted(gains), Discounted(ideal))

\* grades: the grade of each answer that has one.
GradedNdcg(entries, grades, k) ==
  LET gain(g) == 2 ^ g - 1
      top == Upto(entries, k)
      grade(entry) == Max({0} \cup {grades[id] : id \in entry \cap DOMAIN grades})
      ideal == Upto(SetToSortSeq({id \in DOMAIN grades : grades[id] > 0},
                                 LAMBDA x, y : grades[x] > grades[y]), k)
  IN Ratio(Discounted([i \in DOMAIN top |-> gain(grade(top[i]))]),
           Discounted([i \in DOMAIN ideal |-> gain(grades[ideal[i]])]))

\* NoName when the first k results do not hold both a positive and a negative.
HardNegativeIntrusion(entries, positive, negative, k) ==
  LET p == Hits(Upto(entries, k), positive)
      n == Hits(Upto(entries, k), negative)
  IN IF p = {} \/ n = {} THEN NoName ELSE Min(n) < Min(p)

\* What is reported of one query, with cut-offs k < l; primary: the answers that
\* the reciprocal rank is about.
MetricsFromResults(entries, expected, primary, grades, k, l) ==
  [recall |-> [j \in {1, k, l} |-> Recall(entries, expected, j)],
   precision |-> [j \in {1, k, l} |-> Precision(entries, expected, j)],
   mrr |-> Mrr(entries, primary),
   ndcg |-> [j \in {k, l} |-> Ndcg(entries, expected, j)],
   acc |-> [j \in {k, l} |-> Acc(entries, expected, j)],
   hit |-> Recall(entries, expected, k)[1] > 0,
   graded |-> [j \in {k, l} |-> GradedNdcg(entries, grades, j)],
   intrusion |-> HardNegativeIntrusion(entries, expected,
                                       {id \in DOMAIN grades : grades[id] = 1}, l)]

------------------------------------------------------------------------------
(* Scores by line: sequences of ranges <<first, last>>, both inclusive.         *)

SortedRanges(ranges) ==
  SortSeq(ranges, LAMBDA r, s : r[1] < s[1] \/ (r[1] = s[1] /\ r[2] < s[2]))

\* Mutant: a range inside an earlier one cuts that one short.
MergeRanges_LastEnd(ranges) ==
  LET sorted == SortedRanges(ranges)
      join(merged, r) ==
        IF r[1] <= Last(merged)[2] + 1
        THEN Append(Front(merged), <<Last(merged)[1], r[2]>>)
        ELSE Append(merged, r)
  IN IF ranges = <<>> THEN <<>> ELSE FoldLeft(join, <<sorted[1]>>, Tail(sorted))

MergeRanges(ranges) ==
  LET sorted == SortedRanges(ranges)
      join(merged, r) ==
        IF r[1] <= Last(merged)[2] + 1
        THEN Append(Front(merged), <<Last(merged)[1], Max({Last(merged)[2], r[2]})>>)
        ELSE Append(merged, r)
  IN IF ranges = <<>> THEN <<>> ELSE FoldLeft(join, <<sorted[1]>>, Tail(sorted))

\* The walk over both sequences, leaving the range that ends first; x and y are
\* how many ranges of each are behind.
IntersectRanges(p, q) ==
  LET step(w, n) ==
        IF w.x = Len(p) \/ w.y = Len(q) THEN w
        ELSE LET r == p[w.x + 1]
                 s == q[w.y + 1]
                 common == <<Max({r[1], s[1]}), Min({r[2], s[2]})>>
             IN [x |-> IF r[2] < s[2] THEN w.x + 1 ELSE w.x,
                 y |-> IF r[2] < s[2] THEN w.y ELSE w.y + 1,
                 found |-> IF common[1] <= common[2] THEN Append(w.found, common) ELSE w.found]
  IN FoldLeft(step, [x |-> 0, y |-> 0, found |-> <<>>],
              [n \in 1..Len(p) + Len(q) |-> n]).found

CountLines(ranges) == FoldLeft(LAMBDA sum, r : sum + r[2] - r[1] + 1, 0, ranges)

\* The lines of the results that still have an entry in the index; of several
\* entries with one identifier (the parts of one long function) the last counts.
LineLookup(index) ==
  [id \in {Normalized(o) : o \in ToSet(index)} |->
     index[Max({i \in DOMAIN index : Normalized(index[i]) = id})].lines]
RangesOf(results, lookup) ==
  LET known == SelectSeq(results, LAMBDA r : Normalized(r) \in DOMAIN lookup)
      lines(f) == SelectSeq(known, LAMBDA r : r.file = f)
  IN [f \in {r.file : r \in ToSet(known)} |->
        [i \in DOMAIN lines(f) |-> lookup[Normalized(lines(f)[i])]]]

\* retrieved and golden: per file, a sequence of ranges.
Overlap(retrieved, golden) ==
  MapThenSumSet(
    LAMBDA f : CountLines(IntersectRanges(MergeRanges(golden[f]), MergeRanges(retrieved[f]))),
    DOMAIN golden \cap DOMAIN retrieved)
MergedLines(ranges) == MapThenSumSet(LAMBDA f : CountLines(MergeRanges(ranges[f])), DOMAIN ranges)

LineRecall(retrieved, golden) == Ratio(Overlap(retrieved, golden), MergedLines(golden))
LinePrecision(retrieved, golden) ==
  Ratio(Overlap(retrieved, golden), MapThenSumSet(LAMBDA f : CountLines(retrieved[f]), DOMAIN retrieved))
LineIou(retrieved, golden) ==
  LET both == Overlap(retrieved, golden)
  IN Ratio(both, MergedLines(golden) + MergedLines(retrieved) - both)

------------------------------------------------------------------------------
(* Scores over several queries.                                                 *)

\* rows: what is reported of each query.  The mean of a score every query has.
Mean(rows, score(_)) ==
  LET sum == FoldLeft(LAMBDA p, r : <<p[1] * score(r)[2] + score(r)[1] * p[2], p[2] * score(r)[2]>>,
                      Zero, rows)
  IN <<sum[1], sum[2] * Len(rows)>>

Aggregate(rows, k, thresholds) ==
  LET some == SelectSeq(rows, LAMBDA r : r.intrusion # NoName)
      one(p) == IF p THEN <<1, 1>> ELSE Zero
      recall == Mean(rows, LAMBDA r : r.recall[k])
      mrr == Mean(rows, LAMBDA r : r.mrr)
      hits == Mean(rows, LAMBDA r : one(r.hit))
  IN [recall |-> recall, mrr |-> mrr, hitRate |-> hits,
      intrusionRate |-> IF some = <<>> THEN NoName ELSE Mean(some, LAMBDA r : one(r.intrusion)),
      pass |-> [mrr |-> Leq(thresholds.mrr, mrr), recall |-> Leq(thresholds.recall, recall),
                hitRate |-> Leq(thresholds.hitRate, hits)]]

------------------------------------------------------------------------------
(* Properties of an input.                                                      *)

LinesIn(ranges) == UNION {r[1]..r[2] : r \in ToSet(ranges)}
AllLines(ranges) == UNION {{f} \X LinesIn(ranges[f]) : f \in DOMAIN ranges}

\* The scores by line are the sizes of the sets of lines they stand for, whatever
\* the order and the overlap of the ranges.
LinesAreCounted(retrieved, golden) ==
  LET both == Cardinality(AllLines(retrieved) \cap AllLines(golden))
      either == Cardinality(AllLines(retrieved) \cup AllLines(golden))
  IN /\ Same(LineRecall(retrieved, golden), Ratio(both, Cardinality(AllLines(golden))))
     /\ Same(LineIou(retrieved, golden), Ratio(both, either))
     /\ Leq(LinePrecision(retrieved, golden), Ratio(both, Cardinality(AllLines(retrieved))))

\* The scores by rank agree with each other: a later cut-off never lowers recall;
\* everything is found exactly when recall is one; a hit is a reciprocal rank of
\* at least 1/k; the discounted gain is at most one, and is one exactly when the
\* answers come first; no credit makes a list worse.
RanksAgree(results, expected, index, k, l) ==
  LET plain == WithContainment(results, {})
      credited == WithCommunityCredit(results, expected, index)
      grades == [id \in expected |-> 2]
      m == MetricsFromResults(plain, expected, expected, grades, k, l)
      asFiles == FileEntries(Unrepeated(results), index)
      files == {id.file : id \in expected}
  IN /\ Leq(m.recall[1], m.recall[k]) /\ Leq(m.recall[k], m.recall[l])
     /\ \A j \in {k, l} : m.acc[j] = <<1, 1>> <=> expected # {} /\ Same(m.recall[j], <<1, 1>>)
     /\ m.hit <=> Leq(<<1, k>>, m.mrr) /\ m.mrr # Zero
     /\ \A j \in {1, k, l} : Leq(m.recall[j], <<1, 1>>) /\ Leq(m.precision[j], <<1, 1>>)
     /\ \A j \in {k, l} :
          /\ Leq(m.ndcg[j], <<1, 1>>) /\ Same(m.ndcg[j], m.graded[j])
          /\ Same(m.ndcg[j], <<1, 1>>)
             <=> expected # {} /\ \A i \in 1..Min({j, Cardinality(expected)}) :
                                   i \in Hits(plain, expected)
     /\ Leq(m.mrr, Mrr(credited, expected))
     /\ \A j \in {k, l} : Leq(m.recall[j], Recall(credited, expected, j))
     /\ \A j \in {k, l} :
          Leq(Recall(asFiles.strict, files, j), Recall(asFiles.expanded, files, j))
     /\ \A j \in {k, l} :
          Same(Recall(ToFiles(plain), files, j), Recall(asFiles.strict, files, j))

\* Over several queries: no more queries are hit than are counted, recall never
\* exceeds the hit rate, and the verdicts follow.
MeansAgree(rows, k, thresholds) ==
  LET agg == Aggregate(rows, k, thresholds)
  IN /\ Leq(agg.recall, agg.hitRate) /\ Leq(agg.mrr, <<1, 1>>)
     /\ (\A i \in DOMAIN rows : Same(rows[i].recall[k], <<1, 1>>)) => agg.pass.hitRate

\* The scores mean what their names say, for each kind of input.
ScoresAgree(in) ==
  IF in.kind = "lines" THEN LinesAreCounted(in.retrieved, in.golden)
  ELSE LET plain == WithContainment(in.results, {})
           grades == [id \in in.expected |-> 2] @@ [id \in in.worse |-> 1]
           row(expected) == MetricsFromResults(plain, expected, expected, grades, 2, 3)
           ranges == RangesOf(in.results, LineLookup(in.index))
       IN /\ RanksAgree(in.results, in.expected, ToSet(in.index), 2, 3)
          /\ MeansAgree(<<row(in.expected), row(in.worse)>>, 2,
                        [mrr |-> <<1, 2>>, recall |-> <<7, 10>>, hitRate |-> <<8, 10>>])
          /\ row(in.expected).intrusion = TRUE => row(in.expected).mrr # <<1, 1>>
          /\ LinesAreCounted(ranges, ranges)
=============================================================================
