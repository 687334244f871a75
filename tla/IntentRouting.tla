---------------------------- MODULE IntentRouting ----------------------------
(***************************************************************************)
(* What a query is taken to ask for, and what the search then does         *)
(* (search/intent_classifier.py, SearchPlanner in search_orchestrator.py). *)
(*                                                                         *)
(* A query is what its text matches: for each intent the keywords in it    *)
(* and the sum of its patterns' weights, the identifiers in it by the way  *)
(* they are written, and the symbol that a phrase like "what calls X"      *)
(* names, with Nothing for none.  Scores are in hundredths of a percent,   *)
(* everything else in percent.                                             *)
(***************************************************************************)
EXTENDS Integers, Sequences, FiniteSets, FiniteSetsExt, SequencesExt

CONSTANTS
  Precedence,     \* the intents, the one that wins a tie first
  Weight,         \* of each intent's rule
  CacheSize,      \* models whose anchors are kept
  Nothing

Intents == ToSet(Precedence)

\* What a query may be: an anchor is like it by some percent, a model has anchors for some
\* intents, and a decision needs some confidence.
Token == [style : {"camel", "dotted", "snake", "upper", "word"}, common : BOOLEAN]
Anchors == {A \in SUBSET [like : Int, fails : BOOLEAN] : IsFiniteSet(A)}
IsEntry(e) == DOMAIN e.anchors \subseteq Intents /\ \A i \in DOMAIN e.anchors : e.anchors[i] \in Anchors \ {{}}
Fields == {"keywords", "patterns", "tokens", "named", "words", "semantic", "embeds", "model", "cache", "anchors",
           "threshold", "share", "default", "k", "maxK", "hops", "mode", "ego", "lookup"}
IsQuery(in) ==
  /\ DOMAIN in = Fields
  /\ in.keywords \in [Intents -> Nat] /\ in.patterns \in [Intents -> Nat]
  /\ in.tokens \in Seq(Token) /\ in.anchors \in [Intents -> Anchors]
  /\ in.cache \in Seq(ToSet(in.cache)) /\ Len(in.cache) <= CacheSize /\ \A e \in ToSet(in.cache) : IsEntry(e)
  /\ in.share \in 0 .. 100 /\ in.threshold \in 1 .. 100 /\ {in.k, in.maxK, in.words} \subseteq Nat
  /\ {in.semantic, in.embeds, in.ego} \subseteq BOOLEAN

-----------------------------------------------------------------------------
(* Scores from words.                                                       *)

\* The identifiers of a style that are no common words.
Written(in, styles) == {n \in DOMAIN in.tokens : ~in.tokens[n].common /\ in.tokens[n].style \in styles}

DetectCodeSymbols(in) ==
  Min({5000, 2500 * Cardinality(Written(in, {"camel", "dotted"})) + 2000 * Cardinality(Written(in, {"snake"}))
               + 1500 * Cardinality(Written(in, {"upper"}))})

\* Symbols count where nothing else does.
CalculateScores(in) ==
  LET matched(i) == Min({10000, (10 * in.keywords[i] + in.patterns[i]) * Weight[i]})
      silent == \A i \in Intents : matched(i) < 1500
  IN [i \in Intents |->
        IF i = "local" /\ silent THEN Min({10000, matched(i) + DetectCodeSymbols(in)}) ELSE matched(i)]

-----------------------------------------------------------------------------
(* Scores from anchors: queries of each intent, which the model embeds      *)
(* once.  An anchor is how like the query it is, and whether the model      *)
(* failed to embed it when it was its turn.                                 *)

\* _load_anchor_embeddings: those that fail are left out for as long as the rest is kept.
Embedded(in) ==
  LET some(i) == {a \in in.anchors[i] : ~a.fails}
  IN [i \in {j \in Intents : some(j) # {}} |-> some(i)]

\* The cache, oldest entry first; a classifier takes what it has for the model.
Kept(in) == {n \in DOMAIN in.cache : in.cache[n].model = in.model}
EntryOf(in) == in.cache[Min(Kept(in))]
AnchorEmbeddings(in) == IF Kept(in) # {} THEN EntryOf(in).anchors ELSE Embedded(in)
CacheAfter(in) ==
  IF ~in.semantic \/ Kept(in) # {} THEN in.cache
  ELSE Append(IF Len(in.cache) >= CacheSize THEN Tail(in.cache) ELSE in.cache,
              [model |-> in.model, anchors |-> Embedded(in)])

CalculateSemanticScores_FailsZero(in) ==
  [i \in DOMAIN AnchorEmbeddings(in) |-> IF in.embeds THEN Max({a.like : a \in AnchorEmbeddings(in)[i]}) ELSE 0]

CalculateSemanticScores(in) ==
  IF ~in.embeds THEN <<>>
  ELSE [i \in DOMAIN AnchorEmbeddings(in) |-> Max({a.like : a \in AnchorEmbeddings(in)[i]})]

\* An anchor unlike the query counts as one not like it.
Likeness(semantic) == [i \in Intents |-> IF i \in DOMAIN semantic THEN Max({0, semantic[i]}) ELSE 0]

\* The weighted mean.
EnsembleScores(in, keyword, semantic) ==
  [i \in Intents |-> ((100 - in.share) * keyword[i] + in.share * 100 * Likeness(semantic)[i]) \div 100]

SemanticScores(in) == IF in.semantic THEN CalculateSemanticScores(in) ELSE <<>>

Combined(in, keyword, semantic) ==
  IF semantic = <<>> THEN keyword ELSE EnsembleScores(in, keyword, semantic)
Scores(in) == Combined(in, CalculateScores(in), SemanticScores(in))

-----------------------------------------------------------------------------
(* The decision.                                                            *)

Best(scores) == Max({scores[i] : i \in Intents})

ResolveTie_Lowest(scores) ==
  Precedence[Max({n \in DOMAIN Precedence : Best(scores) - scores[Precedence[n]] < 500})]

\* Of the intents within 5 % of the best the first in precedence.
ResolveTie(scores) ==
  Precedence[Min({n \in DOMAIN Precedence : Best(scores) - scores[Precedence[n]] < 500})]

\* A lookup with many words is doubted, after the ties are resolved.
Confidence(in, intent, score) ==
  IF intent = "local" /\ in.words > 8 THEN (7 * score) \div 10 ELSE score
Decision(in, intent, confidence) ==
  IF confidence >= 100 * in.threshold
  THEN [intent |-> intent, confidence |-> confidence, decided |-> TRUE]
  ELSE [intent |-> in.default, confidence |-> confidence, decided |-> FALSE]
Decide(in, scores, chosen) ==
  IF Best(scores) = 0
  THEN [intent |-> in.default, confidence |-> 0, decided |-> FALSE]
  ELSE Decision(in, chosen, Confidence(in, chosen, scores[chosen]))
Weighed(in, scores) == Decide(in, scores, ResolveTie(scores))
Classify(in) == Weighed(in, Scores(in))

\* _extract_symbol_from_query: the one a phrase names, else the last of those most like a
\* symbol.
RankOf(token) == CASE token.style \in {"camel", "dotted"} -> 2 [] token.style = "snake" -> 1
                   [] token.style = "upper" -> 0 [] token.style = "word" -> -1
ExtractSymbol(in) ==
  LET symbols == {n \in DOMAIN in.tokens : ~in.tokens[n].common /\ RankOf(in.tokens[n]) >= 0}
      best == {n \in symbols : \A o \in symbols : RankOf(in.tokens[o]) <= RankOf(in.tokens[n])}
  IN IF in.named # Nothing THEN in.named
     ELSE IF symbols = {} THEN Nothing ELSE in.tokens[Max(best)]

\* _extract_suggested_params, as far as the planner reads it: nothing for a default.
Suggested(in, d) ==
  [k      |-> IF d.decided /\ d.intent = "global" THEN 10 ELSE 0,
   mode   |-> IF d.decided /\ d.intent \in {"global", "local"} THEN "hybrid" ELSE Nothing,
   symbol |-> IF d.decided /\ d.intent \in {"navigational", "similarity", "contextual"}
              THEN ExtractSymbol(in) ELSE Nothing,
   ego    |-> d.decided /\ d.intent = "contextual"]

Applied(in, d, s) ==
  [intent |-> d.intent,
   k      |-> IF d.intent = "global" THEN Max({Min({in.k, in.maxK}), s.k}) ELSE Min({in.k, in.maxK}),
   mode   |-> IF in.mode = "auto" /\ s.mode # Nothing THEN s.mode ELSE in.mode,
   ego    |-> in.ego \/ s.ego,
   hops   |-> IF s.ego THEN 2 ELSE in.hops,
   symbol |-> IF d.intent = "similarity" /\ d.confidence >= 100 * in.threshold THEN s.symbol ELSE Nothing]
Plan(in, d) == Applied(in, d, Suggested(in, d))

\* run(): a search for the symbol, the best result of which is compared with the code; the
\* search that was asked for if there is none or it fails.
Answered(in, plan) == IF plan.symbol # Nothing /\ in.lookup = "finds" THEN "similar" ELSE "search"

-----------------------------------------------------------------------------
Before(i, j) == \E m, n \in DOMAIN Precedence : m < n /\ Precedence[m] = i /\ Precedence[n] = j

WellChosen(d, keyword, like) ==
  /\ keyword[d.intent] > 0 \/ like[d.intent] > 0
  /\ ~\E i \in Intents : Before(i, d.intent) /\ keyword[i] >= keyword[d.intent] /\ like[i] >= like[d.intent]

TakesNothingAway(in, plan) ==
  /\ plan.k >= Min({in.k, in.maxK}) /\ plan.k <= Max({in.maxK, 10})
  /\ in.ego => plan.ego
  /\ in.mode # "auto" => plan.mode = in.mode
  /\ Answered(in, plan) = "similar" =>
       plan.intent = "similarity" /\ (in.named # Nothing \/ Written(in, {"camel", "dotted", "snake", "upper"}) # {})

Reasoned(in, d, keyword, semantic) ==
  LET Unasked == [in EXCEPT !.semantic = FALSE]
      Alone == [in EXCEPT !.cache = IF Kept(in) = {} THEN <<>> ELSE <<EntryOf(in)>>]
      Again(cache) == [in EXCEPT !.cache = cache]
  IN /\ d.decided => WellChosen(d, keyword, Likeness(semantic))
     /\ \A other \in {Alone, Again(CacheAfter(in))} \cup (IF in.embeds THEN {} ELSE {Unasked}) :
          d = Classify(other)
     /\ Len(CacheAfter(in)) <= CacheSize
     /\ TakesNothingAway(in, Plan(in, d))

\* A query is routed for a reason.  No intent is passed over for one that comes after it in
\* precedence although its words match and its anchors are like the query at least as well;
\* what is decided has signs of its own in the query or its anchors; a model that cannot
\* embed the query changes nothing of what the words say, and one model's anchors never
\* count for another; and the plan takes nothing away from what was asked for: results,
\* context or a search mode, nor the search itself unless a chunk was found to compare with
\* (intent_classifier.py:242-300, 308-510 and 560-672, search_orchestrator.py:129-206, 652-677).
RoutingIsReasoned(in) == Reasoned(in, Classify(in), CalculateScores(in), SemanticScores(in))
=============================================================================
