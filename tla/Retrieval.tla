------------------------------ MODULE Retrieval ------------------------------
(***************************************************************************)
(* Retrieval for a question (retrieval/pipeline.py, search.py, rerank.py): *)
(* the question is rewritten into sub-queries, their hits are merged and   *)
(* cut to the best, and a reranker orders them: Cohere, or the LLM when    *)
(* Cohere is off or fails.  Scores are cached by position for ten minutes. *)
(*                                                                         *)
(* Dense scores are whole numbers and final scores count halves of them,   *)
(* so that half of a dense score is a number too.  A final score is a      *)
(* record of its value, of what produced it and of the hit it was for.     *)
(***************************************************************************)
EXTENDS Integers, Sequences, FiniteSets, SequencesExt, Orders

CONSTANTS
  Searches,         \* calls of retrieve_and_rerank
  Questions,
  HitLists,         \* what a search may find: sequences of [id, dense], best first
  Judgements,       \* final scores a reranker may give, in halves
  MaxQueries,       \* bound: sub-queries of a question (three in the code)
  TopSearch,        \* top_k_search
  TopFinal,         \* top_k_final
  MaxCandidates,    \* rerank_max_candidates
  CohereEnabled,
  MaxSearchFaults   \* bound: calls of Redis, Qdrant or a provider that raise

Hits == UNION {ToSet(list) : list \in HitLists}

ASSUME RetrievalAssumption ==
  /\ HitLists \subseteq Seq(Hits) /\ \A h \in Hits : h.dense \in Int
  /\ \A list \in HitLists : Len(list) <= TopSearch
  /\ Judgements \subseteq Nat
  /\ MaxQueries \in 1 .. 3 /\ TopSearch \in Nat \ {0}
  /\ TopFinal \in Nat \ {0} /\ MaxCandidates \in Nat \ {0}
  /\ CohereEnabled \in BOOLEAN /\ MaxSearchFaults \in Nat

VARIABLES
  rpc,            \* where each call is
  question,       \* what it is asked
  found,          \* the hits of each sub-query
  pool,           \* the candidates for reranking
  by,             \* the reranker in use
  judged,         \* its scores, by position, before they are cached
  ranked,         \* the result
  scoreCache,     \* set of <<key, scores by position>> (cache)
  searchFaults    \* faults so far (bounded by MaxSearchFaults)

retrievalVars == <<rpc, question, found, pool, by, judged, ranked, scoreCache,
                   searchFaults>>

Flat(s) == FlattenSeq(found[s])
Ids(list) == [i \in DOMAIN list |-> list[i].id]

RetrievalTypeOK ==
  /\ rpc \in [Searches -> {"new", "rewrite", "search", "rank", "save", "done", "failed"}]
  /\ question \in [Searches -> Questions]
  /\ by \in [Searches -> {"cohere", "llm"}]
  /\ \A s \in Searches :
       /\ Len(found[s]) <= MaxQueries /\ ToSet(found[s]) \subseteq HitLists \cup {<<>>}
       /\ Len(pool[s]) <= MaxCandidates /\ Len(ranked[s]) <= TopFinal
       /\ ToSet(pool[s]) \subseteq ToSet(Flat(s))
       /\ DOMAIN judged[s] \subseteq DOMAIN pool[s]
  /\ \A e \in scoreCache : e[1].by \in {"cohere", "llm"} /\ e[1].question \in Questions
  /\ searchFaults \in 0 .. MaxSearchFaults

RetrievalInit ==
  /\ rpc = [s \in Searches |-> "new"]
  /\ question \in [Searches -> Questions]
  /\ found = [s \in Searches |-> <<>>] /\ pool = [s \in Searches |-> <<>>]
  /\ by = [s \in Searches |-> IF CohereEnabled THEN "cohere" ELSE "llm"]
  /\ judged = [s \in Searches |-> <<>>] /\ ranked = [s \in Searches |-> <<>>]
  /\ scoreCache = {}
  /\ searchFaults = 0

Place(s, place) == rpc' = [rpc EXCEPT ![s] = place]

\* The domain of score by descending score, ties in order of position, as
\* Python's stable sort with reverse=True leaves them.
Descending(score) ==
  LET Before(j, i) == score[j] > score[i] \/ (score[j] = score[i] /\ j < i)
  IN  Sorted(DOMAIN score, Before)

Cut(list, n) == SubSeq(list, 1, IF Len(list) < n THEN Len(list) ELSE n)

-----------------------------------------------------------------------------
Retrieve(s) ==
  /\ rpc[s] = "new" /\ Place(s, "rewrite")
  /\ UNCHANGED <<question, found, pool, by, judged, ranked, scoreCache, searchFaults>>

\* rewrite_query: at most MaxQueries sub-queries from the LLM or from an earlier
\* call's cached answer, or the question itself when there are none.
Rewrite(s) ==
  /\ rpc[s] = "rewrite" /\ Place(s, "search")
  /\ \E n \in 1 .. MaxQueries : found' = [found EXCEPT ![s] = [i \in 1 .. n |-> <<>>]]
  /\ UNCHANGED <<question, pool, by, judged, ranked, scoreCache, searchFaults>>

\* One hit per point at its best score, in the order of their first appearance.
Merged(flat) ==
  LET firsts == {i \in DOMAIN flat : \A j \in 1 .. i - 1 : flat[j].id # flat[i].id}
      Same(i) == {j \in DOMAIN flat : flat[j].id = flat[i].id}
      Best(i) == CHOOSE j \in Same(i) : \A k \in Same(i) :
                   flat[j].dense > flat[k].dense \/ (flat[j].dense = flat[k].dense /\ j <= k)
      order == Descending([i \in firsts |-> flat[Best(i)].dense])
  IN  [k \in DOMAIN order |-> flat[Best(order[k])]]

\* Mutant of Candidates: a point keeps the score it was first found with.
CandidatesFirst(flat) ==
  LET firsts == {i \in DOMAIN flat : \A j \in 1 .. i - 1 : flat[j].id # flat[i].id}
      order == Descending([i \in firsts |-> flat[i].dense])
  IN  Cut(Cut([k \in DOMAIN order |-> flat[order[k]]], 2 * TopSearch), MaxCandidates)

Candidates(flat) == Cut(Cut(Merged(flat), 2 * TopSearch), MaxCandidates)

\* A single candidate is not reranked.
Search(s) ==
  /\ rpc[s] = "search"
  /\ \E lists \in [DOMAIN found[s] -> HitLists] :
       LET best == Candidates(FlattenSeq(lists)) IN
       /\ found' = [found EXCEPT ![s] = lists]
       /\ pool' = [pool EXCEPT ![s] = best]
       /\ Place(s, IF Len(best) < 2 THEN "done" ELSE "rank")
       /\ ranked' = IF Len(best) # 1 THEN ranked
                    ELSE [ranked EXCEPT ![s] =
                            <<[id |-> best[1].id, value |-> 2 * best[1].dense,
                               from |-> "dense", of |-> best[1].id]>>]
  /\ UNCHANGED <<question, by, judged, scoreCache, searchFaults>>

\* Mutant of Key: the candidates are put in a canonical order first.
KeyOfSet(s) ==
  [by |-> by[s], question |-> question[s], ids |-> ToSet(Ids(pool[s]))]

Key(s) == [by |-> by[s], question |-> question[s], ids |-> Ids(pool[s])]

\* _materialize: half the dense score for a candidate without a score.
Materialize(s, scores) ==
  LET Entry(i) == IF i \in DOMAIN scores
                  THEN [id |-> pool[s][i].id, value |-> scores[i].value,
                        from |-> scores[i].from, of |-> scores[i].of]
                  ELSE [id |-> pool[s][i].id, value |-> pool[s][i].dense,
                        from |-> "dense", of |-> pool[s][i].id]
      order == Descending([i \in DOMAIN pool[s] |-> Entry(i).value])
  IN  Cut([k \in DOMAIN order |-> Entry(order[k])], TopFinal)

FinishRanking(s, scores) ==
  Place(s, "done") /\ ranked' = [ranked EXCEPT ![s] = Materialize(s, scores)]

CachedRanking(s) ==
  /\ rpc[s] = "rank"
  /\ \E e \in scoreCache : e[1] = Key(s) /\ FinishRanking(s, e[2])
  /\ UNCHANGED <<question, found, pool, by, judged, scoreCache, searchFaults>>

\* Mutant of Scored: only the scores of the best TopFinal are asked of Cohere.
ScoredTop(s) ==
  IF by[s] = "cohere" THEN {P \in SUBSET (DOMAIN pool[s]) : Cardinality(P) = TopFinal}
  ELSE SUBSET (DOMAIN pool[s])

\* Cohere is asked for all of its scores; the LLM may leave out what it likes,
\* and all of it when its answer is no JSON.
Scored(s) ==
  IF by[s] = "cohere" THEN {DOMAIN pool[s]} ELSE SUBSET (DOMAIN pool[s])

Score(s) ==
  /\ rpc[s] = "rank" /\ \A e \in scoreCache : e[1] # Key(s)
  /\ \E P \in Scored(s) : \E value \in [P -> Judgements] :
       judged' = [judged EXCEPT ![s] =
         [i \in P |-> [value |-> value[i], from |-> by[s], of |-> pool[s][i].id]]]
  /\ Place(s, "save")
  /\ UNCHANGED <<question, found, pool, by, ranked, scoreCache, searchFaults>>

SaveScores(s) ==
  /\ rpc[s] = "save" /\ FinishRanking(s, judged[s])
  /\ scoreCache' = IF DOMAIN judged[s] = {} THEN scoreCache
                   ELSE {e \in scoreCache : e[1] # Key(s)} \cup {<<Key(s), judged[s]>>}
  /\ UNCHANGED <<question, found, pool, by, judged, searchFaults>>

\* The time to live of a cached entry passes.
ForgetScores ==
  /\ \E e \in scoreCache : scoreCache' = scoreCache \ {e}
  /\ UNCHANGED <<rpc, question, found, pool, by, judged, ranked, searchFaults>>

SearchFault == searchFaults < MaxSearchFaults /\ searchFaults' = searchFaults + 1

\* Cohere, or Redis beneath it, raises: the LLM ranks instead.
CohereFails(s) ==
  /\ rpc[s] \in {"rank", "save"} /\ by[s] = "cohere" /\ SearchFault
  /\ by' = [by EXCEPT ![s] = "llm"] /\ judged' = [judged EXCEPT ![s] = <<>>]
  /\ Place(s, "rank")
  /\ UNCHANGED <<question, found, pool, ranked, scoreCache>>

RetrievalFails(s) ==
  /\ \/ rpc[s] \in {"rewrite", "search"}
     \/ rpc[s] \in {"rank", "save"} /\ by[s] = "llm"
  /\ SearchFault /\ Place(s, "failed")
  /\ UNCHANGED <<question, found, pool, by, judged, ranked, scoreCache>>

RetrievalStep(s) == Rewrite(s) \/ Search(s) \/ CachedRanking(s) \/ Score(s) \/ SaveScores(s)

RetrievalNext ==
  \/ ForgetScores
  \/ \E s \in Searches : Retrieve(s) \/ RetrievalStep(s) \/ CohereFails(s) \/ RetrievalFails(s)

RetrievalSpec == RetrievalInit /\ [][RetrievalNext]_retrievalVars

-----------------------------------------------------------------------------
\* A score in a result was given for that hit, whether it comes from the cache,
\* which knows positions only, or from a reranker, and the scores of two
\* rerankers are never compared (rerank.py:77-81, 121-142, 160-184, 208-213).
ScoresBelongToHits ==
  \A s \in Searches : \A i, j \in DOMAIN ranked[s] :
    /\ ranked[s][i].of = ranked[s][i].id
    /\ ranked[s][i].from \in {"dense", by[s]}
    /\ i < j => /\ ranked[s][i].id # ranked[s][j].id
                /\ ranked[s][i].value >= ranked[s][j].value

\* A result ranked by Cohere has no dense score among its scores, whoever put
\* them into the cache (rerank.py:166-174).
CohereScoresAll ==
  \A s \in Searches : rpc[s] = "done" /\ by[s] = "cohere" /\ Len(pool[s]) > 1
    => \A i \in DOMAIN ranked[s] : ranked[s][i].from = "cohere"

\* What any sub-query found is a candidate at the best score it was found with,
\* unless the pool is full of candidates that scored as well (pipeline.py:100-108,
\* rerank.py:204-206).
BestAreCandidates ==
  \A s \in Searches : rpc[s] \in {"rank", "save", "done"} =>
    \A i \in DOMAIN Flat(s) :
      \/ \E c \in ToSet(pool[s]) : c.id = Flat(s)[i].id /\ c.dense >= Flat(s)[i].dense
      \/ /\ Len(pool[s]) \in {2 * TopSearch, MaxCandidates}
         /\ \A c \in ToSet(pool[s]) : c.dense >= Flat(s)[i].dense
=============================================================================
