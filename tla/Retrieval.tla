----------------------------- MODULE Retrieval ------------------------------
(***************************************************************************)
(* From two rankings of fragments, one per engine, to the lot of a         *)
(* question (HybridSearch, Retriever, plafonner_secondaires).             *)
(*                                                                         *)
(* A fragment is named by its chunk_id.                                    *)
(***************************************************************************)
EXTENDS Integers, SequencesExt

CONSTANTS
    Bm25TopK, DenseTopK,        \* fragments asked of each engine
    Bm25Weight, DenseWeight,    \* weights of the fusion, in percent
    RrfK,                       \* rrf_k
    SearchTopK,                 \* fragments kept by the fusion
    FusionTopK,                 \* fragments given to the reranker
    RerankTopN,                 \* fragments of a lot
    Ceiling,                    \* plafond_secondaires; 0 for none
    Secondary(_),               \* the fragment is of a summary document
    IsToc(_)                    \* it is a table of contents (_est_sommaire)

\* Weights may be 0, the lot holds a fragment at least (`or self.rerank_top_n`).
ASSUME RetrievalAssumption ==
    /\ {Bm25TopK, DenseTopK, Bm25Weight, DenseWeight, SearchTopK, FusionTopK, Ceiling} \subseteq Nat
    /\ {RrfK, RerankTopN} \subseteq Nat \ {0}

Ranked(S, n) == {s \in SeqOf(S, n) : IsInjective(s)}

\* BM25 finds some fragments, the vectors rank all of them; an engine that fails
\* or has no such index finds nothing.
Bm25Rankings(S) == Ranked(S, Bm25TopK)
DenseRankings(S) ==
    {s \in Ranked(S, DenseTopK) :
        Len(s) \in {0, IF Cardinality(S) < DenseTopK THEN Cardinality(S) ELSE DenseTopK}}

\* _rrf_fusion, in whole numbers: the terms are multiplied by a common multiple of
\* their denominators.
Deepest == IF Bm25TopK < DenseTopK THEN DenseTopK ELSE Bm25TopK
Product[n \in 0..Deepest] == IF n = 0 THEN 1 ELSE Product[n - 1] * (RrfK + n)
Multiple == Product[Deepest]
Rank(s, c) == CHOOSE r \in DOMAIN s : s[r] = c
Share(weight, s, c) == IF c \in Range(s) THEN weight * (Multiple \div (RrfK + Rank(s, c))) ELSE 0

\* Mutant: the second engine counts for new fragments only.
ScoreOfFirst(bm25, dense, c) ==
    IF c \in Range(bm25) THEN Share(Bm25Weight, bm25, c) ELSE Share(DenseWeight, dense, c)
Score(bm25, dense, c) == Share(Bm25Weight, bm25, c) + Share(DenseWeight, dense, c)

\* Where a fragment comes in the dictionary of the scores: those of the first engine,
\* then the new ones of the second.
Seen(bm25, dense) == Range(bm25) \cup Range(dense)
Turn(bm25, dense, c) ==
    IF c \in Range(bm25) THEN Rank(bm25, c) ELSE Len(bm25) + Rank(dense, c)

\* A stable sort by descending score: each fragment after those that precede it.
Precedes(bm25, dense, a, b) ==
    \/ Score(bm25, dense, a) > Score(bm25, dense, b)
    \/ /\ Score(bm25, dense, a) = Score(bm25, dense, b)
       /\ Turn(bm25, dense, a) < Turn(bm25, dense, b)
Position(bm25, dense, c) ==
    1 + Cardinality({b \in Seen(bm25, dense) : Precedes(bm25, dense, b, c)})
Least(m, n) == IF m < n THEN m ELSE n
Fused(bm25, dense) ==
    [p \in 1..Least(Cardinality(Seen(bm25, dense)), SearchTopK) |->
        CHOOSE c \in Seen(bm25, dense) : Position(bm25, dense, c) = p]

Candidates(fused) == [p \in 1..Least(Len(fused), FusionTopK) |-> fused[p]]

\* plafonner_secondaires, of fragments in the order of the reranker.
Count(s) == Cardinality({i \in DOMAIN s : Secondary(s[i])})
PassedOver(kept, c) ==
    \/ Len(kept) >= RerankTopN
    \/ IsToc(c)
    \/ Ceiling > 0 /\ Secondary(c) /\ Count(kept) >= Ceiling
WithinCeiling(s) ==
    LET kept[n \in 0..Len(s)] ==
            IF n = 0 THEN <<>>
            ELSE IF PassedOver(kept[n - 1], s[n]) THEN kept[n - 1]
            ELSE Append(kept[n - 1], s[n])
    IN  kept[Len(s)]

-----------------------------------------------------------------------------
(* Properties of a retrieval. *)

\* A fragment that neither engine places below another is not placed below it by
\* the fusion: being found by both, or by one only, never costs a place.
Infinite == Bm25TopK + DenseTopK + 1
Place(s, c) == IF c \in Range(s) THEN Rank(s, c) ELSE Infinite
Dominates(bm25, dense, a, b) ==
    /\ Place(bm25, a) <= Place(bm25, b) /\ Place(dense, a) <= Place(dense, b)
    /\ a # b
FusionRespects(bm25, dense, fused) ==
    /\ IsInjective(fused)
    /\ \A a, b \in Range(bm25) \cup Range(dense) :
          Dominates(bm25, dense, a, b) /\ b \in Range(fused)
             => a \in Range(fused) /\ Rank(fused, a) < Rank(fused, b)

\* One engine alone is read in its own order.
OneIsEnough(bm25, dense, fused) ==
    /\ dense = <<>> => IsPrefix(fused, bm25)
    /\ bm25 = <<>> => IsPrefix(fused, dense)

\* The lot follows the reranker; it holds no table of contents and no more than
\* the ceiling of summaries, and a fragment was left out only for one of these
\* reasons or because the lot was full before it.
RoomIsUsed(classes, kept) ==
    /\ Len(kept) <= RerankTopN
    /\ Ceiling > 0 => Count(kept) <= Ceiling
    /\ \A i \in DOMAIN kept : ~IsToc(kept[i])
    /\ \A i, j \in DOMAIN kept : i < j => Rank(classes, kept[i]) < Rank(classes, kept[j])
    /\ \A c \in Range(classes) \ Range(kept) :
          \/ IsToc(c)
          \/ Secondary(c) /\ Ceiling > 0 /\ Count(kept) = Ceiling
          \/ Len(kept) = RerankTopN /\ Rank(classes, Last(kept)) < Rank(classes, c)
=============================================================================
