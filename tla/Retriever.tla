----------------------------- MODULE Retriever -----------------------------
(***************************************************************************)
(* Retriever.search() of src/rag/retriever.py behind the search_knowledge   *)
(* tool: the ids nearest to the query, the ids that match its words, the    *)
(* fusion of the two rankings by reciprocal rank, then the chunks of the    *)
(* best ids.  These are three statements; a pass of the index that commits  *)
(* between two of them removes chunks and adds others.                      *)
(***************************************************************************)
EXTENDS Integers, Sequences, FiniteSets, Functions, SequencesExt, FiniteSetsExt

CONSTANTS
  Chunks,    \* ids a chunk may have
  K,         \* the constant of the fusion
  TopK,      \* top_k_vector
  Final,     \* top_k_final
  MaxPasses  \* bound: passes of the index that commit during the search

RetrieverAssumption ==
  /\ IsFiniteSet(Chunks) /\ MaxPasses \in Nat
  /\ K \in Nat /\ TopK \in Nat \ {0} /\ Final \in Nat \ {0} /\ TopK < K + 2

VARIABLES
  stored,  \* ids in the table
  gone,    \* history: ids removed during the search
  pc,      \* "vector", "words", "fetch" or "answered"
  vector, words, \* the two rankings
  results,
  passes

vars == <<stored, gone, pc, vector, words, results, passes>>

\* The best TopK of the rows S, in any order: no row comes twice.
Rankings(S) == Injection(1 .. Min({TopK, Cardinality(S)}), S)

Init ==
  /\ stored \in SUBSET Chunks /\ gone = {} /\ pc = "vector"
  /\ vector = <<>> /\ words = <<>> /\ results = <<>> /\ passes = 0

\* The filters are left out: they only make the table smaller.
VectorSearch ==
  /\ pc = "vector" /\ pc' = "words"
  /\ vector' \in Rankings(stored)
  /\ UNCHANGED <<stored, gone, words, results, passes>>

\* Only some of the chunks have words of the query.
WordSearch ==
  /\ pc = "words" /\ pc' = "fetch"
  /\ \E M \in SUBSET stored : words' \in Rankings(M)
  /\ UNCHANGED <<stored, gone, vector, results, passes>>

Rank(s, c) == CHOOSE i \in DOMAIN s : s[i] = c
Found == ToSet(vector) \cup ToSet(words)
Both == ToSet(vector) \cap ToSet(words)

\* A score is a fraction: the sum of 1 / (K + rank) over the rankings.
\* Mutant: only the better rank counts.
ScoreOfBest(c) ==
  <<1, K + Min({Rank(s, c) : s \in {t \in {vector, words} : c \in ToSet(t)}})>>
Score(c) ==
  LET v == K + Rank(vector, c)
      w == K + Rank(words, c)
  IN CASE c \in Both -> <<v + w, v * w>>
       [] c \in ToSet(vector) \ Both -> <<1, v>>
       [] OTHER -> <<1, w>>
Higher(c, d) == Score(c)[1] * Score(d)[2] > Score(d)[1] * Score(c)[2]

\* The order of sorted(): equal scores stay as they came into the dictionary.
Came(c) == IF c \in ToSet(vector) THEN Rank(vector, c) ELSE Len(vector) + Rank(words, c)
Before(c, d) == Higher(c, d) \/ (~Higher(d, c) /\ Came(c) < Came(d))
Place(c, S) == Cardinality({d \in S : Before(d, c)})

\* The ids at the first places whose chunks are still there, in their order.  The
\* optional reranker, which no caller passes (main.py:300), is left out.
Fetch ==
  /\ pc = "fetch" /\ pc' = "answered"
  /\ LET here == {c \in Found : Place(c, Found) < TopK} \cap stored
     IN results' = [i \in 1 .. Min({Final, Cardinality(here)}) |->
                      CHOOSE c \in here : Place(c, here) = i - 1]
  /\ UNCHANGED <<stored, gone, vector, words, passes>>

\* A pass of RunbookIndex commits: a file's chunks are replaced by new ones.
IndexCommits ==
  /\ passes < MaxPasses /\ pc \in {"words", "fetch"} /\ passes' = passes + 1
  /\ \E old \in SUBSET stored, new \in SUBSET (Chunks \ (stored \cup gone)) :
       /\ Cardinality(new) = Cardinality(old)
       /\ stored' = (stored \ old) \cup new /\ gone' = gone \cup old
  /\ UNCHANGED <<pc, vector, words, results>>

Next == VectorSearch \/ WordSearch \/ Fetch \/ IndexCommits
Spec == Init /\ [][Next]_vars

-----------------------------------------------------------------------------
TypeOK ==
  /\ stored \subseteq Chunks /\ gone \subseteq Chunks \ stored
  /\ pc \in {"vector", "words", "fetch", "answered"} /\ passes \in 0 .. MaxPasses
  /\ {vector, words, results} \subseteq Seq(Chunks)

\* What both searches found stands before what one of them found (retriever.py:75-82),
\* and a chunk that neither ranks lower than another does not stand behind it.
FusionFair ==
  pc = "answered" =>
    \A i, j \in DOMAIN results :
      LET c == results[i]
          d == results[j]
      IN i < j =>
        /\ ~(d \in Both /\ c \notin Both)
        /\ c \in Both /\ d \in Both =>
             Rank(vector, c) < Rank(vector, d) \/ Rank(words, c) < Rank(words, d)

\* Nothing is returned twice or without having been found, and a result is missing
\* only for an id that went between two statements.
MissingOnlyIfGone ==
  pc = "answered" =>
    /\ IsInjective(results) /\ ToSet(results) \subseteq Found
    /\ Len(results) >= Min({Final, TopK, Cardinality(Found)}) - Cardinality(gone)
=============================================================================
