----------------------------- MODULE RedisStream -----------------------------
(***************************************************************************)
(* What a consumer group of a Redis stream hands to its reader.  Entries    *)
(* are numbered in the order XADD gave them ids.                            *)
(***************************************************************************)
EXTENDS Integers, SequencesExt, FiniteSetsExt

\* XREADGROUP with COUNT n, of the entries S that it may return: the oldest of
\* them in their order, n of them unless there are fewer.
Oldest(S, n) ==
  {b \in BoundedSeq(S, n) :
     /\ \A i, j \in DOMAIN b : i < j => b[i] < b[j]
     /\ \A k \in S \ ToSet(b) : Len(b) = n /\ \A i \in DOMAIN b : b[i] < k}
=============================================================================
