-------------------------------- MODULE Chunker --------------------------------
(***************************************************************************)
(* The chunking of one section of a document (src/rag/chunker.py):          *)
(* paragraphs are collected until the next would exceed the limit, and the  *)
(* last of them are carried over into the next chunk.  A paragraph is the   *)
(* number of its characters, a chunk an interval of paragraphs, one action  *)
(* one turn of the loop.                                                    *)
(***************************************************************************)
EXTENDS Integers, Sequences, FiniteSetsExt

CONSTANTS MaxTokens, OverlapTokens,
          Lengths,       \* characters of a paragraph
          MaxParagraphs  \* bound: paragraphs of a section

ChunkerAssumption ==
  /\ MaxTokens \in Nat \ {0} /\ OverlapTokens \in Nat
  /\ Lengths \subseteq Nat \ {0} /\ MaxParagraphs \in Nat \ {0}

VARIABLES
  text,    \* the paragraphs
  taken,   \* how many of them have been read
  first,   \* current_parts are the paragraphs first .. taken
  tokens,  \* current_tokens
  chunks,  \* the intervals that are done
  over

vars == <<text, taken, first, tokens, chunks, over>>

Texts == UNION {[1 .. n -> Lengths] : n \in 1 .. MaxParagraphs}

Init == /\ text \in Texts /\ taken = 0 /\ first = 1 /\ tokens = 0
        /\ chunks = <<>> /\ over = FALSE

-----------------------------------------------------------------------------
\* _estimate_tokens
Estimate(characters) == characters \div 4

\* Sums(w)[n] is what the first n of w add up to.
Sums(w) == LET f[n \in 0 .. Len(w)] == IF n = 0 THEN 0 ELSE f[n - 1] + w[n]
           IN  f

\* The paragraphs with the blank lines between them
Characters == Sums(text)[Len(text)] + 2 * (Len(text) - 1)

Estimates == [p \in DOMAIN text |-> Estimate(text[p])]

\* The estimates of the paragraphs i .. j
Tokens(i, j) == Sums(Estimates)[j] - Sums(Estimates)[i - 1]

\* The first paragraph that is carried over, taken + 1 if there is none
Carried == Min({k \in first .. taken + 1 : Tokens(k, taken) <= OverlapTokens})

CarriedTokens == Tokens(Carried, taken)

Exceeds(n) == tokens + n > MaxTokens /\ first <= taken

TooBig == Estimate(Characters) > MaxTokens

\* A section within the limit is one chunk.
Whole ==
  /\ ~TooBig /\ ~over /\ taken = 0
  /\ chunks' = <<[from |-> 1, to |-> Len(text)]>>
  /\ taken' = Len(text) /\ over' = TRUE
  /\ UNCHANGED <<text, first, tokens>>

\* The turn of the loop for the next paragraph.
Read ==
  /\ TooBig /\ taken < Len(text)
  /\ LET n == Estimate(text[taken + 1])
     IN IF Exceeds(n)
        THEN /\ chunks' = Append(chunks, [from |-> first, to |-> taken])
             /\ first' = Carried
             /\ tokens' = CarriedTokens + n
        ELSE /\ tokens' = tokens + n
             /\ UNCHANGED <<first, chunks>>
  /\ taken' = taken + 1
  /\ UNCHANGED <<text, over>>

Last ==
  /\ TooBig /\ taken = Len(text) /\ ~over
  /\ chunks' = Append(chunks, [from |-> first, to |-> taken])
  /\ over' = TRUE
  /\ UNCHANGED <<text, taken, first, tokens>>

Next == Whole \/ Read \/ Last

Spec == Init /\ [][Next]_vars

-----------------------------------------------------------------------------
TypeOK ==
  /\ text \in Texts
  /\ taken \in 0 .. Len(text) /\ first \in 1 .. taken + 1
  /\ chunks \in Seq([from : 1 .. Len(text), to : 1 .. Len(text)])
  /\ over \in BOOLEAN /\ (over => taken = Len(text))
  /\ TooBig => tokens = Tokens(first, taken)

\* The chunks and the one that is being collected
Pieces == IF over THEN chunks ELSE Append(chunks, [from |-> first, to |-> taken])

\* The chunks, read one after the other without what they repeat, are the text: none is
\* empty, none begins behind a paragraph that no chunk has, and each ends with a new one.
NothingLost ==
  /\ Pieces[1].from = 1
  /\ \A i \in DOMAIN Pieces : taken > 0 => Pieces[i].from <= Pieces[i].to
  /\ \A i \in 1 .. Len(Pieces) - 1 :
       /\ Pieces[i].from <= Pieces[i + 1].from /\ Pieces[i + 1].from <= Pieces[i].to + 1
       /\ Pieces[i].to < Pieces[i + 1].to
  /\ over => Pieces[Len(Pieces)].to = Len(text)

\* Neighbours share as many whole paragraphs as the overlap allows, and no more.
OverlapFilled ==
  \A i \in 1 .. Len(Pieces) - 1 :
    LET from == Pieces[i + 1].from  to == Pieces[i].to
    IN  /\ Tokens(from, to) <= OverlapTokens
        /\ from = Pieces[i].from \/ Tokens(from - 1, to) > OverlapTokens

\* A chunk exceeds the limit only by what it carries and its one new paragraph, and none
\* was closed while the next paragraph would have fitted.
ChunksFilled ==
  TooBig =>
    /\ \A i \in DOMAIN Pieces :
         LET c == Pieces[i]
         IN  \/ Tokens(c.from, c.to) <= MaxTokens
             \/ Tokens(c.from, c.to - 1) <= IF i = 1 THEN 0 ELSE OverlapTokens
    /\ \A i \in DOMAIN chunks :
         LET c == chunks[i]
         IN  c.to < Len(text) => Tokens(c.from, c.to + 1) > MaxTokens
=============================================================================
