----------------------------- MODULE TextSplit -----------------------------
(***************************************************************************)
(* TelegramClient._split_text() of src/telegram/client.py: a text of more   *)
(* than Limit characters is cut into messages, at the last newline within   *)
(* the limit where there is one, and the newlines at a cut are dropped.     *)
(* What matters of a character is whether it is a newline; a chunk is a     *)
(* pair of positions, the first and the last, empty when last < first.      *)
(***************************************************************************)
EXTENDS Integers, Sequences, FiniteSetsExt

CONSTANTS
  Limit,  \* MAX_MESSAGE_LENGTH
  MaxText \* bound: characters of a text

SplitAssumption == Limit \in Nat \ {0} /\ MaxText \in Nat

VARIABLES
  newline, \* position -> is it a newline
  from,    \* first position of what remains
  parts    \* the chunks so far

vars == <<newline, from, parts>>

Size == Len(newline)
Newlines(a, b) == {p \in a .. b : newline[p]}

Init ==
  /\ \E n \in 1 .. MaxText : newline \in [1 .. n -> BOOLEAN]
  /\ from = 1 /\ parts = <<>>

\* Where the chunk that begins at a ends: before the last newline in reach.
Cut(a) == IF Newlines(a, a + Limit - 1) = {} THEN a + Limit - 1
                                              ELSE Max(Newlines(a, a + Limit - 1)) - 1

\* lstrip("\n") of what remains from position a on.
Stripped(a) == Min({p \in a .. Size : ~newline[p]} \cup {Size + 1})

Takes ==
  /\ from <= Size /\ Size - from + 1 > Limit
  /\ parts' = Append(parts, <<from, Cut(from)>>)
  /\ from' = Stripped(Cut(from) + 1)
  /\ UNCHANGED newline

TakesRest ==
  /\ from <= Size /\ Size - from + 1 <= Limit
  /\ parts' = Append(parts, <<from, Size>>)
  /\ from' = Size + 1
  /\ UNCHANGED newline

Next == Takes \/ TakesRest
Spec == Init /\ [][Next]_vars

-----------------------------------------------------------------------------
TypeOK == from \in 1 .. Size + 1 /\ parts \in Seq((1 .. Size) \X (0 .. Size))

\* Every chunk can be sent as one message (client.py:76 "chunks <=
\* MAX_MESSAGE_LENGTH").
FitsMessage == \A i \in DOMAIN parts : parts[i][2] - parts[i][1] < Limit

\* Between two chunks nothing but newlines is missing, and before what remains.
OnlyNewlinesLost ==
  /\ \A i \in 1 .. Len(parts) - 1 : \A p \in parts[i][2] + 1 .. parts[i + 1][1] - 1 : newline[p]
  /\ parts # <<>> => /\ parts[1][1] = 1
                     /\ \A p \in parts[Len(parts)][2] + 1 .. from - 1 : newline[p]
  /\ \A i \in 1 .. Len(parts) - 1 : parts[i + 1][1] > parts[i][2]

\* A line is cut only when it is longer than a message by itself (client.py:76
\* "preferring newline boundaries").
CutsLongLinesOnly ==
  \A i \in DOMAIN parts :
    LET last == parts[i][2] IN
    last < Size /\ ~newline[last + 1] =>
      Newlines(parts[i][1], last) = {} /\ last - parts[i][1] + 1 = Limit

-----------------------------------------------------------------------------
(* What the repository says and the code does not do.                       *)

\* client.py:28 "Send message": every chunk is one.  A text that begins with a
\* newline and a line longer than the limit gives an empty first chunk, which
\* Telegram refuses, also in the plain attempt: the user sees nothing.
NoEmptyChunk == \A i \in DOMAIN parts : parts[i][1] <= parts[i][2]
=============================================================================
