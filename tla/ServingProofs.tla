---------------------------- MODULE ServingProofs ----------------------------
(***************************************************************************)
(* Theorems about what serves a running process, for any number of threads, *)
(* agents, updates, requests, files and chunks and any bounds: start-up and *)
(* shutdown and the filling of the tool registry, the Telegram webhook and  *)
(* the splitting of its replies, delegation, the routes of the agents, the  *)
(* requests and notices that leave the process, the search for knowledge    *)
(* and the code review chain.  A step belongs to one component, so each has *)
(* an invariant of its own that its steps keep and that a step of another   *)
(* leaves alone.                                                            *)
(***************************************************************************)
EXTENDS MCServing, SequenceTheorems, FiniteSetTheorems, WellFoundedInduction, TLAPS

(* Whoever takes the step, a component takes one of its own or none. *)
LEMMA StepsOfOne ==
  ASSUME [Next]_vars
  PROVE  /\ scope' = scope
         /\ Life!Next \/ UNCHANGED lifeVars
         /\ Webhook!Next \/ UNCHANGED updateVars
         /\ Split!Next \/ UNCHANGED splitVars
         /\ Nesting!Next \/ UNCHANGED nestingVars
         /\ Registry!Next \/ UNCHANGED registryVars
         /\ Catalog!Next \/ UNCHANGED catalogVars
         /\ Calls!Next \/ UNCHANGED callVars
         /\ Notice!Next \/ UNCHANGED noticeVars
         /\ Search!Next \/ UNCHANGED searchVars
         /\ Chain!Next \/ UNCHANGED chainVars
  <1>1. CASE UNCHANGED vars
    BY <1>1 DEF vars
  <1>2. CASE Next
    BY <1>2 DEF Next, Rests
  <1>3. QED
    BY <1>1, <1>2

-----------------------------------------------------------------------------
(* Delegation: src/mcp/tools/delegate.py.                                     *)

(* Nothing is nested at the start. *)
LEMMA NestingStarts == ASSUME Nesting!DelegationAssumption PROVE Nesting!Init => Nesting!IInv
  <1> SUFFICES ASSUME Nesting!Init PROVE Nesting!IInv
    OBVIOUS
  <1>1. Nesting!TypeOK
    BY DEF Nesting!Init, Nesting!TypeOK, Nesting!DelegationAssumption
  <1>2. Nesting!DepthIsNesting /\ Nesting!AskedWithinLimit
    BY DEF Nesting!Init, Nesting!DepthIsNesting, Nesting!AskedWithinLimit, Nesting!DelegationAssumption
  <1> QED BY <1>1, <1>2 DEF Nesting!IInv

(* The task that starts a delegation puts one agent on its stack and adds one. *)
LEMMA StartNests ==
  ASSUME Nesting!IInv, NEW t \in Threads, Nesting!Start(t), asking[t] \in known
  PROVE /\ stack' = [stack EXCEPT ![t] = Append(stack[t], asking[t])]
        /\ depth' = [depth EXCEPT ![t] = depth[t] + 1]
        /\ stack' \in [Threads -> Seq(Agents)] /\ depth' \in [Threads -> Nat]
        /\ stack[t] # <<>> /\ Len(stack'[t]) = Len(stack[t]) + 1 /\ depth[t] < MaxDepth
  <1>1. /\ stack' = [stack EXCEPT ![t] = Append(stack[t], asking[t])]
        /\ depth' = [depth EXCEPT ![t] = depth[t] + 1]
    BY DEF Nesting!Start
  <1>2. stack \in [Threads -> Seq(Agents)] /\ depth \in [Threads -> Nat] /\ asking[t] \in Agents
    BY DEF Nesting!IInv, Nesting!TypeOK
  <1>3. stack[t] # <<>> /\ depth[t] < MaxDepth
    BY DEF Nesting!Start, Nesting!IInv, Nesting!AskedWithinLimit
  <1>4. depth' \in [Threads -> Nat]
    BY <1>1, <1>2
  <1>5. stack' \in [Threads -> Seq(Agents)] /\ Len(stack'[t]) = Len(stack[t]) + 1
    BY <1>1, <1>2
  <1> QED BY <1>1, <1>3, <1>4, <1>5

(* The end of the execution on top takes one agent off, and one of the depth but for the
   first execution, which was not delegated. *)
LEMMA EndUnnests ==
  ASSUME Nesting!IInv, NEW t \in Threads, Nesting!Ends(t)
  PROVE /\ stack' = [stack EXCEPT ![t] = Nesting!Front(stack[t])]
        /\ depth' = [depth EXCEPT ![t] = IF Len(stack[t]) > 1 THEN depth[t] - 1 ELSE depth[t]]
        /\ stack' \in [Threads -> Seq(Agents)] /\ depth' \in [Threads -> Nat]
        /\ Len(stack'[t]) = Len(stack[t]) - 1 /\ Len(stack[t]) >= 1
  <1>1. stack' = [stack EXCEPT ![t] = Nesting!Front(stack[t])]
    BY DEF Nesting!Ends
  <1>2. depth' = [depth EXCEPT ![t] = IF Len(stack[t]) > 1 THEN depth[t] - 1 ELSE depth[t]]
    BY DEF Nesting!Ends, Nesting!AfterReset
  <1>3. stack \in [Threads -> Seq(Agents)] /\ depth \in [Threads -> Nat] /\ stack[t] # <<>>
    BY DEF Nesting!IInv, Nesting!TypeOK, Nesting!Ends
  <1>4. Nesting!Front(stack[t]) \in Seq(Agents) /\ Len(Nesting!Front(stack[t])) = Len(stack[t]) - 1
        /\ Len(stack[t]) >= 1
    <2>1. stack[t] \in Seq(Agents) /\ Len(stack[t]) >= 1
      BY <1>3
    <2>2. \A i \in 1 .. Len(stack[t]) - 1 : stack[t][i] \in Agents
      BY <2>1
    <2> QED BY <2>1, <2>2, SubSeqProperties DEF Nesting!Front
  <1>5. Len(stack[t]) > 1 => depth[t] = Len(stack[t]) - 1
    BY <1>3 DEF Nesting!IInv, Nesting!DepthIsNesting
  <1>6. depth' \in [Threads -> Nat]
    <2>1. (IF Len(stack[t]) > 1 THEN depth[t] - 1 ELSE depth[t]) \in Nat
      BY <1>3, <1>4, <1>5
    <2> QED BY <1>2, <1>3, <2>1
  <1>7. stack' \in [Threads -> Seq(Agents)] /\ Len(stack'[t]) = Len(stack[t]) - 1
    BY <1>1, <1>3, <1>4
  <1> QED BY <1>1, <1>2, <1>4, <1>6, <1>7

(* A step of one task keeps the types. *)
LEMMA RunTypes ==
  ASSUME Nesting!DelegationAssumption, Nesting!IInv, NEW t \in Threads, Nesting!Run(t) PROVE Nesting!TypeOK'
  <1>1. ASSUME NEW a \in Agents, Nesting!Begin(t, a) PROVE Nesting!TypeOK'
    BY <1>1 DEF Nesting!Begin, Nesting!IInv, Nesting!TypeOK, Nesting!DelegationAssumption
  <1>2. ASSUME NEW a \in Agents, Nesting!Ask(t, a) PROVE Nesting!TypeOK'
    BY <1>2 DEF Nesting!Ask, Nesting!IInv, Nesting!TypeOK
  <1>3. CASE Nesting!AskFails(t)
    BY <1>3 DEF Nesting!AskFails, Nesting!IInv, Nesting!TypeOK
  <1>4. CASE Nesting!Start(t)
    <2>1. CASE asking[t] \in known
      <3>1. stack' \in [Threads -> Seq(Agents)] /\ depth' \in [Threads -> Nat]
        BY <1>4, <2>1, StartNests
      <3> QED BY <1>4, <3>1 DEF Nesting!Start, Nesting!IInv, Nesting!TypeOK
    <2>2. CASE asking[t] \notin known
      BY <1>4, <2>2 DEF Nesting!Start, Nesting!IInv, Nesting!TypeOK
    <2> QED BY <2>1, <2>2
  <1>5. CASE Nesting!Ends(t)
    <2>1. stack' \in [Threads -> Seq(Agents)] /\ depth' \in [Threads -> Nat]
      BY <1>5, EndUnnests
    <2> QED BY <1>5, <2>1 DEF Nesting!Ends, Nesting!IInv, Nesting!TypeOK
  <1> QED BY <1>1, <1>2, <1>3, <1>4, <1>5 DEF Nesting!Run

(* A step of one task keeps depth and nesting equal, and the limit. *)
LEMMA RunNests ==
  ASSUME Nesting!DelegationAssumption, Nesting!IInv, NEW t \in Threads, Nesting!Run(t) PROVE Nesting!DepthIsNesting'
  <1> DEFINE Nested(u) == /\ depth[u] = (IF stack[u] = <<>> THEN 0 ELSE Len(stack[u]) - 1)
                          /\ Len(stack[u]) <= MaxDepth + 1
  <1> SUFFICES ASSUME NEW u \in Threads PROVE Nested(u)'
    BY DEF Nesting!DepthIsNesting
  <1>a. Nested(u) /\ stack \in [Threads -> Seq(Agents)] /\ depth \in [Threads -> Nat]
        /\ MaxDepth \in Nat \ {0}
    BY DEF Nesting!IInv, Nesting!TypeOK, Nesting!DepthIsNesting, Nesting!DelegationAssumption
  <1>b. stack'[u] = stack[u] /\ depth'[u] = depth[u] => Nested(u)'
    BY <1>a
  <1>1. ASSUME NEW a \in Agents, Nesting!Begin(t, a) PROVE Nested(u)'
    BY <1>1, <1>a DEF Nesting!Begin
  <1>2. CASE (\E a \in Agents : Nesting!Ask(t, a)) \/ Nesting!AskFails(t)
    BY <1>2, <1>b DEF Nesting!Ask, Nesting!AskFails
  <1>3. CASE Nesting!Start(t) /\ asking[t] \in known
    BY <1>3, <1>a, <1>b, StartNests
  <1>4. CASE Nesting!Start(t) /\ asking[t] \notin known
    BY <1>4, <1>b DEF Nesting!Start
  <1>5. CASE Nesting!Ends(t)
    BY <1>5, <1>a, <1>b, EndUnnests
  <1> QED BY <1>1, <1>2, <1>3, <1>4, <1>5 DEF Nesting!Run

(* A step of one task lets nobody ask beyond the limit. *)
LEMMA RunAsks ==
  ASSUME Nesting!IInv, NEW t \in Threads, Nesting!Run(t) PROVE Nesting!AskedWithinLimit'
  <1> USE DEF Nesting!AskedWithinLimit
  <1>a. Nesting!AskedWithinLimit /\ asking \in [Threads -> Agents \cup {Nesting!Nobody}]
        /\ stack \in [Threads -> Seq(Agents)] /\ depth \in [Threads -> Nat]
    BY DEF Nesting!IInv, Nesting!TypeOK
  <1>1. ASSUME NEW a \in Agents, Nesting!Begin(t, a) PROVE Nesting!AskedWithinLimit'
    BY <1>1, <1>a DEF Nesting!Begin
  <1>2. ASSUME NEW a \in Agents, Nesting!Ask(t, a) PROVE Nesting!AskedWithinLimit'
    BY <1>2, <1>a DEF Nesting!Ask
  <1>3. CASE Nesting!AskFails(t)
    BY <1>3, <1>a DEF Nesting!AskFails
  <1>4. CASE Nesting!Start(t)
    <2>1. asking' = [asking EXCEPT ![t] = Nesting!Nobody]
          /\ \A u \in Threads \ {t} : stack'[u] = stack[u] /\ depth'[u] = depth[u]
      BY <1>4, <1>a DEF Nesting!Start
    <2> QED BY <1>a, <2>1
  <1>5. CASE Nesting!Ends(t)
    <2>1. asking' = asking /\ asking[t] = Nesting!Nobody
          /\ \A u \in Threads \ {t} : stack'[u] = stack[u] /\ depth'[u] = depth[u]
      BY <1>5, <1>a DEF Nesting!Ends
    <2> QED BY <1>a, <2>1
  <1> QED BY <1>1, <1>2, <1>3, <1>4, <1>5 DEF Nesting!Run

(* Administrators do not touch what is nested. *)
LEMMA EditKeeps == ASSUME Nesting!DelegationAssumption, Nesting!IInv, Nesting!Edit PROVE Nesting!IInv'
  <1>1. peers' \in [Agents -> SUBSET Agents] /\ known' \subseteq Agents
    <2>1. CASE \E a \in Agents, s \in {{}} \cup {{b} : b \in Agents} :
                 peers' = [peers EXCEPT ![a] = s] /\ UNCHANGED known
      <3>1. PICK a \in Agents, s \in {{}} \cup {{b} : b \in Agents} :
              peers' = [peers EXCEPT ![a] = s] /\ UNCHANGED known
        BY <2>1
      <3>2. s \in SUBSET Agents
        OBVIOUS
      <3> QED BY <3>1, <3>2 DEF Nesting!IInv, Nesting!TypeOK
    <2>2. CASE \E a \in Agents : known' = (known \ {a}) \cup ({a} \ known) /\ UNCHANGED peers
      BY <2>2 DEF Nesting!IInv, Nesting!TypeOK
    <2> QED BY <2>1, <2>2 DEF Nesting!Edit
  <1>2. edits' \in 0 .. MaxEdits
    BY DEF Nesting!Edit, Nesting!IInv, Nesting!TypeOK, Nesting!DelegationAssumption
  <1>3. UNCHANGED <<stack, asking, depth, calls>>
    BY DEF Nesting!Edit
  <1> QED BY <1>1, <1>2, <1>3 DEF Nesting!IInv, Nesting!TypeOK, Nesting!DepthIsNesting, Nesting!AskedWithinLimit

LEMMA NestingSteps ==
  ASSUME Nesting!DelegationAssumption, Nesting!IInv, Nesting!Next \/ UNCHANGED nestingVars
  PROVE  Nesting!IInv'
  <1>1. CASE Nesting!Edit
    BY <1>1, EditKeeps
  <1>2. ASSUME NEW t \in Threads, Nesting!Run(t) PROVE Nesting!IInv'
    BY <1>2, RunTypes, RunNests, RunAsks DEF Nesting!IInv
  <1>3. CASE UNCHANGED nestingVars
    BY <1>3 DEF nestingVars, Nesting!IInv, Nesting!TypeOK, Nesting!DepthIsNesting,
                Nesting!AskedWithinLimit
  <1> QED BY <1>1, <1>2, <1>3 DEF Nesting!Next

(* delegate.py:71 and 104: the context variable is the depth of the nesting, and no
   task nests deeper than MAX_DELEGATION_DEPTH below the first execution. *)
THEOREM NestingBounded == Spec => []DepthIsNesting
  <1>1. Init => Nesting!IInv
    BY ServingAssumption, NestingStarts DEF Init
  <1>2. Nesting!IInv /\ [Next]_vars => Nesting!IInv'
    BY ServingAssumption, NestingSteps, StepsOfOne
  <1>3. Nesting!IInv => DepthIsNesting
    BY DEF DepthIsNesting
  <1>4. QED
    BY <1>1, <1>2, <1>3, PTL DEF Spec

-----------------------------------------------------------------------------
(* The reply in parts: TelegramClient._split_text().                          *)

\* T has no other set of the family below it.
Smallest(T, F) == T \in F /\ \A U \in F : U \subseteq T => U = T

(* A family of subsets of a finite set has a set with no other below it. *)
LEMMA HasSmallest ==
  ASSUME NEW S, IsFiniteSet(S), NEW F, F \subseteq SUBSET S, F # {}
  PROVE  \E T : Smallest(T, F)
  <1>1. IsWellFoundedOn(StrictSubsetOrdering(S), SUBSET S)
    BY FS_StrictSubsetOrderingWellFounded, FS_FiniteSubsetsOfFinite
  <1>2. PICK T \in F : \A U \in F : ~(<<U, T>> \in StrictSubsetOrdering(S))
    BY <1>1, WFMin
  <1>3. ASSUME NEW U \in F, U \subseteq T PROVE U = T
    BY <1>2, <1>3 DEF StrictSubsetOrdering
  <1>4. QED
    BY <1>2, <1>3 DEF Smallest

(* Min gives the least of some numbers below a bound. *)
LEMMA MinIsLeast ==
  ASSUME NEW b \in Nat, NEW S, S \subseteq 0 .. b, S # {}
  PROVE  Split!Min(S) \in S /\ \A y \in S : Split!Min(S) <= y
  <1> DEFINE Below(x) == {y \in S : y <= x}
             F == {Below(x) : x \in S}
  <1>1. IsFiniteSet(S)
    <2>1. IsFiniteSet(0 .. b)
      BY FS_Interval
    <2>2. QED
      BY <2>1, FS_Subset
  <1>2. F \subseteq SUBSET S /\ F # {}
    OBVIOUS
  <1>3. PICK T : Smallest(T, F)
    <2> HIDE DEF F
    <2>1. QED
      BY <1>1, <1>2, HasSmallest
  <1>4. PICK x \in S : T = Below(x)
    BY <1>3 DEF Smallest
  <1>5. ASSUME NEW y \in S PROVE x <= y
    <2>1. x \in Int /\ y \in Int
      OBVIOUS
    <2>2. y <= x => Below(y) = Below(x)
      <3>1. \A z \in S : z \in Int
        OBVIOUS
      <3>2. ASSUME y <= x PROVE Below(y) \subseteq Below(x)
        <4>1. SUFFICES ASSUME NEW z \in S, z <= y PROVE z <= x
          OBVIOUS
        <4>2. QED
          BY <2>1, <3>1, <3>2, <4>1
      <3>3. Below(y) \in F
        OBVIOUS
      <3> HIDE DEF Below, F
      <3>4. QED
        BY <1>3, <1>4, <3>2, <3>3 DEF Smallest
    <2>3. x \in Below(x)
      BY <2>1
    <2>4. QED
      BY <2>1, <2>2, <2>3
  <1>6. QED
    BY <1>5 DEF Split!Min

(* Max gives the greatest. *)
LEMMA MaxIsGreatest ==
  ASSUME NEW b \in Nat, NEW S, S \subseteq 0 .. b, S # {}
  PROVE  Split!Max(S) \in S /\ \A y \in S : Split!Max(S) >= y
  <1> DEFINE D == {b - p : p \in S}
  <1>1. D \subseteq 0 .. b
    OBVIOUS
  <1>2. D # {}
    OBVIOUS
  <1>3. Split!Min(D) \in D /\ \A y \in D : Split!Min(D) <= y
    <2> HIDE DEF D
    <2>1. QED
      BY <1>1, <1>2, MinIsLeast
  <1>4. PICK p \in S : Split!Min(D) = b - p
    BY <1>3
  <1>5. ASSUME NEW y \in S PROVE p >= y
    <2>1. b - p <= b - y
      BY <1>3, <1>4
    <2>2. QED
      BY <2>1
  <1>6. QED
    BY <1>5 DEF Split!Max

(* Where the chunks are, and that the next one begins behind them. *)
SplitInv ==
  /\ newline \in Seq(BOOLEAN)
  /\ Split!TypeOK /\ Split!FitsMessage /\ Split!OnlyNewlinesLost /\ Split!CutsLongLinesOnly
  /\ IF parts = <<>> THEN from = 1 ELSE parts[Len(parts)][2] < from

(* What a pair is made of. *)
LEMMA PairHas == ASSUME NEW a, NEW b, NEW t, t = <<a, b>> PROVE t[1] = a /\ t[2] = b
  OBVIOUS

(* A chunk that is not the last ends before the last newline in reach, or is as long as a
   message and has none. *)
LEMMA CutIsFair ==
  ASSUME Split!SplitAssumption, SplitInv, from <= Len(newline), Len(newline) - from + 1 > Limit
  PROVE  LET c == Split!Cut(from) IN
         /\ c \in Nat /\ from - 1 <= c /\ c < Len(newline) /\ c - from < Limit
         /\ \/ newline[c + 1]
            \/ Split!Newlines(from, c) = {} /\ c - from + 1 = Limit
  <1> DEFINE b == from + Limit - 1
             N == Split!Newlines(from, b)
  <1>1. /\ from \in Nat /\ from >= 1 /\ Limit \in Nat /\ Limit >= 1 /\ b \in Nat
        /\ b < Len(newline) /\ from <= b
    BY DEF SplitInv, Split!TypeOK, Split!Size, Split!SplitAssumption
  <1>2. N \subseteq 0 .. b /\ \A p \in N : newline[p] /\ p >= from /\ p <= b
    BY <1>1 DEF Split!Newlines
  <1>3. CASE N = {}
    <2>1. Split!Cut(from) = b
      BY <1>3 DEF Split!Cut
    <2>2. QED
      BY <1>1, <1>3, <2>1
  <1>4. CASE N # {}
    <2>1. Split!Cut(from) = Split!Max(N) - 1
      BY <1>4 DEF Split!Cut
    <2>2. Split!Max(N) \in N
      BY <1>1, <1>2, <1>4, MaxIsGreatest
    <2> HIDE DEF N, b
    <2>3. PICK m \in N : m = Split!Max(N)
      BY <2>2
    <2>4. newline[m] /\ m >= from /\ m <= b /\ m \in Nat
      BY <1>2, <2>3
    <2>5. Split!Cut(from) = m - 1
      BY <2>1, <2>3
    <2>6. b - from < Limit
      BY <1>1 DEF b
    <2>7. (m - 1) + 1 = m /\ m - 1 \in Nat /\ from - 1 <= m - 1 /\ m - 1 < Len(newline)
          /\ (m - 1) - from < Limit
      BY <1>1, <2>4, <2>6
    <2>8. QED
      BY <2>4, <2>5, <2>7
  <1>5. QED
    BY <1>3, <1>4

(* lstrip() goes on to the first character that is no newline. *)
LEMMA StripsNewlines ==
  ASSUME newline \in Seq(BOOLEAN), NEW a \in Nat, a >= 1, a <= Len(newline) + 1
  PROVE  /\ Split!Stripped(a) \in a .. Len(newline) + 1
         /\ \A p \in a .. Split!Stripped(a) - 1 : newline[p]
  <1> DEFINE S == {p \in a .. Len(newline) : ~newline[p]} \cup {Len(newline) + 1}
  <1>1. S \subseteq 0 .. Len(newline) + 1 /\ S # {} /\ Len(newline) + 1 \in Nat
    OBVIOUS
  <1>2. Split!Stripped(a) = Split!Min(S)
    BY DEF Split!Stripped, Split!Size
  <1>3. Split!Min(S) \in S /\ \A y \in S : Split!Min(S) <= y
    BY <1>1, MinIsLeast
  <1>4. PICK m \in S : m = Split!Min(S)
    BY <1>3
  <1>5. m \in a .. Len(newline) + 1
    BY <1>1
  <1>6. ASSUME NEW p \in a .. m - 1 PROVE newline[p]
    <2>1. p < m /\ p \in a .. Len(newline)
      BY <1>5, <1>1
    <2>2. p \notin S
      BY <1>3, <1>4, <1>5, <2>1
    <2>3. QED
      BY <2>1, <2>2
  <1>7. QED
    BY <1>2, <1>4, <1>5, <1>6

(* A chunk from the first character that remains keeps the order, when what follows it
   up to the next one are newlines. *)
LEMMA PartKeeps ==
  ASSUME SplitInv, newline' = newline, NEW y \in 0 .. Len(newline), from <= Len(newline),
         from - 1 <= y, y - from < Limit,
         \/ y = Len(newline) \/ newline[y + 1]
         \/ Split!Newlines(from, y) = {} /\ y - from + 1 = Limit,
         parts' = Append(parts, <<from, y>>),
         from' \in 1 .. Len(newline) + 1, y < from', \A p \in y + 1 .. from' - 1 : newline[p]
  PROVE  SplitInv'
  <1> DEFINE n == Len(parts)
             C == (1 .. Len(newline)) \X (0 .. Len(newline))
  <1>1. /\ newline \in Seq(BOOLEAN) /\ Len(newline) \in Nat
        /\ from \in 1 .. Len(newline) + 1 /\ parts \in Seq(C) /\ n \in Nat
    BY DEF SplitInv, Split!TypeOK, Split!Size
  <1>2. <<from, y>> \in C
    BY <1>1
  <1>3. /\ parts' \in Seq(C) /\ Len(parts') = n + 1 /\ parts'[n + 1] = <<from, y>>
        /\ \A i \in 1 .. n : parts'[i] = parts[i]
        /\ DOMAIN parts = 1 .. n /\ DOMAIN parts' = 1 .. n + 1
    BY <1>1, <1>2
  <1>4. \A i \in 1 .. n : parts[i] \in C
    BY <1>1
  <1> HIDE DEF n, C
  <1>a. n \in Nat /\ \A i \in 1 .. n + 1 : i \in 1 .. n \/ i = n + 1
    BY <1>1
  <1>5. Split!TypeOK'
    BY <1>1, <1>3 DEF Split!TypeOK, Split!Size, C
  <1>6. Split!FitsMessage'
    <2>1. \A i \in 1 .. n : parts[i][2] - parts[i][1] < Limit
      BY <1>3 DEF SplitInv, Split!FitsMessage
    <2>2. ASSUME NEW i \in 1 .. n + 1 PROVE parts'[i][2] - parts'[i][1] < Limit
      <3>1. CASE i = n + 1
        BY <1>3, <3>1
      <3>2. CASE i \in 1 .. n
        BY <1>3, <2>1, <3>2
      <3>3. QED
        BY <1>a, <3>1, <3>2
    <2>3. QED
      BY <1>3, <2>2 DEF Split!FitsMessage
  <1>7. \A i \in 1 .. n : parts[i][2] \in Nat /\ parts[i][1] \in Nat
    BY <1>4 DEF C
  <1>8. Split!OnlyNewlinesLost'
    <2>1. /\ \A i \in 1 .. n - 1 : \A p \in parts[i][2] + 1 .. parts[i + 1][1] - 1 : newline[p]
          /\ parts # <<>> => /\ parts[1][1] = 1
                             /\ \A p \in parts[n][2] + 1 .. from - 1 : newline[p]
                             /\ parts[n][2] < from
          /\ \A i \in 1 .. n - 1 : parts[i + 1][1] > parts[i][2]
          /\ parts = <<>> => from = 1
      BY DEF SplitInv, Split!OnlyNewlinesLost, n
    <2>2. ASSUME NEW i \in 1 .. n
          PROVE  /\ \A p \in parts'[i][2] + 1 .. parts'[i + 1][1] - 1 : newline'[p]
                 /\ parts'[i + 1][1] > parts'[i][2]
      <3>1. CASE i = n
        <4>a. parts # <<>>
          BY <1>a, <3>1 DEF n
        <4>1. parts'[i] = parts[n] /\ parts'[i + 1] = <<from, y>>
          BY <1>a, <1>3, <3>1
        <4>b. PICK t : t = parts'[i + 1]
          OBVIOUS
        <4>c. t[1] = from
          BY <4>1, <4>b, PairHas
        <4>2. parts'[i][2] = parts[n][2] /\ parts'[i + 1][1] = from
          BY <4>1, <4>b, <4>c
        <4>3. QED
          BY <2>1, <4>a, <4>2
      <3>2. CASE i # n
        <4>1. i \in 1 .. n - 1 /\ i + 1 \in 1 .. n
          BY <1>1, <3>2
        <4>2. parts'[i] = parts[i] /\ parts'[i + 1] = parts[i + 1]
          BY <1>3, <4>1
        <4>3. QED
          BY <2>1, <4>1, <4>2
      <3>3. QED
        BY <3>1, <3>2
    <2>3. parts'[1][1] = 1
      <3>1. CASE parts = <<>>
        <4>1. n = 0
          BY <3>1 DEF n
        <4>2. QED
          BY <1>3, <2>1, <3>1, <4>1
      <3>2. CASE parts # <<>>
        <4>1. 1 \in 1 .. n
          BY <1>1, <3>2 DEF n
        <4>2. QED
          BY <1>3, <2>1, <3>2, <4>1
      <3>3. QED
        BY <3>1, <3>2
    <2>4. /\ Len(parts') - 1 = n /\ parts'[Len(parts')][2] = y
      BY <1>1, <1>3
    <2>5. \A p \in parts'[Len(parts')][2] + 1 .. from' - 1 : newline'[p]
      BY <2>4
    <2>6. QED
      BY <2>2, <2>3, <2>4, <2>5 DEF Split!OnlyNewlinesLost
  <1>9. Split!CutsLongLinesOnly'
    <2>1. ASSUME NEW i \in 1 .. n + 1, parts'[i][2] < Len(newline), ~newline[parts'[i][2] + 1]
          PROVE  /\ {p \in parts'[i][1] .. parts'[i][2] : newline[p]} = {}
                 /\ parts'[i][2] - parts'[i][1] + 1 = Limit
      <3>1. CASE i = n + 1
        <4>1. parts'[i] = <<from, y>>
          BY <1>3, <3>1
        <4>1a. PICK t : t = parts'[i]
          OBVIOUS
        <4>1b. t[1] = from /\ t[2] = y
          BY <4>1, <4>1a, PairHas
        <4>a. parts'[i][2] = y /\ parts'[i][1] = from
          BY <4>1a, <4>1b
        <4>b. y # Len(newline)
          <5>1. y < Len(newline)
            BY <2>1, <4>a, Zenon
          <5>2. Len(newline) \in Int
            BY <1>1
          <5>3. QED
            BY <5>1, <5>2
        <4>c. ~newline[y + 1]
          BY <2>1, <4>a
        <4>2. Split!Newlines(from, y) = {} /\ y - from + 1 = Limit
          BY <4>b, <4>c
        <4>3. QED
          BY <4>a, <4>2 DEF Split!Newlines
      <3>2. CASE i \in 1 .. n
        BY <1>3, <2>1, <3>2 DEF SplitInv, Split!CutsLongLinesOnly, Split!Newlines, Split!Size
      <3>3. QED
        BY <1>a, <3>1, <3>2
    <2>2. QED
      BY <1>3, <2>1 DEF Split!CutsLongLinesOnly, Split!Newlines, Split!Size
  <1>10. parts' # <<>> /\ parts'[Len(parts')][2] < from'
    BY <1>1, <1>3, PairHas
  <1>11. QED
    BY <1>1, <1>5, <1>6, <1>8, <1>9, <1>10 DEF SplitInv

(* The parts stay in order while the reply is split. *)
LEMMA SplitSteps ==
  ASSUME Split!SplitAssumption, SplitInv, Split!Next \/ UNCHANGED splitVars
  PROVE  SplitInv'
  <1>1. /\ newline \in Seq(BOOLEAN) /\ Len(newline) \in Nat /\ from \in 1 .. Len(newline) + 1
    BY DEF SplitInv, Split!TypeOK, Split!Size
  <1>2. CASE Split!Takes
    <2> DEFINE c == Split!Cut(from)
    <2>1. /\ from <= Len(newline) /\ Len(newline) - from + 1 > Limit
          /\ parts' = Append(parts, <<from, c>>) /\ from' = Split!Stripped(c + 1)
          /\ newline' = newline
      BY <1>2 DEF Split!Takes, Split!Size
    <2>2. /\ c \in Nat /\ from - 1 <= c /\ c < Len(newline) /\ c - from < Limit
          /\ \/ newline[c + 1]
             \/ Split!Newlines(from, c) = {} /\ c - from + 1 = Limit
      BY <2>1, CutIsFair
    <2> HIDE DEF c
    <2>3. c + 1 \in Nat /\ c + 1 >= 1 /\ c + 1 <= Len(newline) + 1 /\ c \in 0 .. Len(newline)
      BY <1>1, <2>2
    <2>4. /\ Split!Stripped(c + 1) \in c + 1 .. Len(newline) + 1
          /\ \A p \in c + 1 .. Split!Stripped(c + 1) - 1 : newline[p]
      BY <1>1, <2>3, StripsNewlines
    <2>5. from' \in 1 .. Len(newline) + 1 /\ c < from' /\ \A p \in c + 1 .. from' - 1 : newline[p]
      BY <1>1, <2>1, <2>3, <2>4
    <2>6. QED
      BY <2>1, <2>2, <2>3, <2>5, PartKeeps
  <1>3. CASE Split!TakesRest
    <2> DEFINE y == Len(newline)
    <2>1. /\ from <= Len(newline) /\ Len(newline) - from + 1 <= Limit
          /\ parts' = Append(parts, <<from, y>>) /\ from' = y + 1 /\ newline' = newline
      BY <1>3 DEF Split!TakesRest, Split!Size
    <2>2. /\ y \in 0 .. Len(newline) /\ from - 1 <= y /\ y - from < Limit /\ y = Len(newline)
          /\ from' \in 1 .. Len(newline) + 1 /\ y < from' /\ \A p \in y + 1 .. from' - 1 : newline[p]
      BY <1>1, <2>1 DEF Split!SplitAssumption
    <2> HIDE DEF y
    <2>3. QED
      BY <2>1, <2>2, PartKeeps
  <1>4. CASE UNCHANGED splitVars
    BY <1>4 DEF splitVars, SplitInv, Split!TypeOK, Split!FitsMessage, Split!OnlyNewlinesLost,
                Split!CutsLongLinesOnly, Split!Newlines, Split!Size
  <1>5. QED
    BY <1>2, <1>3, <1>4 DEF Split!Next

(* A reply of which nothing was taken yet. *)
LEMMA SplitStarts == ASSUME Split!SplitAssumption, Split!Init PROVE SplitInv
  <1>1. PICK n \in 1 .. MaxText : newline \in [1 .. n -> BOOLEAN]
    BY DEF Split!Init
  <1>2. n \in Nat
    BY <1>1 DEF Split!SplitAssumption
  <1>3. newline \in Seq(BOOLEAN) /\ Len(newline) \in Nat
    BY <1>1, <1>2
  <1>4. parts = <<>> /\ from = 1 /\ Len(parts) = 0 /\ DOMAIN parts = {}
    BY DEF Split!Init
  <1>5. QED
    BY <1>3, <1>4 DEF SplitInv, Split!TypeOK, Split!Size, Split!FitsMessage,
                      Split!OnlyNewlinesLost, Split!CutsLongLinesOnly

-----------------------------------------------------------------------------
(* Telegram updates: telegram_webhook() and what it sends.                    *)

DeliveryType ==
  [update : Incoming, pc : Webhook!Over \cup {"received", "route", "markdown", "plain",
                                              "apology", "answer"},
   open : BOOLEAN, said : {"nothing", "reply", "empty", "error"}, sent : 0 .. Pieces,
   seen : [1 .. Pieces -> Nat], refused : 0 .. 2]

\* What a delivery has sent, and has been refused, where it stands.
Sending(r) ==
  /\ r.said = "reply" /\ r.sent < Pieces /\ \A c \in 1 .. r.sent : r.seen[c] > 0
  /\ r.refused = IF r.pc = "plain" THEN 1 ELSE 0
Going(r) ==
  /\ r.pc \in {"received", "route"} => r.said = "nothing" /\ r.sent = 0 /\ r.refused = 0
  /\ r.pc \in {"markdown", "plain"} => Sending(r)
  /\ r.pc = "apology" => r.said = "error" /\ r.sent = 0 /\ r.refused = 0
  /\ r.pc \in {"answer", "done"} =>
       /\ r.said = "reply" => r.refused = 2 \/ \A c \in 1 .. Pieces : r.seen[c] > 0
       /\ r.said = "error" => r.refused = 1 \/ r.seen[1] > 0

HookInv ==
  /\ about \in [Incoming -> Webhook!Kinds] /\ waiting \subseteq Incoming
  /\ sendFaults \in 0 .. SendFaults /\ run \in Seq(DeliveryType)
  /\ \A d \in DOMAIN run : Going(run[d])
  /\ Webhook!ForgottenWhenDone

(* One delivery goes on: what is kept of the others, and of what is done. *)
LEMMA HookMoves ==
  ASSUME HookInv, NEW d \in DOMAIN run, NEW r \in DeliveryType,
         run' = [run EXCEPT ![d] = r], Going(r), r.update = run[d].update,
         run[d].pc # "done", about' = about, sendFaults' \in 0 .. SendFaults,
         \/ waiting' = waiting
         \/ waiting' = waiting \ {r.update} /\ r.pc = "done"
  PROVE  HookInv'
  <1>1. /\ run' \in Seq(DeliveryType) /\ DOMAIN run' = DOMAIN run /\ run'[d] = r
        /\ \A e \in DOMAIN run \ {d} : run'[e] = run[e]
    BY DEF HookInv
  <1>2. \A e \in DOMAIN run' : Going(run'[e])
    BY <1>1 DEF HookInv
  <1>3. Webhook!ForgottenWhenDone'
    <2>1. ASSUME NEW u \in Incoming \ waiting'
          PROVE  \E e \in DOMAIN run' : run'[e].update = u /\ run'[e].pc = "done"
      <3>1. CASE u \in waiting
        <4>1. r.update = u /\ r.pc = "done"
          BY <2>1, <3>1
        <4>2. QED
          BY <1>1, <4>1
      <3>2. CASE u \notin waiting
        <4>1. PICK e \in DOMAIN run : run[e].update = u /\ run[e].pc = "done"
          BY <2>1, <3>2 DEF HookInv, Webhook!ForgottenWhenDone
        <4>2. e # d
          BY <4>1
        <4>3. QED
          BY <1>1, <4>1, <4>2
      <3>3. QED
        BY <3>1, <3>2
    <2>2. QED
      BY <2>1 DEF Webhook!ForgottenWhenDone
  <1>4. about' \in [Incoming -> Webhook!Kinds] /\ waiting' \subseteq Incoming
    BY DEF HookInv
  <1>5. QED
    BY <1>1, <1>2, <1>3, <1>4 DEF HookInv

(* What a delivery is, and that it is one of the running. *)
LEMMA Deliveries ==
  ASSUME HookInv, NEW d \in DOMAIN run
  PROVE  run[d] \in DeliveryType /\ Going(run[d]) /\ sendFaults \in 0 .. SendFaults
  BY DEF HookInv

(* The checks, and the orchestrator. *)
LEMMA HookReceives ==
  ASSUME Webhook!UpdateAssumption, HookInv, NEW d \in DOMAIN run,
         Webhook!Receives(d) \/ Webhook!Routes(d)
  PROVE  HookInv'
  <1>1. run[d] \in DeliveryType /\ Going(run[d]) /\ sendFaults \in 0 .. SendFaults
    BY Deliveries
  <1>2. UNCHANGED <<about, waiting, sendFaults>> /\ run[d].pc \in {"received", "route"}
    BY DEF Webhook!Receives, Webhook!Routes, Webhook!At
  <1>3. run[d].said = "nothing" /\ run[d].sent = 0 /\ run[d].refused = 0
    BY <1>1, <1>2 DEF Going
  <1>4. PICK p \in {"answer", "route", "markdown", "apology"}, s \in {"nothing", "reply", "empty", "error"} :
          /\ run' = [run EXCEPT ![d] = [run[d] EXCEPT !.pc = p, !.said = s]]
          /\ p = "answer" => s \in {"nothing", "empty"}
          /\ p = "route" => s = "nothing"
          /\ p = "markdown" => s = "reply"
          /\ p = "apology" => s = "error"
    <2>1. CASE Webhook!Receives(d)
      <3>1. \A q : [run[d] EXCEPT !.pc = q, !.said = "nothing"] = [run[d] EXCEPT !.pc = q]
        BY <1>1, <1>3 DEF DeliveryType
      <3>2. PICK q \in {"answer", "route"} : run' = [run EXCEPT ![d].pc = q]
        BY <2>1 DEF Webhook!Receives, Webhook!Goes
      <3>3. run' = [run EXCEPT ![d] = [run[d] EXCEPT !.pc = q, !.said = "nothing"]]
        BY <3>1, <3>2
      <3>4. QED
        BY <3>2, <3>3
    <2>2. CASE Webhook!Routes(d)
      BY <2>2 DEF Webhook!Routes
    <2>3. QED
      BY <2>1, <2>2
  <1> DEFINE r == [run[d] EXCEPT !.pc = p, !.said = s]
  <1>5. /\ r \in DeliveryType /\ r.update = run[d].update /\ r.pc = p /\ r.said = s
        /\ r.sent = 0 /\ r.refused = 0 /\ run[d].pc # "done"
    BY <1>1, <1>2, <1>3 DEF DeliveryType
  <1>6. Going(r)
    <2> HIDE DEF r
    <2>1. Pieces \in Nat \ {0}
      BY DEF Webhook!UpdateAssumption
    <2>2. QED
      BY <1>4, <1>5, <2>1 DEF Going, Sending
  <1>7. run' = [run EXCEPT ![d] = r]
    BY <1>4
  <1> HIDE DEF r
  <1>8. QED
    BY <1>1, <1>2, <1>5, <1>6, <1>7, HookMoves

(* One message goes out. *)
LEMMA HookSends ==
  ASSUME Webhook!UpdateAssumption, HookInv, NEW d \in DOMAIN run, Webhook!Sends(d)
  PROVE  HookInv'
  <1> DEFINE old == run[d]
             last == Webhook!LastOf(old.pc)
             p == IF old.sent + 1 = last THEN "answer" ELSE old.pc
             r == [old EXCEPT !.sent = old.sent + 1, !.seen[old.sent + 1] = @ + 1, !.pc = p]
  <1>1. /\ old \in DeliveryType /\ Going(old) /\ sendFaults \in 0 .. SendFaults
        /\ Pieces \in Nat \ {0}
    BY Deliveries DEF Webhook!UpdateAssumption
  <1>2. /\ UNCHANGED <<about, waiting, sendFaults>>
        /\ old.pc \in {"markdown", "plain", "apology"} /\ run' = [run EXCEPT ![d] = r]
    BY DEF Webhook!Sends
  <1>3. /\ last \in 1 .. Pieces /\ old.sent < last /\ old.sent \in Nat
        /\ (old.pc = "apology" => last = 1) /\ (old.pc # "apology" => last = Pieces)
    BY <1>1, <1>2 DEF Going, Sending, Webhook!LastOf, DeliveryType
  <1>4. /\ old.sent + 1 \in 1 .. Pieces /\ old.seen \in [1 .. Pieces -> Nat]
        /\ p \in {"answer", "markdown", "plain", "apology"}
    <2>1. old.seen \in [1 .. Pieces -> Nat]
      BY <1>1 DEF DeliveryType
    <2>2. QED
      BY <1>1, <1>2, <1>3, <2>1
  <1>5. /\ r.update = old.update /\ r.pc = p /\ r.said = old.said /\ r.refused = old.refused
        /\ r.open = old.open /\ r.sent = old.sent + 1
        /\ r.seen = [old.seen EXCEPT ![old.sent + 1] = old.seen[old.sent + 1] + 1]
    BY <1>1 DEF DeliveryType
  <1>a. r = [old EXCEPT !.sent = old.sent + 1, !.pc = p,
               !.seen = [old.seen EXCEPT ![old.sent + 1] = old.seen[old.sent + 1] + 1]]
    BY <1>1 DEF DeliveryType
  <1> HIDE DEF p, r, last
  <1>6. /\ r.seen \in [1 .. Pieces -> Nat] /\ r.seen[old.sent + 1] > 0
        /\ \A c \in 1 .. Pieces : old.seen[c] > 0 => r.seen[c] > 0
    <2>1. \A f \in [1 .. Pieces -> Nat], m \in 1 .. Pieces :
            LET g == [f EXCEPT ![m] = f[m] + 1] IN
            /\ g \in [1 .. Pieces -> Nat] /\ g[m] > 0
            /\ \A c \in 1 .. Pieces : f[c] > 0 => g[c] > 0
      OBVIOUS
    <2>2. QED
      BY <1>4, <1>5, <2>1
  <1>7. r \in DeliveryType
    <2>1. \A o \in DeliveryType, q \in {"answer", "markdown", "plain", "apology"},
             m \in 0 .. Pieces, f \in [1 .. Pieces -> Nat] :
            [o EXCEPT !.sent = m, !.pc = q, !.seen = f] \in DeliveryType
      BY DEF DeliveryType
    <2>2. old.sent + 1 \in 0 .. Pieces
      BY <1>1, <1>4
    <2>3. [old.seen EXCEPT ![old.sent + 1] = old.seen[old.sent + 1] + 1] \in [1 .. Pieces -> Nat]
      BY <1>5, <1>6
    <2> HIDE DEF old
    <2>4. QED
      BY <1>1, <1>4, <1>a, <2>1, <2>2, <2>3
  <1>8. \A c \in 1 .. r.sent : old.pc # "apology" => r.seen[c] > 0
    <2>1. ASSUME NEW c \in 1 .. r.sent, old.pc # "apology" PROVE r.seen[c] > 0
      <3>1. CASE c = old.sent + 1
        BY <1>6, <3>1
      <3>2. CASE c # old.sent + 1
        <4>1. c \in 1 .. old.sent /\ c \in 1 .. Pieces
          BY <1>1, <1>3, <1>5, <3>2
        <4>2. old.seen[c] > 0
          BY <1>1, <1>2, <2>1, <4>1 DEF Going, Sending
        <4>3. QED
          BY <1>6, <4>1, <4>2
      <3>3. QED
        BY <3>1, <3>2
    <2>2. QED
      BY <2>1
  <1>9. Going(r)
    <2>1. CASE old.sent + 1 = last
      <3>1. r.pc = "answer"
        BY <1>5, <2>1 DEF p
      <3>2. old.pc = "apology" => r.said = "error" /\ r.seen[1] > 0
        BY <1>1, <1>3, <1>5, <1>6, <2>1 DEF Going
      <3>3. old.pc # "apology" => r.said = "reply" /\ \A c \in 1 .. Pieces : r.seen[c] > 0
        BY <1>1, <1>2, <1>3, <1>5, <1>8, <2>1 DEF Going, Sending
      <3>4. QED
        BY <3>1, <3>2, <3>3 DEF Going
    <2>2. CASE old.sent + 1 # last
      <3>1. /\ r.pc = old.pc /\ old.pc \in {"markdown", "plain"} /\ old.sent + 1 < Pieces
            /\ old.said = "reply" /\ old.refused = IF old.pc = "plain" THEN 1 ELSE 0
        BY <1>1, <1>2, <1>3, <1>5, <2>2 DEF p, Going, Sending
      <3>2. Sending(r)
        BY <1>5, <1>8, <3>1 DEF Sending
      <3>3. QED
        BY <3>1, <3>2 DEF Going
    <2>3. QED
      BY <2>1, <2>2
  <1>10. QED
    BY <1>1, <1>2, <1>5, <1>7, <1>9, HookMoves

(* A request is refused, or its answer is lost. *)
LEMMA HookRefused ==
  ASSUME Webhook!UpdateAssumption, HookInv, NEW d \in DOMAIN run, Webhook!Refused(d)
  PROVE  HookInv'
  <1>1. PICK shown \in {0, 1} :
          run' = [run EXCEPT ![d] = [run[d] EXCEPT !.seen[run[d].sent + 1] = @ + shown,
                    !.sent = 0, !.refused = @ + 1, !.pc = Webhook!AfterRefusal(run[d].pc)]]
    BY DEF Webhook!Refused
  <1> DEFINE old == run[d]
             m == old.sent + 1
             p == Webhook!AfterRefusal(old.pc)
             f == [old.seen EXCEPT ![m] = old.seen[m] + shown]
             r == [old EXCEPT !.seen = f, !.sent = 0, !.refused = old.refused + 1, !.pc = p]
  <1>2. /\ old \in DeliveryType /\ Going(old) /\ sendFaults \in 0 .. SendFaults
        /\ Pieces \in Nat \ {0} /\ SendFaults \in Nat
    BY Deliveries DEF Webhook!UpdateAssumption
  <1>3. /\ UNCHANGED <<about, waiting>> /\ sendFaults < SendFaults /\ sendFaults' = sendFaults + 1
        /\ old.pc \in {"markdown", "plain", "apology"}
    BY DEF Webhook!Refused
  <1>4. run' = [run EXCEPT ![d] = r]
    BY <1>1, <1>2 DEF DeliveryType
  <1>5. /\ r.update = old.update /\ r.pc = p /\ r.said = old.said /\ r.refused = old.refused + 1
        /\ r.sent = 0
    BY <1>2 DEF DeliveryType
  <1>6. /\ p \in {"plain", "answer"} /\ old.refused + 1 \in 1 .. 2 /\ m \in 1 .. Pieces
        /\ (p = "plain" => old.said = "reply" /\ old.refused = 0)
        /\ (p = "answer" => \/ old.said = "reply" /\ old.refused = 1
                            \/ old.said = "error" /\ old.refused = 0)
    <2>1. old.sent \in 0 .. Pieces /\ old.refused \in 0 .. 2
      BY <1>2 DEF DeliveryType
    <2> HIDE DEF old
    <2>2. QED
      BY <1>2, <1>3, <2>1 DEF Going, Sending, Webhook!AfterRefusal
  <1>7. f \in [1 .. Pieces -> Nat]
    <2>1. old.seen \in [1 .. Pieces -> Nat]
      BY <1>2 DEF DeliveryType
    <2>2. \A g \in [1 .. Pieces -> Nat], k \in 1 .. Pieces, s \in {0, 1} :
            [g EXCEPT ![k] = g[k] + s] \in [1 .. Pieces -> Nat]
      OBVIOUS
    <2> HIDE DEF m
    <2>3. QED
      BY <1>6, <2>1, <2>2
  <1>8. r \in DeliveryType
    <2>a. 0 \in 0 .. Pieces
      BY <1>2
    <2>1. \A o \in DeliveryType, q \in {"answer", "plain"}, k \in 0 .. 2,
             g \in [1 .. Pieces -> Nat] :
            [o EXCEPT !.seen = g, !.sent = 0, !.refused = k, !.pc = q] \in DeliveryType
      BY <2>a DEF DeliveryType
    <2> HIDE DEF f, p
    <2>b. old.refused + 1 \in 0 .. 2
      BY <1>6
    <2> HIDE DEF old
    <2>2. QED
      BY <1>2, <1>6, <1>7, <2>1, <2>b
  <1> HIDE DEF r, p, f, m
  <1>9. Going(r)
    BY <1>2, <1>5, <1>6 DEF Going, Sending
  <1>10. sendFaults' \in 0 .. SendFaults
    BY <1>2, <1>3
  <1>11. QED
    BY <1>3, <1>4, <1>5, <1>8, <1>9, <1>10, HookMoves

(* The 200, which ends the wait of Telegram when there is one. *)
LEMMA HookAnswers ==
  ASSUME HookInv, NEW d \in DOMAIN run, Webhook!Answers(d)
  PROVE  HookInv'
  <1> DEFINE old == run[d]
             r == [old EXCEPT !.pc = "done", !.open = FALSE]
  <1>1. /\ old \in DeliveryType /\ Going(old) /\ sendFaults \in 0 .. SendFaults
    BY Deliveries
  <1>2. /\ UNCHANGED <<about, sendFaults>> /\ old.pc = "answer" /\ run' = [run EXCEPT ![d] = r]
        /\ waiting' = waiting \/ waiting' = waiting \ {old.update}
    BY DEF Webhook!Answers, Webhook!At
  <1>3. /\ r \in DeliveryType /\ r.update = old.update /\ r.pc = "done" /\ r.said = old.said
        /\ r.seen = old.seen /\ r.refused = old.refused
    BY <1>1 DEF DeliveryType, Webhook!Over
  <1> HIDE DEF r
  <1>4. Going(r)
    BY <1>1, <1>2, <1>3 DEF Going
  <1>5. QED
    BY <1>1, <1>2, <1>3, <1>4, HookMoves

(* Telegram gives up waiting for one delivery. *)
LEMMA HookWaits ==
  ASSUME Webhook!UpdateAssumption, HookInv, NEW d \in DOMAIN run, Webhook!StopsWaiting(d)
  PROVE  HookInv'
  <1> DEFINE old == run[d]
             r == [old EXCEPT !.open = FALSE]
  <1>1. /\ old \in DeliveryType /\ Going(old) /\ sendFaults \in 0 .. SendFaults
        /\ SendFaults \in Nat
    BY Deliveries DEF Webhook!UpdateAssumption
  <1>2. /\ UNCHANGED <<about, waiting>> /\ sendFaults < SendFaults /\ sendFaults' = sendFaults + 1
        /\ old.pc # "done" /\ run' = [run EXCEPT ![d] = r]
    BY DEF Webhook!StopsWaiting, Webhook!Running, Webhook!Over
  <1>3. /\ r \in DeliveryType /\ r.update = old.update /\ r.pc = old.pc /\ r.said = old.said
        /\ r.seen = old.seen /\ r.refused = old.refused /\ r.sent = old.sent
    BY <1>1 DEF DeliveryType
  <1> HIDE DEF r
  <1>4. Going(r)
    BY <1>1, <1>3 DEF Going, Sending
  <1>5. sendFaults' \in 0 .. SendFaults
    BY <1>1, <1>2
  <1>6. QED
    BY <1>2, <1>3, <1>4, <1>5, HookMoves

(* A crash ends the deliveries that run and nothing else. *)
LEMMA HookCrash ==
  ASSUME Webhook!UpdateAssumption, HookInv, Webhook!Crash
  PROVE  HookInv'
  <1>1. /\ UNCHANGED <<about, waiting>> /\ sendFaults < SendFaults /\ sendFaults' = sendFaults + 1
        /\ run' = [d \in DOMAIN run |-> IF d \in Webhook!Running
                                        THEN [run[d] EXCEPT !.pc = "lost", !.open = FALSE] ELSE run[d]]
    BY DEF Webhook!Crash
  <1>2. /\ run \in Seq(DeliveryType) /\ sendFaults \in 0 .. SendFaults /\ SendFaults \in Nat
        /\ about \in [Incoming -> Webhook!Kinds] /\ waiting \subseteq Incoming
    BY DEF HookInv, Webhook!UpdateAssumption
  <1>3. ASSUME NEW d \in DOMAIN run
        PROVE  /\ run'[d] \in DeliveryType /\ Going(run'[d])
               /\ run[d].pc = "done" => run'[d] = run[d]
    <2>1. run[d] \in DeliveryType /\ Going(run[d])
      BY Deliveries
    <2>2. CASE d \in Webhook!Running
      <3> DEFINE r == [run[d] EXCEPT !.pc = "lost", !.open = FALSE]
      <3>1. run'[d] = r
        BY <1>1, <2>2
      <3>2. r \in DeliveryType /\ r.pc = "lost" /\ run[d].pc # "done"
        BY <2>1, <2>2 DEF DeliveryType, Webhook!Over, Webhook!Running
      <3> HIDE DEF r
      <3>3. QED
        BY <3>1, <3>2 DEF Going
    <2>3. CASE d \notin Webhook!Running
      BY <1>1, <2>1, <2>3
    <2>4. QED
      BY <2>2, <2>3
  <1>4. DOMAIN run' = DOMAIN run
    BY <1>1
  <1>5. run' \in Seq(DeliveryType)
    <2>1. DOMAIN run = 1 .. Len(run) /\ Len(run) \in Nat
      BY <1>2
    <2>2. run' \in [1 .. Len(run) -> DeliveryType]
      BY <1>1, <1>3, <2>1
    <2>3. QED
      BY <2>1, <2>2
  <1>6. Webhook!ForgottenWhenDone'
    <2>1. ASSUME NEW u \in Incoming \ waiting'
          PROVE  \E e \in DOMAIN run' : run'[e].update = u /\ run'[e].pc = "done"
      <3>1. PICK e \in DOMAIN run : run[e].update = u /\ run[e].pc = "done"
        BY <1>1 DEF HookInv, Webhook!ForgottenWhenDone
      <3>2. QED
        BY <1>3, <1>4, <3>1
    <2>2. QED
      BY <2>1 DEF Webhook!ForgottenWhenDone
  <1>7. sendFaults' \in 0 .. SendFaults
    <2>1. sendFaults < SendFaults /\ sendFaults' = sendFaults + 1
      BY <1>1
    <2>2. QED
      BY <1>2, <2>1
  <1>8. QED
    BY <1>1, <1>2, <1>3, <1>4, <1>5, <1>6, <1>7 DEF HookInv

(* A delivery begins with nothing said. *)
LEMMA HookDelivers ==
  ASSUME Webhook!UpdateAssumption, HookInv, NEW u \in Incoming, Webhook!Deliver(u)
  PROVE  HookInv'
  <1> DEFINE r == Webhook!Delivery(u)
  <1>1. UNCHANGED <<about, waiting, sendFaults>> /\ run' = Append(run, r)
    BY DEF Webhook!Deliver
  <1>2. r \in DeliveryType /\ r.pc = "received" /\ r.said = "nothing" /\ r.sent = 0 /\ r.refused = 0
    <2>1. Pieces \in Nat
      BY DEF Webhook!UpdateAssumption
    <2>2. QED
      BY <2>1 DEF Webhook!Delivery, DeliveryType
  <1> HIDE DEF r
  <1>3. Going(r)
    BY <1>2 DEF Going
  <1>4. /\ run \in Seq(DeliveryType) /\ \A d \in DOMAIN run : Going(run[d])
    BY DEF HookInv
  <1>5. /\ run' \in Seq(DeliveryType) /\ DOMAIN run' = DOMAIN run \cup {Len(run) + 1}
        /\ run'[Len(run) + 1] = r /\ \A d \in DOMAIN run : run'[d] = run[d]
    BY <1>1, <1>2, <1>4
  <1>6. \A d \in DOMAIN run' : Going(run'[d])
    BY <1>3, <1>4, <1>5
  <1>7. Webhook!ForgottenWhenDone'
    BY <1>1, <1>5 DEF HookInv, Webhook!ForgottenWhenDone
  <1>8. QED
    BY <1>1, <1>5, <1>6, <1>7 DEF HookInv

(* What the webhook has done stays accounted for. *)
LEMMA HookSteps ==
  ASSUME Webhook!UpdateAssumption, HookInv, Webhook!Next \/ UNCHANGED updateVars
  PROVE  HookInv'
  <1>1. ASSUME NEW u \in Incoming, Webhook!Deliver(u) PROVE HookInv'
    BY <1>1, HookDelivers
  <1>2. ASSUME NEW d \in DOMAIN run, Webhook!Handles(d) PROVE HookInv'
    BY <1>2, HookReceives, HookSends, HookRefused, HookAnswers DEF Webhook!Handles
  <1>3. ASSUME NEW d \in DOMAIN run, Webhook!StopsWaiting(d) PROVE HookInv'
    BY <1>3, HookWaits
  <1>4. CASE Webhook!Crash
    BY <1>4, HookCrash
  <1>5. CASE UNCHANGED updateVars
    BY <1>5 DEF updateVars, HookInv, Webhook!ForgottenWhenDone
  <1>6. QED
    BY <1>1, <1>2, <1>3, <1>4, <1>5 DEF Webhook!Next

(* At the start every update waits. *)
LEMMA HookStarts == ASSUME Webhook!UpdateAssumption, Webhook!Init PROVE HookInv
  <1>1. run = <<>> /\ DOMAIN run = {} /\ run \in Seq(DeliveryType)
    BY DEF Webhook!Init
  <1>2. QED
    BY <1>1 DEF HookInv, Webhook!Init, Webhook!ForgottenWhenDone, Webhook!UpdateAssumption

(* The invariant says what the run checks. *)
LEMMA HookShows ==
  ASSUME HookInv
  PROVE  Webhook!TypeOK /\ Webhook!ForgottenWhenDone /\ Webhook!SilenceExplained
  <1>1. \A d \in DOMAIN run : run[d] \in DeliveryType /\ Going(run[d])
    BY Deliveries
  <1>2. Webhook!TypeOK
    BY <1>1 DEF HookInv, Webhook!TypeOK, DeliveryType
  <1>3. Webhook!SilenceExplained
    BY <1>1 DEF Webhook!SilenceExplained, Going
  <1>4. QED
    BY <1>2, <1>3 DEF HookInv

-----------------------------------------------------------------------------
(* Start-up and shutdown: lifespan() of main.py.                              *)

\* What is up at each point, and who has been waited for.
LifeInv ==
  /\ Life!TypeOK /\ Life!AliveIsServed
  /\ phase = "starting" => \A i \in 1 .. 16 : i < at => Life!Stages[i] \in up \cup off
  /\ phase = "serving" \/ (phase = "stopping" /\ at < 8) => {"telegram", "mcp", "browser"} \subseteq up
  /\ phase = "stopping" => /\ \A i \in 1 .. 7 : i < at => task[Life!Awaited[i]] \in {"none", "ended"}
                           /\ at > 8 => "daemons" \notin up
  /\ phase = "stopped" => \A w \in Life!Tasks : task[w] \in {"none", "ended"}

(* The stages and the tasks, one by one. *)
LEMMA TheTasks ==
  /\ Life!Tasks = {"consumer", "escalation", "auditor", "scheduler", "reindex", "cleanup", "polling"}
  /\ Len(Life!Stages) = 16 /\ Len(Life!Awaited) = 7 /\ Len(Life!Shutdown) = 11
  /\ Life!ToSet(Life!Stages) =
       {"tables", "group", "tools", "interceptor", "agents", "retriever", "reindex",
        "telegram", "consumer", "escalation", "polling", "auditor", "scheduler",
        "cleanup", "daemons", "mcp"}
  <1>1. Life!Tasks = {"consumer", "escalation", "auditor", "scheduler", "reindex", "cleanup", "polling"}
    <2>1. DOMAIN Life!Awaited = 1 .. 7
      BY DEF Life!Awaited
    <2>2. Life!Tasks = {Life!Awaited[i] : i \in 1 .. 7}
      BY <2>1 DEF Life!Tasks, Life!ToSet
    <2>3. QED
      BY <2>2 DEF Life!Awaited
  <1>2. Len(Life!Stages) = 16 /\ Len(Life!Awaited) = 7 /\ Len(Life!Closings) = 4
    BY DEF Life!Stages, Life!Awaited, Life!Closings
  <1>3. Len(Life!Shutdown) = 11
    BY DEF Life!Shutdown, Life!Awaited, Life!Closings
  <1>4. Life!ToSet(Life!Stages) =
       {"tables", "group", "tools", "interceptor", "agents", "retriever", "reindex",
        "telegram", "consumer", "escalation", "polling", "auditor", "scheduler",
        "cleanup", "daemons", "mcp"}
    <2>1. DOMAIN Life!Stages = 1 .. 16
      BY DEF Life!Stages
    <2>2. Life!ToSet(Life!Stages) = {Life!Stages[i] : i \in 1 .. 16}
      BY <2>1 DEF Life!ToSet
    <2>3. QED
      BY <2>2 DEF Life!Stages
  <1>5. QED
    BY <1>1, <1>2, <1>3, <1>4

(* What each of them uses comes up before it. *)
LEMMA UsesComeFirst ==
  ASSUME NEW i \in 1 .. 16
  PROVE  \A s \in Life!Uses(Life!Stages[i]) : \E j \in 1 .. i - 1 : s = Life!Stages[j]
  BY DEF Life!Stages, Life!Uses, Life!RunAgents

(* What is closed last. *)
LEMMA TheClosings ==
  /\ \A i \in 1 .. 7 : Life!Shutdown[i] = Life!Awaited[i]
  /\ Life!Shutdown[8] = "daemons" /\ Life!Shutdown[9] = "mcp"
  /\ Life!Shutdown[10] = "browser" /\ Life!Shutdown[11] = "telegram"
  /\ \A w \in Life!Tasks : \E i \in 1 .. 7 : w = Life!Awaited[i]
  <1>1. \A w \in Life!Tasks : \E i \in 1 .. 7 : w = Life!Awaited[i]
    <2>1. DOMAIN Life!Awaited = 1 .. 7
      BY DEF Life!Awaited
    <2>2. QED
      BY <2>1 DEF Life!Tasks, Life!ToSet
  <1>2. \A i \in 1 .. 7 : Life!Shutdown[i] = Life!Awaited[i]
    BY DEF Life!Shutdown, Life!Awaited, Life!Closings
  <1>3. /\ Life!Shutdown[8] = "daemons" /\ Life!Shutdown[9] = "mcp"
        /\ Life!Shutdown[10] = "browser" /\ Life!Shutdown[11] = "telegram"
    BY DEF Life!Shutdown, Life!Awaited, Life!Closings
  <1>4. QED
    BY <1>1, <1>2, <1>3

(* While nothing comes up or is closed, it is enough that nobody comes alive. *)
LEMMA StaysServed ==
  ASSUME Life!AliveIsServed, up' = up, off' = off,
         \A w \in Life!Tasks : task'[w] \in {"running", "cancelling"} =>
                                  task[w] \in {"running", "cancelling"}
  PROVE  Life!AliveIsServed'
  <1>1. Life!Alive' \subseteq Life!Alive
    BY DEF Life!Alive
  <1>2. QED
    BY <1>1 DEF Life!AliveIsServed

(* The tasks that are told to end are those that run. *)
LEMMA ToldAreAlive ==
  ASSUME LifeInv, task' = [w \in Life!Tasks |-> IF task[w] = "running" THEN "cancelling" ELSE task[w]]
  PROVE  /\ task' \in [Life!Tasks -> {"none", "running", "cancelling", "ended"}]
         /\ \A w \in Life!Tasks : task'[w] \in {"running", "cancelling"} =>
                                     task[w] \in {"running", "cancelling"}
  BY DEF LifeInv, Life!TypeOK

(* A stage comes up. *)
LEMMA LifeStage == ASSUME LifeInv, Life!StageDone PROVE LifeInv'
  <1> DEFINE s == Life!Stages[at]
  <1>1. /\ phase = "starting" /\ phase' = phase /\ at \in 1 .. 16 /\ at' = at + 1
        /\ UNCHANGED <<off, deaf, lifeFaults>>
        /\ up' = IF s \in off THEN up ELSE up \cup {s}
        /\ task' = IF s \in Life!Tasks \ off THEN [task EXCEPT ![s] = "running"] ELSE task
    BY TheTasks DEF Life!StageDone, LifeInv, Life!TypeOK
  <1>2. \A i \in 1 .. 16 : i < at => Life!Stages[i] \in up \cup off
    BY <1>1 DEF LifeInv
  <1>3. s \in Life!ToSet(Life!Stages)
    <2>1. DOMAIN Life!Stages = 1 .. 16
      BY DEF Life!Stages
    <2>2. QED
      BY <1>1, <2>1 DEF Life!ToSet
  <1>4. Life!Uses(s) \ off \subseteq up
    <2>1. \A u \in Life!Uses(s) : \E j \in 1 .. at - 1 : u = Life!Stages[j]
      BY <1>1, UsesComeFirst
    <2>2. \A j \in 1 .. at - 1 : j \in 1 .. 16 /\ j < at
      BY <1>1
    <2> HIDE DEF s
    <2>3. QED
      BY <1>2, <2>1, <2>2
  <1>5. at' \in 1 .. 17 /\ \A i \in 1 .. 16 : i < at' => i < at \/ i = at
    BY <1>1
  <1> HIDE DEF s
  <1>6. Life!Alive' \subseteq Life!Alive \cup ({s} \ off) /\ up \subseteq up'
    BY <1>1 DEF Life!Alive, LifeInv, Life!TypeOK
  <1>7. Life!AliveIsServed'
    BY <1>1, <1>4, <1>6 DEF LifeInv, Life!AliveIsServed
  <1>8. Life!TypeOK'
    BY <1>1, <1>3, <1>5, TheTasks DEF LifeInv, Life!TypeOK
  <1>9. \A i \in 1 .. 16 : i < at' => Life!Stages[i] \in up' \cup off'
    BY <1>1, <1>2, <1>5 DEF s
  <1>10. QED
    BY <1>1, <1>7, <1>8, <1>9 DEF LifeInv

(* All stages are up but those the settings leave out. *)
LEMMA LifeReady == ASSUME LifeInv, Life!Ready PROVE LifeInv'
  <1>1. /\ phase = "starting" /\ phase' = "serving" /\ at = 17 /\ up' = up \cup {"browser"}
        /\ UNCHANGED <<off, at, task, deaf, lifeFaults>>
    BY TheTasks DEF Life!Ready
  <1>2. Life!Stages[8] = "telegram" /\ Life!Stages[16] = "mcp"
    BY DEF Life!Stages
  <1>3. {"telegram", "mcp"} \subseteq up
    <2>1. Life!Stages[8] \in up \cup off /\ Life!Stages[16] \in up \cup off
      BY <1>1 DEF LifeInv
    <2>2. QED
      BY <1>2, <2>1 DEF LifeInv, Life!TypeOK, Life!Optional
  <1>4. Life!AliveIsServed'
    BY <1>1 DEF LifeInv, Life!AliveIsServed, Life!Alive
  <1>5. Life!TypeOK'
    BY <1>1 DEF LifeInv, Life!TypeOK
  <1>6. QED
    BY <1>1, <1>3, <1>4, <1>5 DEF LifeInv

(* The lifespan is left with an exception. *)
LEMMA LifeAborts ==
  ASSUME Life!LifespanAssumption, LifeInv, Life!StageRaises \/ Life!StopRaises PROVE LifeInv'
  <1>1. /\ phase' = "aborted" /\ lifeFaults < LifeFaults /\ lifeFaults' = lifeFaults + 1
        /\ task' = [w \in Life!Tasks |-> IF task[w] = "running" THEN "cancelling" ELSE task[w]]
        /\ UNCHANGED <<off, at, up, deaf>>
    BY DEF Life!StageRaises, Life!StopRaises, Life!Aborts
  <1>2. Life!AliveIsServed'
    BY <1>1, ToldAreAlive, StaysServed DEF LifeInv
  <1>3. lifeFaults' \in 0 .. LifeFaults
    BY <1>1 DEF LifeInv, Life!TypeOK, Life!LifespanAssumption
  <1>4. Life!TypeOK'
    BY <1>1, <1>3, ToldAreAlive DEF LifeInv, Life!TypeOK
  <1>5. QED
    BY <1>1, <1>2, <1>4 DEF LifeInv

(* The shutdown begins. *)
LEMMA LifeStops == ASSUME LifeInv, Life!BeginShutdown PROVE LifeInv'
  <1>1. /\ phase = "serving" /\ phase' = "stopping" /\ at' = 1
        /\ task' = [w \in Life!Tasks |-> IF task[w] = "running" THEN "cancelling" ELSE task[w]]
        /\ UNCHANGED <<off, up, deaf, lifeFaults>>
    BY DEF Life!BeginShutdown, Life!ToldToEnd
  <1>2. Life!AliveIsServed'
    BY <1>1, ToldAreAlive, StaysServed DEF LifeInv
  <1>3. Life!TypeOK'
    BY <1>1, ToldAreAlive, TheTasks DEF LifeInv, Life!TypeOK
  <1>4. QED
    BY <1>1, <1>2, <1>3 DEF LifeInv

(* A task that was told to end ends, or goes on. *)
LEMMA LifeTasks ==
  ASSUME Life!LifespanAssumption, LifeInv, NEW w \in Life!Tasks,
         Life!TaskEnds(w) \/ Life!CancelSwallowed(w)
  PROVE  LifeInv'
  <1>1. PICK s \in {"ended", "running"} : task' = [task EXCEPT ![w] = s]
    BY DEF Life!TaskEnds, Life!CancelSwallowed
  <1>2. /\ task[w] = "cancelling" /\ UNCHANGED <<off, phase, at, up>>
        /\ \/ UNCHANGED <<deaf, lifeFaults>>
           \/ /\ deaf' = deaf \cup {w} /\ w \in Life!RunAgents
              /\ lifeFaults < LifeFaults /\ lifeFaults' = lifeFaults + 1
    BY DEF Life!TaskEnds, Life!CancelSwallowed
  <1>3. /\ task \in [Life!Tasks -> {"none", "running", "cancelling", "ended"}]
        /\ lifeFaults \in 0 .. LifeFaults /\ LifeFaults \in Nat
    BY DEF LifeInv, Life!TypeOK, Life!LifespanAssumption
  <1>4. /\ task' \in [Life!Tasks -> {"none", "running", "cancelling", "ended"}]
        /\ \A v \in Life!Tasks : task[v] \in {"none", "ended"} => task'[v] = task[v]
        /\ \A v \in Life!Tasks : task'[v] \in {"running", "cancelling"} =>
                                    task[v] \in {"running", "cancelling"}
    BY <1>1, <1>2, <1>3
  <1>5. Life!AliveIsServed'
    BY <1>2, <1>4, StaysServed DEF LifeInv
  <1>6. Life!TypeOK'
    BY <1>2, <1>3, <1>4 DEF LifeInv, Life!TypeOK
  <1>7. \A i \in 1 .. 7 : Life!Awaited[i] \in Life!Tasks
    BY TheTasks DEF Life!Awaited
  <1>8. QED
    BY <1>2, <1>4, <1>5, <1>6, <1>7 DEF LifeInv

(* The shutdown goes on to the next task when this one has ended. *)
LEMMA LifeAwaits == ASSUME LifeInv, Life!AwaitsNext PROVE LifeInv'
  <1>1. /\ phase = "stopping" /\ at \in 1 .. 7 /\ task[Life!Awaited[at]] \in {"none", "ended"}
        /\ at' = at + 1 /\ UNCHANGED <<off, phase, up, task, deaf, lifeFaults>>
    BY TheTasks DEF Life!AwaitsNext, Life!AwaitReturns, LifeInv, Life!TypeOK
  <1>2. Life!AliveIsServed'
    BY <1>1, StaysServed DEF LifeInv
  <1>3. at' \in 1 .. 17 /\ at < 8 /\ ~(at' > 8) /\ \A i \in 1 .. 7 : i < at' => i < at \/ i = at
    BY <1>1
  <1>4. Life!TypeOK'
    BY <1>1, <1>3, TheTasks DEF LifeInv, Life!TypeOK
  <1>5. QED
    BY <1>1, <1>2, <1>3, <1>4 DEF LifeInv

(* When the closing begins no task is alive. *)
LEMMA NobodyAlive ==
  ASSUME LifeInv, phase = "stopping", at > 7
  PROVE  \A w \in Life!Tasks : task[w] \in {"none", "ended"}
  <1>1. \A i \in 1 .. 7 : i < at => task[Life!Awaited[i]] \in {"none", "ended"}
    BY DEF LifeInv
  <1>2. at \in Int
    BY TheTasks DEF LifeInv, Life!TypeOK
  <1>3. \A i \in 1 .. 7 : i < at
    BY <1>2
  <1>4. QED
    BY <1>1, <1>3, TheClosings

(* The daemons are stopped before anything is closed. *)
LEMMA LifeCloses == ASSUME LifeInv, Life!Closes PROVE LifeInv'
  <1>1. /\ phase = "stopping" /\ at \in 8 .. 11 /\ up' = up \ {Life!Shutdown[at]} /\ at' = at + 1
        /\ UNCHANGED <<off, phase, task, deaf, lifeFaults>>
    BY TheTasks DEF Life!Closes, LifeInv, Life!TypeOK
  <1>2. \A w \in Life!Tasks : task[w] \in {"none", "ended"}
    BY <1>1, NobodyAlive
  <1>3. "daemons" \notin up'
    <2>1. CASE at = 8
      BY <1>1, <2>1, TheClosings
    <2>2. CASE at # 8
      <3>1. at > 8
        BY <1>1, <2>2
      <3>2. QED
        BY <1>1, <3>1 DEF LifeInv
    <2>3. QED
      BY <2>1, <2>2
  <1>4. Life!AliveIsServed'
    BY <1>1, <1>2, <1>3 DEF Life!AliveIsServed, Life!Alive
  <1>5. at' \in 1 .. 17 /\ ~(at' < 8)
    BY <1>1
  <1>6. Life!TypeOK'
    BY <1>1, <1>5, TheTasks DEF LifeInv, Life!TypeOK
  <1>7. \A i \in 1 .. 7 : Life!Awaited[i] \in Life!Tasks
    BY TheTasks DEF Life!Awaited
  <1>8. QED
    BY <1>1, <1>2, <1>3, <1>4, <1>5, <1>6, <1>7 DEF LifeInv

(* The process is down. *)
LEMMA LifeDown == ASSUME LifeInv, Life!Down PROVE LifeInv'
  <1>1. /\ phase = "stopping" /\ at = 12 /\ phase' = "stopped"
        /\ UNCHANGED <<off, at, up, task, deaf, lifeFaults>>
    BY TheTasks DEF Life!Down
  <1>2. \A w \in Life!Tasks : task[w] \in {"none", "ended"}
    BY <1>1, NobodyAlive
  <1>3. Life!AliveIsServed'
    BY <1>1, StaysServed DEF LifeInv
  <1>4. Life!TypeOK'
    BY <1>1 DEF LifeInv, Life!TypeOK
  <1>5. QED
    BY <1>1, <1>2, <1>3, <1>4 DEF LifeInv

(* Start-up and shutdown keep their order. *)
LEMMA LifeSteps ==
  ASSUME Life!LifespanAssumption, LifeInv, Life!Next \/ UNCHANGED lifeVars PROVE LifeInv'
  <1>1. CASE UNCHANGED lifeVars
    BY <1>1 DEF lifeVars, LifeInv, Life!TypeOK, Life!AliveIsServed, Life!Alive
  <1>2. CASE Life!Next
    BY <1>2, LifeStage, LifeReady, LifeAborts, LifeStops, LifeTasks, LifeAwaits, LifeCloses,
       LifeDown DEF Life!Next
  <1>3. QED
    BY <1>1, <1>2

(* Nothing is up at the start. *)
LEMMA LifeStarts == ASSUME Life!LifespanAssumption, Life!Init PROVE LifeInv
  <1>1. Life!TypeOK
    BY TheTasks DEF Life!Init, Life!TypeOK, Life!LifespanAssumption
  <1>2. Life!AliveIsServed
    BY DEF Life!Init, Life!AliveIsServed, Life!Alive
  <1>3. QED
    BY <1>1, <1>2 DEF LifeInv, Life!Init

(* The invariant says what the run checks: as long as a task is alive in a shutdown the
   closing has not begun. *)
LEMMA LifeShows ==
  ASSUME LifeInv PROVE Life!TypeOK /\ Life!AliveIsServed /\ Life!ClosedAfterUse
  <1>1. ASSUME phase \in {"stopping", "stopped"}, NEW w \in Life!Alive \cap Life!Tasks
        PROVE  Life!Holds(w) \subseteq up
    <2>1. task[w] \in {"running", "cancelling"}
      <3>1. "daemons" \notin Life!Tasks
        BY TheTasks
      <3>2. QED
        BY <3>1 DEF Life!Alive
    <2>2. phase = "stopping" /\ ~(at > 7)
      BY <1>1, <2>1, NobodyAlive DEF LifeInv
    <2>3. at < 8
      BY <2>2, TheTasks DEF LifeInv, Life!TypeOK
    <2>4. {"telegram", "mcp", "browser"} \subseteq up
      BY <2>2, <2>3 DEF LifeInv
    <2>5. QED
      BY <2>4 DEF Life!Holds
  <1>2. QED
    BY <1>1 DEF LifeInv, Life!ClosedAfterUse

-----------------------------------------------------------------------------
(* The tool registry: mcp/legacy/loader.py and mcp/registry.py.               *)

ToolType == [name : ToolNames, file : Nat]
Sound(k) == k \in DOMAIN files /\ files[k].state # "unusable"
FromFile(t) == Sound(t.file) /\ t.name = files[t.file].name
Taken(t) == files[t.file].state = "whole" /\ files[t.file].name \notin RefusedNames

\* The loaded tools are the usable files before n, in their order.
LoadedUpTo(n) ==
  /\ \A i \in DOMAIN loaded : FromFile(loaded[i]) /\ loaded[i].file < n
  /\ \A i, j \in DOMAIN loaded : i < j => loaded[i].file < loaded[j].file
  /\ \A k \in DOMAIN files : k < n /\ Sound(k) => \E i \in DOMAIN loaded : loaded[i].file = k
  /\ Len(loaded) < n

\* What is registered after the first m of them, and some built-in tools.
RegisteredUpTo(m) ==
  /\ \A i \in DOMAIN loaded : i <= m =>
       /\ loaded[i].name \in DOMAIN tools
       /\ tools[loaded[i].name] # 0 => loaded[i].file <= tools[loaded[i].name]
       /\ Taken(loaded[i])
  /\ \A n \in DOMAIN tools :
       \/ tools[n] = 0 /\ n \in BuiltIns
       \/ \E i \in DOMAIN loaded : i <= m /\ loaded[i].name = n /\ loaded[i].file = tools[n]

CatalogInv ==
  /\ files \in Seq(Catalog!Files) /\ loaded \in Seq(ToolType) /\ Catalog!TypeOK
  /\ IF loader = "loading" THEN LoadedUpTo(file) /\ DOMAIN tools = {} ELSE LoadedUpTo(Len(files) + 1)
  /\ loader = "registering" => RegisteredUpTo(file - 1) /\ \A n \in DOMAIN tools : tools[n] # 0
  /\ loader \in {"builtin", "serving"} => RegisteredUpTo(Len(loaded))
  /\ loader = "serving" => \A n \in BuiltIns : n \in DOMAIN tools /\ tools[n] = 0

(* The types, for those who need nothing else. *)
LEMMA CatalogTypes ==
  ASSUME CatalogInv
  PROVE  /\ files \in Seq(Catalog!Files) /\ loaded \in Seq(ToolType)
         /\ Len(files) \in Nat /\ Len(loaded) \in Nat /\ file \in 1 .. Len(files) + 1 /\ file \in Nat
         /\ DOMAIN files = 1 .. Len(files) /\ DOMAIN loaded = 1 .. Len(loaded)
         /\ DOMAIN tools \subseteq ToolNames \cup BuiltIns
         /\ \A n \in DOMAIN tools : tools[n] \in 0 .. Len(files)
         /\ \A i \in DOMAIN loaded : loaded[i].file \in Nat /\ loaded[i].name \in ToolNames
         /\ \A k \in DOMAIN files : files[k].name \in ToolNames
  <1>1. files \in Seq(Catalog!Files) /\ loaded \in Seq(ToolType) /\ Catalog!TypeOK
    BY DEF CatalogInv
  <1>2. \A i \in DOMAIN loaded : loaded[i] \in ToolType
    BY <1>1
  <1>3. \A k \in DOMAIN files : files[k] \in Catalog!Files
    BY <1>1
  <1>4. /\ \A i \in DOMAIN loaded : loaded[i].file \in Nat /\ loaded[i].name \in ToolNames
        /\ \A k \in DOMAIN files : files[k].name \in ToolNames
    BY <1>2, <1>3 DEF ToolType, Catalog!Files
  <1>5. QED
    BY <1>1, <1>4 DEF Catalog!TypeOK

(* A file is loaded when it is usable, and skipped when it is not. *)
LEMMA CatalogLoads == ASSUME CatalogInv, Catalog!Load PROVE CatalogInv'
  <1>1. /\ loader = "loading" /\ file <= Len(files) /\ file' = file + 1
        /\ UNCHANGED <<files, tools, loader>>
        /\ loaded' = IF files[file].state # "unusable" THEN Append(loaded, [name |-> files[file].name, file |-> file])
                     ELSE loaded
    BY DEF Catalog!Load, Catalog!Loads
  <1>2. /\ LoadedUpTo(file) /\ DOMAIN tools = {}
    BY <1>1 DEF CatalogInv
  <1>3. /\ files \in Seq(Catalog!Files) /\ loaded \in Seq(ToolType)
        /\ Len(files) \in Nat /\ Len(loaded) \in Nat /\ file \in 1 .. Len(files) + 1 /\ file \in Nat
        /\ DOMAIN files = 1 .. Len(files) /\ DOMAIN loaded = 1 .. Len(loaded)
        /\ \A i \in DOMAIN loaded : loaded[i].file \in Nat
        /\ \A k \in DOMAIN files : files[k].name \in ToolNames
    BY CatalogTypes
  <1>4. file \in DOMAIN files /\ file' \in 1 .. Len(files) + 1
    BY <1>1, <1>3
  <1>5. Catalog!TypeOK'
    BY <1>1, <1>4 DEF CatalogInv, Catalog!TypeOK
  <1>6. loaded' \in Seq(ToolType) /\ LoadedUpTo(file)'
    <2>1. CASE files[file].state = "unusable"
      <3>1. loaded' = loaded /\ ~Sound(file)
        BY <1>1, <2>1 DEF Sound
      <3>2. \A k \in DOMAIN files : k < file + 1 /\ Sound(k) => k < file /\ Sound(k)
        BY <1>3, <3>1
      <3>3. \A i \in DOMAIN loaded : loaded[i].file < file + 1
        BY <1>2, <1>3 DEF LoadedUpTo
      <3>4. Len(loaded) < file + 1
        BY <1>2, <1>3 DEF LoadedUpTo
      <3>5. /\ \A i \in DOMAIN loaded : FromFile(loaded[i])
            /\ \A i, j \in DOMAIN loaded : i < j => loaded[i].file < loaded[j].file
            /\ \A k \in DOMAIN files : k < file + 1 /\ Sound(k) => \E i \in DOMAIN loaded : loaded[i].file = k
        BY <1>2, <3>2 DEF LoadedUpTo
      <3>6. UNCHANGED <<files, loaded>> /\ file' = file + 1
        BY <1>1, <3>1
      <3>7. LoadedUpTo(file)'
        BY <3>3, <3>4, <3>5, <3>6 DEF LoadedUpTo, FromFile, Sound
      <3>8. QED
        BY <1>3, <3>1, <3>7
    <2>2. CASE files[file].state # "unusable"
      <3> DEFINE t == [name |-> files[file].name, file |-> file]
                 n == Len(loaded)
      <3>1. t \in ToolType /\ t.file = file /\ t.name = files[file].name
        BY <1>3, <1>4 DEF ToolType
      <3>2. loaded' = Append(loaded, t)
        BY <1>1, <2>2
      <3> HIDE DEF t
      <3>3. /\ loaded' \in Seq(ToolType) /\ Len(loaded') = n + 1 /\ DOMAIN loaded' = 1 .. n + 1
            /\ loaded'[n + 1] = t /\ \A i \in 1 .. n : loaded'[i] = loaded[i]
        BY <1>3, <3>1, <3>2
      <3>4. /\ \A i \in 1 .. n : FromFile(loaded[i]) /\ loaded[i].file < file /\ loaded[i].file \in Nat
            /\ n < file
            /\ \A i, j \in 1 .. n : i < j => loaded[i].file < loaded[j].file
            /\ \A k \in DOMAIN files : k < file /\ Sound(k) => \E i \in 1 .. n : loaded[i].file = k
        BY <1>2, <1>3 DEF LoadedUpTo
      <3>5. n \in Nat /\ \A i \in 1 .. n + 1 : i \in 1 .. n \/ i = n + 1
        BY <1>3
      <3> HIDE DEF n
      <3>6. ASSUME NEW i \in 1 .. n + 1
            PROVE  FromFile(loaded'[i]) /\ loaded'[i].file < file + 1
        <4>1. CASE i = n + 1
          BY <1>3, <1>4, <2>2, <3>1, <3>3, <4>1 DEF FromFile, Sound
        <4>2. CASE i \in 1 .. n
          BY <1>3, <3>3, <3>4, <4>2
        <4>3. QED
          BY <3>5, <4>1, <4>2
      <3>7. ASSUME NEW i \in 1 .. n + 1, NEW j \in 1 .. n + 1, i < j
            PROVE  loaded'[i].file < loaded'[j].file
        <4>1. i \in 1 .. n
          BY <3>5, <3>7
        <4>2. CASE j = n + 1
          BY <3>1, <3>3, <3>4, <4>1, <4>2
        <4>3. CASE j \in 1 .. n
          BY <3>3, <3>4, <3>7, <4>1, <4>3
        <4>4. QED
          BY <3>5, <4>2, <4>3
      <3>8. ASSUME NEW k \in DOMAIN files, k < file + 1, Sound(k)
            PROVE  \E i \in 1 .. n + 1 : loaded'[i].file = k
        <4>1. k < file \/ k = file
          BY <1>3, <3>8
        <4>2. CASE k < file
          BY <3>3, <3>4, <3>5, <3>8, <4>2
        <4>3. CASE k = file
          <5>1. n + 1 \in 1 .. n + 1
            BY <3>5
          <5>2. QED
            BY <3>1, <3>3, <4>3, <5>1
        <4>4. QED
          BY <4>1, <4>2, <4>3
      <3>9. Len(loaded') < file + 1
        BY <1>3, <3>3, <3>4, <3>5
      <3>10. LoadedUpTo(file)'
        BY <1>1, <3>3, <3>6, <3>7, <3>8, <3>9 DEF LoadedUpTo, FromFile, Sound
      <3>11. QED
        BY <3>3, <3>10
    <2>3. QED
      BY <2>1, <2>2
  <1>7. QED
    BY <1>1, <1>2, <1>3, <1>5, <1>6 DEF CatalogInv

(* The registration of the loaded tools begins. *)
LEMMA CatalogLoaded == ASSUME CatalogInv, Catalog!Loaded PROVE CatalogInv'
  <1>1. /\ loader = "loading" /\ file > Len(files) /\ loader' = "registering" /\ file' = 1
        /\ UNCHANGED <<files, loaded, tools>>
    BY DEF Catalog!Loaded
  <1>2. LoadedUpTo(file) /\ DOMAIN tools = {}
    BY <1>1 DEF CatalogInv
  <1>3. file = Len(files) + 1 /\ 1 \in 1 .. Len(files) + 1
    BY <1>1, CatalogTypes
  <1>4. LoadedUpTo(Len(files) + 1)'
    BY <1>1, <1>2, <1>3 DEF LoadedUpTo, FromFile, Sound
  <1>5. RegisteredUpTo(file - 1)'
    <2>1. \A i \in DOMAIN loaded : ~(i <= 1 - 1)
      BY CatalogTypes
    <2>2. QED
      BY <1>1, <1>2, <2>1 DEF RegisteredUpTo
  <1>6. Catalog!TypeOK'
    BY <1>1, <1>3 DEF CatalogInv, Catalog!TypeOK
  <1>7. QED
    BY <1>1, <1>2, <1>4, <1>5, <1>6 DEF CatalogInv

(* What is loaded stays so while it is registered. *)
LEMMA LoadedStays ==
  ASSUME CatalogInv, loader # "loading", UNCHANGED <<files, loaded>>
  PROVE  /\ LoadedUpTo(Len(files) + 1) /\ LoadedUpTo(Len(files) + 1)'
         /\ files' \in Seq(Catalog!Files) /\ loaded' \in Seq(ToolType)
         /\ Len(loaded) <= Len(files)
  <1>1. LoadedUpTo(Len(files) + 1)
    BY DEF CatalogInv
  <1>2. Len(loaded) <= Len(files)
    BY <1>1, CatalogTypes DEF LoadedUpTo
  <1>3. QED
    BY <1>1, <1>2 DEF CatalogInv, LoadedUpTo, FromFile, Sound

(* A tool is registered, in the place of an earlier one of its name. *)
LEMMA CatalogRegisters == ASSUME CatalogInv, Catalog!Register PROVE CatalogInv'
  <1> DEFINE t == loaded[file]
             D == DOMAIN tools
  <1>1. /\ loader = "registering" /\ file <= Len(loaded) /\ file' = file + 1
        /\ UNCHANGED <<files, loaded, loader>>
        /\ tools' = [m \in D \cup {t.name} |-> IF m = t.name THEN t.file ELSE tools[m]]
        /\ Taken(t)
    BY DEF Catalog!Register, Catalog!AfterRegister, Catalog!With, Catalog!Accepted, Taken
  <1>2. /\ RegisteredUpTo(file - 1) /\ (\A n \in D : tools[n] # 0)
    BY <1>1 DEF CatalogInv
  <1>3. /\ Len(files) \in Nat /\ Len(loaded) \in Nat /\ file \in 1 .. Len(files) + 1 /\ file \in Nat
        /\ DOMAIN files = 1 .. Len(files) /\ DOMAIN loaded = 1 .. Len(loaded)
        /\ D \subseteq ToolNames \cup BuiltIns
        /\ \A n \in D : tools[n] \in 0 .. Len(files)
        /\ \A i \in DOMAIN loaded : loaded[i].file \in Nat /\ loaded[i].name \in ToolNames
    BY CatalogTypes
  <1>4. /\ LoadedUpTo(Len(files) + 1) /\ LoadedUpTo(Len(files) + 1)'
        /\ files' \in Seq(Catalog!Files) /\ loaded' \in Seq(ToolType) /\ Len(loaded) <= Len(files)
    BY <1>1, LoadedStays
  <1>5. /\ file \in DOMAIN loaded /\ t.file \in 1 .. Len(files) /\ t.name \in ToolNames
        /\ \A i \in DOMAIN loaded : i < file => loaded[i].file < t.file
    BY <1>1, <1>3, <1>4 DEF LoadedUpTo, FromFile, Sound
  <1>6. /\ DOMAIN tools' = D \cup {t.name} /\ tools'[t.name] = t.file
        /\ \A n \in D : n # t.name => tools'[n] = tools[n]
    BY <1>1
  <1>7. file' \in 1 .. Len(files) + 1 /\ file' - 1 = file
    BY <1>1, <1>3, <1>4
  <1> HIDE DEF t, D
  <1>8. Catalog!TypeOK'
    <2>1. DOMAIN tools' \subseteq ToolNames \cup BuiltIns
      BY <1>3, <1>5, <1>6
    <2>2. \A n \in DOMAIN tools' : tools'[n] \in 0 .. Len(files)
      BY <1>3, <1>5, <1>6
    <2>3. QED
      BY <1>1, <1>7, <2>1, <2>2 DEF Catalog!TypeOK
  <1>9. ASSUME NEW i \in DOMAIN loaded, i <= file
        PROVE  /\ loaded[i].name \in DOMAIN tools'
               /\ tools'[loaded[i].name] # 0 => loaded[i].file <= tools'[loaded[i].name]
               /\ Taken(loaded[i])
    <2>0. Taken(loaded[i])
      <3>1. CASE i = file
        BY <1>1, <3>1 DEF t
      <3>2. CASE i # file
        <4>1. i <= file - 1
          BY <1>3, <1>9, <3>2
        <4>2. QED
          BY <1>2, <4>1 DEF RegisteredUpTo
      <3>3. QED
        BY <3>1, <3>2
    <2>1. i = file \/ i < file
      BY <1>3, <1>9
    <2>2. CASE loaded[i].name = t.name
      <3>1. loaded[i].file <= t.file
        BY <1>3, <1>5, <2>1 DEF t
      <3>2. QED
        BY <1>6, <2>0, <2>2, <3>1
    <2>3. CASE loaded[i].name # t.name
      <3>1. i <= file - 1
        BY <1>3, <2>1, <2>3 DEF t
      <3>2. /\ loaded[i].name \in D
            /\ tools[loaded[i].name] # 0 => loaded[i].file <= tools[loaded[i].name]
        BY <1>2, <3>1 DEF RegisteredUpTo, D
      <3>3. QED
        BY <1>6, <2>0, <2>3, <3>2
    <2>4. QED
      BY <2>2, <2>3
  <1>10. ASSUME NEW n \in DOMAIN tools'
         PROVE  /\ \/ tools'[n] = 0 /\ n \in BuiltIns
                   \/ \E i \in DOMAIN loaded : /\ i <= file /\ loaded[i].name = n
                                               /\ loaded[i].file = tools'[n]
                /\ tools'[n] # 0
    <2>1. CASE n = t.name
      <3>1. file <= file /\ t.file # 0
        BY <1>3, <1>5
      <3>2. QED
        BY <1>5, <1>6, <2>1, <3>1 DEF t
    <2>2. CASE n # t.name
      <3>1. n \in D /\ tools'[n] = tools[n] /\ tools[n] # 0
        BY <1>2, <1>6, <2>2
      <3>2. PICK i \in DOMAIN loaded : i <= file - 1 /\ loaded[i].name = n /\ loaded[i].file = tools[n]
        BY <1>2, <3>1 DEF RegisteredUpTo, D
      <3>3. i <= file
        BY <1>3, <3>2
      <3>4. QED
        BY <3>1, <3>2, <3>3
    <2>3. QED
      BY <2>1, <2>2
  <1>11. RegisteredUpTo(file - 1)' /\ \A n \in DOMAIN tools' : tools'[n] # 0
    <2>1. loaded' = loaded /\ file' - 1 = file
      BY <1>1, <1>7
    <2>2. \A i \in DOMAIN loaded' : i <= file' - 1 =>
            /\ loaded'[i].name \in DOMAIN tools'
            /\ tools'[loaded'[i].name] # 0 => loaded'[i].file <= tools'[loaded'[i].name]
            /\ files'[loaded'[i].file].state = "whole"
            /\ files'[loaded'[i].file].name \notin RefusedNames
      BY <1>1, <1>9, <2>1 DEF Taken
    <2>3. \A n \in DOMAIN tools' :
            \/ tools'[n] = 0 /\ n \in BuiltIns
            \/ \E i \in DOMAIN loaded' : /\ i <= file' - 1 /\ loaded'[i].name = n
                                         /\ loaded'[i].file = tools'[n]
      BY <1>10, <2>1
    <2>4. QED
      BY <1>10, <2>2, <2>3 DEF RegisteredUpTo, Taken
  <1>12. QED
    BY <1>1, <1>4, <1>8, <1>11 DEF CatalogInv

(* A built-in tool takes the place of any other of its name. *)
LEMMA CatalogBuildsIn ==
  ASSUME CatalogInv, NEW b \in BuiltIns, Catalog!RegisterBuiltIn(b) PROVE CatalogInv'
  <1> DEFINE D == DOMAIN tools
  <1>1. /\ loader = "builtin" /\ UNCHANGED <<files, loaded, loader, file>>
        /\ tools' = [m \in D \cup {b} |-> IF m = b THEN 0 ELSE tools[m]]
    BY DEF Catalog!RegisterBuiltIn, Catalog!AfterRegister, Catalog!With
  <1>2. RegisteredUpTo(Len(loaded))
    BY <1>1 DEF CatalogInv
  <1>3. /\ LoadedUpTo(Len(files) + 1)' /\ files' \in Seq(Catalog!Files) /\ loaded' \in Seq(ToolType)
    BY <1>1, LoadedStays
  <1>4. /\ DOMAIN tools' = D \cup {b} /\ tools'[b] = 0
        /\ \A n \in D : n # b => tools'[n] = tools[n]
    BY <1>1
  <1>5. Catalog!TypeOK'
    <2>1. /\ Len(files) \in Nat /\ D \subseteq ToolNames \cup BuiltIns
          /\ \A n \in D : tools[n] \in 0 .. Len(files)
      BY CatalogTypes
    <2>2. /\ DOMAIN tools' \subseteq ToolNames \cup BuiltIns
          /\ \A n \in DOMAIN tools' : tools'[n] \in 0 .. Len(files)
      BY <1>4, <2>1
    <2>3. QED
      BY <1>1, <2>2 DEF CatalogInv, Catalog!TypeOK
  <1>6. RegisteredUpTo(Len(loaded))'
    <2>1. \A i \in DOMAIN loaded : i <= Len(loaded) =>
            /\ loaded[i].name \in D
            /\ tools[loaded[i].name] # 0 => loaded[i].file <= tools[loaded[i].name]
            /\ Taken(loaded[i])
      BY <1>2 DEF RegisteredUpTo
    <2>2. \A n \in D : \/ tools[n] = 0 /\ n \in BuiltIns
                       \/ \E i \in DOMAIN loaded : /\ i <= Len(loaded) /\ loaded[i].name = n
                                                   /\ loaded[i].file = tools[n]
      BY <1>2 DEF RegisteredUpTo
    <2> HIDE DEF D
    <2>3. \A i \in DOMAIN loaded : i <= Len(loaded) =>
            /\ loaded[i].name \in DOMAIN tools'
            /\ tools'[loaded[i].name] # 0 => loaded[i].file <= tools'[loaded[i].name]
            /\ Taken(loaded[i])
      BY <1>4, <2>1
    <2>4. \A n \in DOMAIN tools' :
            \/ tools'[n] = 0 /\ n \in BuiltIns
            \/ \E i \in DOMAIN loaded : /\ i <= Len(loaded) /\ loaded[i].name = n
                                        /\ loaded[i].file = tools'[n]
      BY <1>4, <2>2
    <2>5. QED
      BY <1>1, <2>3, <2>4 DEF RegisteredUpTo, Taken
  <1>7. QED
    BY <1>1, <1>3, <1>5, <1>6 DEF CatalogInv

(* The last step of each phase, and a name that is refused. *)
LEMMA CatalogPasses ==
  ASSUME CatalogInv, Catalog!RegisterRaises \/ Catalog!Registered \/ Catalog!Serve
  PROVE  CatalogInv'
  <1>1. UNCHANGED <<files, loaded, tools, file>> /\ loader \in {"registering", "builtin"}
    BY DEF Catalog!RegisterRaises, Catalog!Registered, Catalog!Serve
  <1>2. /\ LoadedUpTo(Len(files) + 1)' /\ files' \in Seq(Catalog!Files) /\ loaded' \in Seq(ToolType)
    BY <1>1, LoadedStays
  <1>3. CASE Catalog!RegisterRaises
    BY <1>1, <1>2, <1>3 DEF Catalog!RegisterRaises, CatalogInv, Catalog!TypeOK
  <1>4. CASE Catalog!Serve
    <2>1. RegisteredUpTo(Len(loaded))
      BY <1>4 DEF Catalog!Serve, CatalogInv
    <2>2. RegisteredUpTo(Len(loaded))'
      BY <1>1, <2>1 DEF RegisteredUpTo, Taken
    <2>3. QED
      BY <1>1, <1>2, <1>4, <2>2 DEF Catalog!Serve, CatalogInv, Catalog!TypeOK
  <1>5. CASE Catalog!Registered
    <2>1. RegisteredUpTo(file - 1) /\ file > Len(loaded)
      BY <1>5 DEF Catalog!Registered, CatalogInv
    <2>2. \A i \in DOMAIN loaded : i <= file - 1 /\ i <= Len(loaded)
      BY <2>1, CatalogTypes
    <2>3. RegisteredUpTo(Len(loaded))'
      BY <1>1, <2>1, <2>2 DEF RegisteredUpTo, Taken
    <2>4. QED
      BY <1>1, <1>2, <1>5, <2>3 DEF Catalog!Registered, CatalogInv, Catalog!TypeOK
  <1>6. QED
    BY <1>3, <1>4, <1>5

(* The registry stays what its files and the built-in tools make it. *)
LEMMA CatalogSteps ==
  ASSUME CatalogInv, Catalog!Next \/ UNCHANGED catalogVars PROVE CatalogInv'
  <1>1. CASE UNCHANGED catalogVars
    BY <1>1 DEF catalogVars, CatalogInv, Catalog!TypeOK, LoadedUpTo, RegisteredUpTo, FromFile, Sound, Taken
  <1>2. CASE Catalog!Next
    BY <1>2, CatalogLoads, CatalogLoaded, CatalogRegisters, CatalogBuildsIn, CatalogPasses
       DEF Catalog!Next
  <1>3. QED
    BY <1>1, <1>2

(* Nothing is loaded at the start. *)
LEMMA CatalogStarts == ASSUME Catalog!CatalogAssumption, Catalog!Init PROVE CatalogInv
  <1>1. PICK k \in 0 .. MaxFiles : files \in [1 .. k -> Catalog!Files]
    BY DEF Catalog!Init
  <1>2. k \in Nat
    BY <1>1 DEF Catalog!CatalogAssumption
  <1>3. files \in Seq(Catalog!Files) /\ Len(files) \in Nat
    BY <1>1, <1>2
  <1>4. /\ loaded = <<>> /\ loaded \in Seq(ToolType) /\ Len(loaded) = 0 /\ DOMAIN loaded = {}
        /\ DOMAIN tools = {} /\ loader = "loading" /\ file = 1
    BY DEF Catalog!Init
  <1>5. LoadedUpTo(1)
    BY <1>3, <1>4 DEF LoadedUpTo
  <1>6. Catalog!TypeOK
    BY <1>3, <1>4 DEF Catalog!TypeOK
  <1>7. QED
    BY <1>3, <1>4, <1>5, <1>6 DEF CatalogInv

(* What is served under a name is what the run says. *)
LEMMA CatalogShows == ASSUME CatalogInv PROVE Catalog!TypeOK /\ Catalog!CatalogComplete
  <1>1. ASSUME loader = "serving"
        PROVE  /\ DOMAIN tools = BuiltIns \cup {files[i].name : i \in {j \in DOMAIN files : files[j].state # "unusable"}}
               /\ \A i \in DOMAIN files : files[i].state # "unusable" => Catalog!Accepted(files[i])
               /\ \A n \in DOMAIN tools : tools[n] = Catalog!Provider(n)
    <2>1. /\ LoadedUpTo(Len(files) + 1) /\ RegisteredUpTo(Len(loaded))
          /\ \A n \in BuiltIns : n \in DOMAIN tools /\ tools[n] = 0
      BY <1>1 DEF CatalogInv
    <2>2. /\ DOMAIN files = 1 .. Len(files) /\ Len(files) \in Nat
          /\ DOMAIN loaded = 1 .. Len(loaded) /\ Len(loaded) \in Nat
      BY CatalogTypes
    <2>3. ASSUME NEW k \in DOMAIN files, files[k].state # "unusable"
          PROVE  /\ files[k].name \in DOMAIN tools
                 /\ tools[files[k].name] # 0 => k <= tools[files[k].name]
                 /\ Catalog!Accepted(files[k])
      <3>1. k < Len(files) + 1 /\ Sound(k)
        BY <2>2, <2>3 DEF Sound
      <3>2. PICK i \in DOMAIN loaded : loaded[i].file = k
        BY <2>1, <3>1 DEF LoadedUpTo
      <3>3. loaded[i].name = files[k].name /\ i <= Len(loaded)
        BY <2>1, <2>2, <3>2 DEF LoadedUpTo, FromFile
      <3>4. Taken(loaded[i])
        BY <2>1, <3>3 DEF RegisteredUpTo
      <3>5. Catalog!Accepted(files[k])
        BY <3>2, <3>4 DEF Taken, Catalog!Accepted
      <3>6. QED
        BY <2>1, <3>2, <3>3, <3>5 DEF RegisteredUpTo
    <2>4. ASSUME NEW n \in DOMAIN tools, n \notin BuiltIns
          PROVE  tools[n] \in DOMAIN files /\ files[tools[n]].state # "unusable" /\ files[tools[n]].name = n
      <3>1. PICK i \in DOMAIN loaded : loaded[i].name = n /\ loaded[i].file = tools[n]
        BY <2>1, <2>4 DEF RegisteredUpTo
      <3>2. QED
        BY <2>1, <3>1 DEF LoadedUpTo, FromFile, Sound
    <2>5. DOMAIN tools = BuiltIns \cup {files[i].name : i \in {j \in DOMAIN files : files[j].state # "unusable"}}
      BY <2>1, <2>3, <2>4
    <2>6. ASSUME NEW n \in DOMAIN tools PROVE tools[n] = Catalog!Provider(n)
      <3>1. CASE n \in BuiltIns
        BY <2>1, <3>1 DEF Catalog!Provider
      <3>2. CASE n \notin BuiltIns
        <4> DEFINE fs == {i \in DOMAIN files : files[i].state # "unusable" /\ files[i].name = n}
        <4>1. tools[n] \in fs /\ \A j \in fs : j <= tools[n]
          <5>1. tools[n] \in fs /\ tools[n] # 0
            BY <2>2, <2>4, <3>2
          <5>2. QED
            BY <2>3, <5>1
        <4>2. \A i \in fs : i \in Nat
          BY <2>2
        <4>3. Catalog!Provider(n) = CHOOSE i \in fs : \A j \in fs : j <= i
          BY <3>2 DEF Catalog!Provider, Catalog!Loads
        <4> HIDE DEF fs
        <4>4. \A i \in fs : (\A j \in fs : j <= i) => i = tools[n]
          BY <4>1, <4>2
        <4>5. QED
          BY <4>1, <4>3, <4>4
      <3>3. QED
        BY <3>1, <3>2
    <2>7. QED
      BY <2>3, <2>5, <2>6
  <1>2. QED
    BY <1>1 DEF CatalogInv, Catalog!CatalogComplete, Catalog!Loads

-----------------------------------------------------------------------------
(* The agents and their routes: agents/registry.py and api/routes.py.         *)

RowType == [id : Nat \ {0}, is_system : BOOLEAN, data : [Columns -> Values]]
Rows == RowType \cup {Registry!NoRow}

\* What a request has loaded is a row, when it is going to update one.
RegistryInv ==
  /\ table \in [Registry!All -> Rows] /\ ids \in Nat \ {0}
  /\ \A n \in Registry!All : table[n] # Registry!NoRow => table[n].id <= ids
  /\ op \in [Requests -> Registry!Ops \cup {Registry!NoOp}] /\ seen \in [Requests -> Rows]
  /\ request \in [Requests -> {"new", "loaded", "done"}]
  /\ status \in [Requests -> {0, 200, 201, 400, 404, 409, 500}]
  /\ \A r \in Requests : request[r] = "loaded" =>
       op[r] \in Registry!Ops /\ (op[r].kind = "update" => seen[r] # Registry!NoRow)
  /\ Registry!SystemStays

(* A row has an id and NoRow has none; what a change of a row leaves. *)
LEMMA RowFacts ==
  /\ Registry!NoRow.id = 0
  /\ \A row \in Rows : (row # Registry!NoRow) <=> row \in RowType
  /\ \A row \in Rows : (row # Registry!NoRow) <=> row.id # 0
  /\ \A row \in RowType : row.id \in Nat \ {0} /\ row.is_system \in BOOLEAN
                            /\ row.data \in [Columns -> Values]
  <1>1. Registry!NoRow.id = 0
    BY DEF Registry!NoRow
  <1>2. \A row \in RowType : row.id \in Nat \ {0} /\ row.is_system \in BOOLEAN
                               /\ row.data \in [Columns -> Values]
    BY DEF RowType
  <1>3. QED
    BY <1>1, <1>2 DEF Rows

(* The request that was answered, and what its answer leaves alone. *)
LEMMA StatusGiven ==
  ASSUME RegistryInv, NEW r \in Requests, NEW code \in {200, 201, 400, 404, 409, 500},
         Registry!Status(r, code)
  PROVE  /\ request' \in [Requests -> {"new", "loaded", "done"}]
         /\ status' \in [Requests -> {0, 200, 201, 400, 404, 409, 500}]
         /\ request[r] \in {"new", "loaded"} => request'[r] = "done"
         /\ \A q \in Requests : request'[q] = "loaded" => q # r /\ request[q] = "loaded"
  BY DEF Registry!Status, RegistryInv

(* A request reads the row. *)
LEMMA RegistryLoads ==
  ASSUME RegistryInv, NEW r \in Requests, NEW o \in Registry!Ops, Registry!Load(r, o)
  PROVE  RegistryInv' /\ UNCHANGED <<table, ids>>
  <1> DEFINE row == table[o.name]
  <1>1. /\ request[r] = "new" /\ op' = [op EXCEPT ![r] = o] /\ seen' = [seen EXCEPT ![r] = row]
        /\ UNCHANGED <<table, ids>>
        /\ IF Registry!Early(o, row) # 0
           THEN Registry!Status(r, Registry!Early(o, row))
           ELSE request' = [request EXCEPT ![r] = "loaded"] /\ UNCHANGED status
    BY DEF Registry!Load
  <1>2. o.kind \in {"create", "update", "delete"} /\ o.name \in Registry!All
    BY DEF Registry!Ops
  <1>3. row \in Rows
    BY <1>2 DEF RegistryInv
  <1>4. /\ Registry!Early(o, row) \in {0, 400, 404, 409}
        /\ o.kind = "update" /\ row = Registry!NoRow => Registry!Early(o, row) = 404
    BY <1>2 DEF Registry!Early
  <1> HIDE DEF row
  <1>5. /\ op' \in [Requests -> Registry!Ops \cup {Registry!NoOp}] /\ seen' \in [Requests -> Rows]
        /\ op'[r] = o /\ seen'[r] = row
        /\ \A q \in Requests : q # r => op'[q] = op[q] /\ seen'[q] = seen[q]
    BY <1>1, <1>3 DEF RegistryInv
  <1>6. /\ request' \in [Requests -> {"new", "loaded", "done"}]
        /\ status' \in [Requests -> {0, 200, 201, 400, 404, 409, 500}]
        /\ \A q \in Requests : request'[q] = "loaded" =>
             \/ q # r /\ request[q] = "loaded"
             \/ q = r /\ Registry!Early(o, row) = 0
    <2>1. CASE Registry!Early(o, row) # 0
      <3>1. PICK code \in {200, 201, 400, 404, 409, 500} : Registry!Status(r, code)
        BY <1>1, <1>4, <2>1
      <3>2. QED
        BY <3>1, StatusGiven
    <2>2. CASE Registry!Early(o, row) = 0
      BY <1>1, <2>2 DEF RegistryInv
    <2>3. QED
      BY <2>1, <2>2
  <1>7. \A q \in Requests : request'[q] = "loaded" =>
          op'[q] \in Registry!Ops /\ (op'[q].kind = "update" => seen'[q] # Registry!NoRow)
    BY <1>4, <1>5, <1>6 DEF RegistryInv
  <1>8. Registry!SystemStays'
    BY <1>1 DEF RegistryInv, Registry!SystemStays
  <1>9. QED
    BY <1>1, <1>5, <1>6, <1>7, <1>8 DEF RegistryInv

\* The table after a commit: one name has another row, which is a system agent when the
\* one before was.
Replaces(n, row) ==
  /\ table' = [table EXCEPT ![n] = row] /\ n \in Registry!All /\ row \in Rows
  /\ (n = SystemAgent) <=> (row # Registry!NoRow /\ row.is_system)

(* A commit answers its request and replaces one row at most. *)
LEMMA RegistryCommits ==
  ASSUME RegistryInv, NEW r \in Requests, NEW code \in {200, 201, 400, 404, 409, 500},
         Registry!Status(r, code), UNCHANGED <<op, seen>>, ids' \in Nat, ids <= ids',
         \/ table' = table
         \/ \E n \in Registry!All, row \in Rows :
              Replaces(n, row) /\ (row # Registry!NoRow => row.id <= ids')
  PROVE  RegistryInv'
  <1>1. /\ table \in [Registry!All -> Rows] /\ ids \in Nat \ {0}
        /\ \A n \in Registry!All : table[n] # Registry!NoRow => table[n].id <= ids
        /\ Registry!SystemStays
    BY DEF RegistryInv
  <1>2. /\ table' \in [Registry!All -> Rows]
        /\ \A n \in Registry!All : table'[n] # Registry!NoRow => table'[n].id <= ids'
        /\ Registry!SystemStays'
    <2>1. CASE table' = table
      <3>1. \A n \in Registry!All : table[n] # Registry!NoRow => table[n].id \in Nat
        BY <1>1, RowFacts
      <3>2. QED
        BY <1>1, <2>1, <3>1 DEF Registry!SystemStays
    <2>2. ASSUME NEW n \in Registry!All, NEW row \in Rows, Replaces(n, row),
                 row # Registry!NoRow => row.id <= ids'
          PROVE  /\ table' \in [Registry!All -> Rows]
                 /\ \A m \in Registry!All : table'[m] # Registry!NoRow => table'[m].id <= ids'
                 /\ Registry!SystemStays'
      <3>1. /\ table' \in [Registry!All -> Rows] /\ table'[n] = row
            /\ \A m \in Registry!All : m # n => table'[m] = table[m]
        BY <1>1, <2>2 DEF Replaces
      <3>2. ASSUME NEW m \in Registry!All, table'[m] # Registry!NoRow PROVE table'[m].id <= ids'
        <4>1. CASE m = n
          BY <2>2, <3>1, <3>2, <4>1
        <4>2. CASE m # n
          <5>1. table[m].id \in Nat /\ table[m].id <= ids
            BY <1>1, <3>1, <3>2, <4>2, RowFacts
          <5>2. QED
            BY <1>1, <3>1, <4>2, <5>1
        <4>3. QED
          BY <4>1, <4>2
      <3>3. Registry!SystemStays'
        BY <1>1, <2>2, <3>1 DEF Replaces, Registry!SystemStays
      <3>4. QED
        BY <3>1, <3>2, <3>3
    <2>3. QED
      BY <2>1, <2>2
  <1>3. ids' \in Nat \ {0}
    BY <1>1
  <1>4. QED
    BY <1>2, <1>3, StatusGiven DEF RegistryInv

(* What is written into a row: the named attributes that differ from what was loaded. *)
LEMMA UpdateWrites ==
  ASSUME RegistryInv, NEW r \in Requests, request[r] = "loaded", Registry!CommitUpdate(r)
  PROVE  LET n == op[r].name IN
         /\ n \in Registry!All /\ UNCHANGED ids
         /\ \E code \in {200, 500} : Registry!Status(r, code)
         /\ \/ table' = table
            \/ /\ table[n] \in RowType /\ table[n].id = seen[r].id
               /\ \E row \in RowType :
                    /\ table' = [table EXCEPT ![n] = row]
                    /\ row.id = table[n].id /\ row.is_system = table[n].is_system
                    /\ \A f \in Columns : row.data[f] # table[n].data[f] =>
                         f \in DOMAIN op[r].set /\ op[r].set[f] = row.data[f]
  <1> DEFINE n == op[r].name
             set == op[r].set
             old == table[n]
             d == [f \in Columns |-> IF f \in Registry!Dirty(r) THEN Registry!New(r)[f]
                                     ELSE old.data[f]]
             row == [old EXCEPT !.data = d]
  <1>1. op[r] \in Registry!Ops /\ op[r].kind = "update" /\ seen[r] # Registry!NoRow
    BY DEF RegistryInv, Registry!CommitUpdate
  <1>2. n \in Registry!All /\ set \in Registry!Changes
    BY <1>1 DEF Registry!Ops
  <1>3. PICK fs : fs \subseteq Columns /\ set \in [fs -> Values]
    BY <1>2 DEF Registry!Changes
  <1>4. seen[r] \in RowType /\ old \in Rows
    BY <1>1, <1>2, RowFacts DEF RegistryInv
  <1>5. UNCHANGED ids
    BY DEF Registry!CommitUpdate
  <1>6. CASE Registry!Dirty(r) # {} /\ old.id # seen[r].id
    BY <1>2, <1>5, <1>6 DEF Registry!CommitUpdate
  <1>7. CASE Registry!Dirty(r) = {}
    BY <1>2, <1>5, <1>7 DEF Registry!CommitUpdate, Registry!Committed
  <1>8. CASE Registry!Dirty(r) # {} /\ old.id = seen[r].id
    <2>1. Registry!Committed(r, 200) /\ table' = [table EXCEPT ![n].data = [f \in Columns |->
             IF f \in Registry!Dirty(r) THEN Registry!New(r)[f] ELSE @[f]]]
      BY <1>8 DEF Registry!CommitUpdate
    <2>2. old \in RowType
      <3>1. seen[r].id # 0
        BY <1>4, RowFacts
      <3>2. QED
        BY <1>4, <1>8, <3>1, RowFacts
    <2>3. table' = [table EXCEPT ![n] = row]
      BY <2>1
    <2>4. ASSUME NEW f \in Columns
          PROVE  /\ d[f] \in Values
                 /\ d[f] # old.data[f] => f \in DOMAIN set /\ set[f] = d[f]
      <3>1. CASE f \in Registry!Dirty(r)
        <4>1. f \in DOMAIN set
          BY <3>1 DEF Registry!Dirty
        <4>2. d[f] = set[f]
          BY <3>1, <4>1 DEF Registry!New
        <4>3. QED
          BY <1>3, <4>1, <4>2
      <3>2. CASE f \notin Registry!Dirty(r)
        <4>1. d[f] = old.data[f]
          BY <3>2
        <4>2. QED
          BY <2>2, <4>1, RowFacts
      <3>3. QED
        BY <3>1, <3>2
    <2>5. d \in [Columns -> Values]
      BY <2>4
    <2> HIDE DEF d
    <2>6. /\ row \in RowType /\ row.id = old.id /\ row.is_system = old.is_system /\ row.data = d
      BY <2>2, <2>5 DEF RowType
    <2> HIDE DEF row
    <2>7. \E code \in {200, 500} : Registry!Status(r, code)
      BY <2>1 DEF Registry!Committed
    <2>8. \A f \in Columns : row.data[f] # old.data[f] => f \in DOMAIN set /\ set[f] = row.data[f]
      BY <2>4, <2>6
    <2> HIDE DEF n, set, old
    <2>9. /\ old \in RowType /\ old.id = seen[r].id
          /\ \E other \in RowType :
               /\ table' = [table EXCEPT ![n] = other]
               /\ other.id = old.id /\ other.is_system = old.is_system
               /\ \A f \in Columns : other.data[f] # old.data[f] =>
                    f \in DOMAIN set /\ set[f] = other.data[f]
      BY <1>8, <2>2, <2>3, <2>6, <2>8
    <2>10. QED
      BY <1>2, <1>5, <2>7, <2>9 DEF n, set, old
  <1>9. QED
    BY <1>6, <1>7, <1>8

(* A creation, an update and a deletion are such commits. *)
LEMMA RegistryWrites ==
  ASSUME Registry!RegistryAssumption, RegistryInv, NEW r \in Requests, Registry!Commit(r)
  PROVE  RegistryInv'
  <1> DEFINE n == op[r].name
  <1>1. /\ request[r] = "loaded" /\ op[r] \in Registry!Ops /\ UNCHANGED <<op, seen>>
        /\ ids \in Nat \ {0} /\ table \in [Registry!All -> Rows]
    BY DEF Registry!Commit, RegistryInv
  <1>2. n \in Registry!All
    BY <1>1 DEF Registry!Ops
  <1>3. (n = SystemAgent) <=> (table[n] # Registry!NoRow /\ table[n].is_system)
    BY <1>2 DEF RegistryInv, Registry!SystemStays
  <1>4. CASE Registry!CommitCreate(r) /\ table[n] = Registry!NoRow
    <2> DEFINE row == Registry!Row(ids + 1, FALSE, op[r].set)
    <2>1. /\ table' = [table EXCEPT ![n] = row] /\ ids' = ids + 1
          /\ \E code \in {201, 500} : Registry!Status(r, code)
      BY <1>4 DEF Registry!CommitCreate, Registry!Committed
    <2>2. op[r].set \in [Columns -> Values]
      BY <1>1, <1>4 DEF Registry!CommitCreate, Registry!Ops
    <2>3. row \in RowType /\ row.id = ids + 1 /\ row.is_system = FALSE
      BY <1>1, <2>2 DEF Registry!Row, RowType
    <2>4. row \in Rows
      BY <2>3 DEF Rows
    <2> HIDE DEF row, n
    <2>5. Replaces(n, row) /\ row.id <= ids' /\ ids' \in Nat /\ ids <= ids'
      BY <1>1, <1>2, <1>3, <1>4, <2>1, <2>3, <2>4, RowFacts DEF Replaces
    <2>6. QED
      BY <1>1, <1>2, <2>1, <2>4, <2>5, RegistryCommits
  <1>5. CASE Registry!CommitCreate(r) /\ table[n] # Registry!NoRow
    <2>1. table' = table /\ ids' = ids /\ Registry!Status(r, 500)
      BY <1>5 DEF Registry!CommitCreate
    <2>2. QED
      BY <1>1, <2>1, RegistryCommits
  <1>6. CASE Registry!CommitUpdate(r)
    <2>1. ids' = ids /\ \E code \in {200, 500} : Registry!Status(r, code)
      BY <1>1, <1>6, UpdateWrites
    <2>2. ids' \in Nat /\ ids <= ids'
      BY <1>1, <2>1
    <2>3. CASE table' = table
      BY <1>1, <2>1, <2>2, <2>3, RegistryCommits
    <2>4. CASE table' # table
      <3>1. PICK row \in RowType :
              /\ table' = [table EXCEPT ![n] = row] /\ table[n] \in RowType
              /\ row.id = table[n].id /\ row.is_system = table[n].is_system
        BY <1>1, <1>6, <2>4, UpdateWrites
      <3>2. /\ row \in Rows /\ row # Registry!NoRow /\ table[n] # Registry!NoRow /\ table[n] \in Rows
        BY <3>1, RowFacts DEF Rows
      <3>3. row.id <= ids'
        BY <1>2, <2>1, <3>1, <3>2 DEF RegistryInv
      <3>4. Replaces(n, row)
        BY <1>2, <1>3, <3>1, <3>2 DEF Replaces
      <3>5. QED
        BY <1>1, <1>2, <2>1, <2>2, <3>2, <3>3, <3>4, RegistryCommits
    <2>5. QED
      BY <2>3, <2>4
  <1>7. CASE Registry!CommitDelete(r)
    <2>1. /\ ids' = ids /\ \E code \in {200, 500} : Registry!Status(r, code)
          /\ \/ table' = table
             \/ table' = [table EXCEPT ![n] = Registry!NoRow] /\ table[n] # Registry!NoRow /\ ~table[n].is_system
      BY <1>7 DEF Registry!CommitDelete, Registry!Committed
    <2>2. ids' \in Nat /\ ids <= ids'
      BY <1>1, <2>1
    <2>3. CASE table' = table
      BY <1>1, <2>1, <2>2, <2>3, RegistryCommits
    <2>4. CASE table' # table
      <3>1. Registry!NoRow \in Rows
        BY DEF Rows
      <3>2. Replaces(n, Registry!NoRow)
        BY <1>2, <1>3, <2>1, <2>4, <3>1 DEF Replaces
      <3>3. QED
        BY <1>1, <1>2, <2>1, <2>2, <3>1, <3>2, RegistryCommits
    <2>5. QED
      BY <2>3, <2>4
  <1>8. QED
    BY <1>4, <1>5, <1>6, <1>7 DEF Registry!Commit

(* A row that keeps its id and changes was updated, in the fields that were named. *)
LEMMA NamedFieldsOnly ==
  ASSUME RegistryInv, NEW r \in Requests, Registry!Commit(r),
         NEW n \in Registry!All, NEW f \in Columns,
         table[n] # Registry!NoRow, table'[n].id = table[n].id, table'[n] # table[n]
  PROVE  /\ request[r] = "loaded" /\ request'[r] = "done"
         /\ op[r].kind = "update" /\ op[r].name = n /\ seen[r].id = table[n].id
         /\ table'[n].data[f] # table[n].data[f] =>
              f \in DOMAIN op[r].set /\ op[r].set[f] = table'[n].data[f]
  <1>1. /\ request[r] = "loaded" /\ table \in [Registry!All -> Rows] /\ ids \in Nat \ {0}
        /\ \A m \in Registry!All : table[m] # Registry!NoRow => table[m].id <= ids
    BY DEF Registry!Commit, RegistryInv
  <1>2. table[n].id # 0 /\ table[n].id \in Nat /\ table[n].id <= ids
    BY <1>1, RowFacts
  <1>3. CASE Registry!CommitCreate(r)
    <2>1. table[op[r].name] = Registry!NoRow => n # op[r].name
      OBVIOUS
    <2>2. table'[n] = table[n]
      BY <1>1, <1>3, <2>1 DEF Registry!CommitCreate
    <2>3. QED
      BY <2>2
  <1>4. CASE Registry!CommitDelete(r)
    <2>1. table'[n] = table[n] \/ table'[n] = Registry!NoRow
      BY <1>1, <1>4 DEF Registry!CommitDelete
    <2>2. QED
      BY <1>2, <2>1, RowFacts
  <1>5. CASE Registry!CommitUpdate(r)
    <2>1. op[r].name \in Registry!All /\ \E code \in {200, 500} : Registry!Status(r, code)
      BY <1>1, <1>5, UpdateWrites
    <2>2. table' # table
      OBVIOUS
    <2>3. PICK row \in RowType :
            /\ table' = [table EXCEPT ![op[r].name] = row] /\ table[op[r].name].id = seen[r].id
            /\ \A g \in Columns : row.data[g] # table[op[r].name].data[g] =>
                 g \in DOMAIN op[r].set /\ op[r].set[g] = row.data[g]
      BY <1>1, <1>5, <2>2, UpdateWrites
    <2>4. n = op[r].name /\ table'[n] = row
      BY <1>1, <2>1, <2>3
    <2>5. op[r].kind = "update"
      BY <1>5 DEF Registry!CommitUpdate
    <2>6. request'[r] = "done"
      BY <1>1, <2>1, StatusGiven
    <2>7. QED
      BY <1>1, <2>3, <2>4, <2>5, <2>6
  <1>6. QED
    BY <1>3, <1>4, <1>5 DEF Registry!Commit

(* The agents stay what the routes make them. *)
LEMMA RegistrySteps ==
  ASSUME Registry!RegistryAssumption, RegistryInv, Registry!Next \/ UNCHANGED registryVars
  PROVE  RegistryInv'
  <1>1. CASE UNCHANGED registryVars
    BY <1>1 DEF registryVars, RegistryInv, Registry!SystemStays
  <1>2. ASSUME NEW r \in Requests, NEW o \in Registry!Ops, Registry!Load(r, o) PROVE RegistryInv'
    BY <1>2, RegistryLoads
  <1>3. ASSUME NEW r \in Requests, Registry!Commit(r) PROVE RegistryInv'
    BY <1>3, RegistryWrites
  <1>4. QED
    BY <1>1, <1>2, <1>3 DEF Registry!Next

\* A step of the routes as OnlyNamedFields has it.
NamedOnly ==
  \A n \in Registry!All, f \in Columns :
    table[n] # Registry!NoRow /\ table'[n].id = table[n].id /\ table'[n] # table[n] =>
      \E r \in Requests : /\ request[r] = "loaded" /\ request'[r] = "done"
                          /\ op[r].kind = "update" /\ op[r].name = n /\ seen[r].id = table[n].id
                          /\ table'[n].data[f] # table[n].data[f] =>
                               f \in DOMAIN op[r].set /\ op[r].set[f] = table'[n].data[f]

LEMMA RegistryNames ==
  ASSUME RegistryInv, Registry!Next \/ UNCHANGED registryVars
  PROVE  NamedOnly
  <1>1. CASE table' = table
    BY <1>1 DEF NamedOnly
  <1>2. CASE table' # table
    <2>1. PICK r \in Requests : Registry!Commit(r)
      <3>1. ~UNCHANGED registryVars
        BY <1>2 DEF registryVars
      <3>2. \A r \in Requests, o \in Registry!Ops : ~Registry!Load(r, o)
        BY <1>2, RegistryLoads
      <3>3. QED
        BY <3>1, <3>2 DEF Registry!Next
    <2>2. QED
      BY <2>1, NamedFieldsOnly DEF NamedOnly
  <1>3. QED
    BY <1>1, <1>2

(* One agent at the start, that of config/agents. *)
LEMMA RegistryStarts == ASSUME Registry!RegistryAssumption, Registry!Init PROVE RegistryInv
  <1>1. PICK d \in [Columns -> Values] :
          table = [n \in Registry!All |-> IF n = SystemAgent THEN Registry!Row(1, TRUE, d)
                                          ELSE Registry!NoRow]
    BY DEF Registry!Init
  <1>2. Registry!Row(1, TRUE, d) \in RowType /\ Registry!Row(1, TRUE, d).is_system = TRUE
        /\ Registry!Row(1, TRUE, d).id = 1
    BY DEF Registry!Row, RowType
  <1>3. table \in [Registry!All -> Rows]
    BY <1>1, <1>2 DEF Rows
  <1>4. ids = 1 /\ \A n \in Registry!All : table[n] # Registry!NoRow => table[n].id <= ids
    <2>1. ids = 1 /\ 1 <= 1
      BY DEF Registry!Init
    <2>2. \A n \in Registry!All : table[n] # Registry!NoRow => table[n].id = 1
      BY <1>1, <1>2
    <2>3. QED
      BY <2>1, <2>2
  <1>5. Registry!SystemStays
    BY <1>1, <1>2, RowFacts DEF Registry!SystemStays
  <1>6. Registry!NoRow \in Rows
    BY DEF Rows
  <1>7. /\ op = [r \in Requests |-> Registry!NoOp] /\ seen = [r \in Requests |-> Registry!NoRow]
        /\ request = [r \in Requests |-> "new"] /\ status = [r \in Requests |-> 0]
    BY DEF Registry!Init
  <1>8. /\ op \in [Requests -> Registry!Ops \cup {Registry!NoOp}] /\ seen \in [Requests -> Rows]
        /\ request \in [Requests -> {"new", "loaded", "done"}]
        /\ status \in [Requests -> {0, 200, 201, 400, 404, 409, 500}]
    BY <1>6, <1>7
  <1>9. \A r \in Requests : request[r] # "loaded"
    BY <1>7
  <1>10. QED
    BY <1>3, <1>4, <1>5, <1>8, <1>9 DEF RegistryInv

(* The invariant says what the run checks. *)
LEMMA RegistryShows == ASSUME RegistryInv PROVE Registry!TypeOK /\ Registry!SystemStays
  <1>1. ASSUME NEW n \in Registry!All
        PROVE  \/ table[n] = Registry!NoRow
               \/ table[n] \in [id : 1 .. ids, is_system : BOOLEAN, data : [Columns -> Values]]
    <2>1. table[n] \in Rows /\ ids \in Nat
      BY DEF RegistryInv
    <2>2. CASE table[n] # Registry!NoRow
      <3>1. table[n] \in RowType /\ table[n].id <= ids /\ table[n].id \in Nat \ {0}
        BY <2>1, <2>2, RowFacts DEF RegistryInv
      <3>2. table[n].id \in 1 .. ids
        BY <2>1, <3>1
      <3>3. QED
        BY <3>1, <3>2 DEF RowType
    <2>3. QED
      BY <2>2
  <1>2. QED
    BY <1>1 DEF RegistryInv, Registry!TypeOK

-----------------------------------------------------------------------------
(* Single requests to services outside: tools, workflows and channels.        *)

Stages == {"new", "request", "received", "failing", "over"}
Replies == {"none", "ok", "error", "exception"}
Entries == {"started", "completed", "failed"}

\* A call of kind k at stage p: the other side has acted n times, t was logged, a answered.
Stands(k, p, n, t, a) ==
  /\ p \in Stages /\ n \in 0 .. 1 /\ t \in Seq(Entries) /\ a \in Replies
  /\ k # "workflow" => t = <<>>
  /\ p # "over" => a = "none"
  /\ p = "new" => n = 0 /\ t = <<>>
  /\ p = "request" => n = 0
  /\ p = "received" => n = 1
  /\ p \in {"request", "received"} /\ k = "workflow" => t = <<"started">>
  /\ p = "failing" => k = "workflow"
  /\ a = "ok" => n = 1
  /\ a = "ok" /\ k = "workflow" => t = <<"started", "completed">>
  /\ p = "failing" => t \in {<<"started">>, <<"started", "completed">>}
  /\ t # <<>> /\ t[Len(t)] = "failed" => a = "error"
  /\ a = "error" /\ t # <<>> => t[Len(t)] = "failed"

CallsInv ==
  /\ call \in [Outbound -> Calls!Kinds] /\ callFaults \in 0 .. CallFaults
  /\ stage \in [Outbound -> Stages] /\ acted \in [Outbound -> Nat]
  /\ trail \in [Outbound -> Seq(Entries)] /\ reply \in [Outbound -> Replies]
  /\ \A c \in Outbound : Stands(call[c], stage[c], acted[c], trail[c], reply[c])

\* The step of call c leaves the others alone and faults within their bound.
Moves(c, p, n, t, a) ==
  /\ call' = call /\ callFaults' \in 0 .. CallFaults
  /\ stage' = [stage EXCEPT ![c] = p] /\ acted' = [acted EXCEPT ![c] = n]
  /\ trail' = [trail EXCEPT ![c] = t] /\ reply' = [reply EXCEPT ![c] = a]

LEMMA CallMoves ==
  ASSUME CallsInv, NEW c \in Outbound, NEW p, NEW n, NEW t, NEW a,
         Moves(c, p, n, t, a), Stands(call[c], p, n, t, a)
  PROVE  CallsInv'
  <1>1. p \in Stages /\ n \in Nat /\ t \in Seq(Entries) /\ a \in Replies
    BY DEF Stands
  <1>2. /\ stage' \in [Outbound -> Stages] /\ acted' \in [Outbound -> Nat]
        /\ trail' \in [Outbound -> Seq(Entries)] /\ reply' \in [Outbound -> Replies]
    BY <1>1 DEF CallsInv, Moves
  <1>3. stage'[c] = p /\ acted'[c] = n /\ trail'[c] = t /\ reply'[c] = a
    BY DEF CallsInv, Moves
  <1>4. \A d \in Outbound : d # c =>
          /\ stage'[d] = stage[d] /\ acted'[d] = acted[d]
          /\ trail'[d] = trail[d] /\ reply'[d] = reply[d]
    BY DEF CallsInv, Moves
  <1>5. ASSUME NEW d \in Outbound
        PROVE  Stands(call'[d], stage'[d], acted'[d], trail'[d], reply'[d])
    <2>1. CASE d = c
      BY <1>3, <2>1 DEF Moves
    <2>2. CASE d # c
      BY <1>4, <2>2 DEF Moves, CallsInv
    <2>3. QED
      BY <2>1, <2>2
  <1>6. QED
    BY <1>2, <1>5 DEF CallsInv, Moves

(* What a call is, and the faults that are left. *)
LEMMA CallStands ==
  ASSUME Calls!CallsAssumption, CallsInv, NEW c \in Outbound
  PROVE  /\ Stands(call[c], stage[c], acted[c], trail[c], reply[c])
         /\ call[c] \in {"yaml", "workflow", "channel"}
         /\ call[c] \in Calls!Kinds
         /\ callFaults \in 0 .. CallFaults
         /\ Calls!Fault => callFaults' \in 0 .. CallFaults
         /\ stage = [stage EXCEPT ![c] = stage[c]] /\ acted = [acted EXCEPT ![c] = acted[c]]
         /\ trail = [trail EXCEPT ![c] = trail[c]] /\ reply = [reply EXCEPT ![c] = reply[c]]
  <1>1. callFaults \in 0 .. CallFaults /\ CallFaults \in Nat
    BY DEF CallsInv, Calls!CallsAssumption
  <1>2. Calls!Fault => callFaults' \in 0 .. CallFaults
    BY <1>1 DEF Calls!Fault
  <1>3. /\ stage = [stage EXCEPT ![c] = stage[c]] /\ acted = [acted EXCEPT ![c] = acted[c]]
        /\ trail = [trail EXCEPT ![c] = trail[c]] /\ reply = [reply EXCEPT ![c] = reply[c]]
    BY DEF CallsInv
  <1>4. QED
    BY <1>1, <1>2, <1>3 DEF CallsInv, Calls!Kinds

(* What the entries of a workflow become. *)
LEMMA Trails ==
  /\ <<>> \in Seq(Entries) /\ <<"started">> \in Seq(Entries)
  /\ Append(<<>>, "started") = <<"started">>
  /\ Append(<<"started">>, "completed") = <<"started", "completed">>
  /\ <<"started", "completed">> \in Seq(Entries)
  /\ \A t \in Seq(Entries), e \in Entries :
       LET s == Append(t, e) IN s \in Seq(Entries) /\ s[Len(s)] = e
  /\ \A t \in {<<"started">>, <<"started", "completed">>} : t # <<>> /\ t[Len(t)] # "failed"
  <1>1. /\ <<>> \in Seq(Entries) /\ <<"started">> \in Seq(Entries)
        /\ <<"started", "completed">> \in Seq(Entries)
    BY DEF Entries
  <1>2. Append(<<>>, "started") = <<"started">>
    <2>1. Append(<<>>, "started") \in Seq(Entries)
      BY <1>1 DEF Entries
    <2>2. Len(Append(<<>>, "started")) = 1 /\ Append(<<>>, "started")[1] = "started"
      OBVIOUS
    <2>3. Len(<<"started">>) = 1 /\ <<"started">>[1] = "started"
      OBVIOUS
    <2>4. QED
      BY <1>1, <2>1, <2>2, <2>3, SeqEqual
  <1>3. \A t \in Seq(Entries), e \in Entries :
          LET s == Append(t, e) IN s \in Seq(Entries) /\ s[Len(s)] = e
    OBVIOUS
  <1>4. Append(<<"started">>, "completed") = <<"started", "completed">>
    <2>1. Append(<<"started">>, "completed") \in Seq(Entries)
      BY <1>1 DEF Entries
    <2>2. Len(Append(<<"started">>, "completed")) = 2
          /\ Append(<<"started">>, "completed")[1] = "started" /\ Append(<<"started">>, "completed")[2] = "completed"
      OBVIOUS
    <2>3. Len(<<"started", "completed">>) = 2 /\ <<"started", "completed">>[1] = "started"
          /\ <<"started", "completed">>[2] = "completed"
      OBVIOUS
    <2>4. \A i \in 1 .. 2 : i = 1 \/ i = 2
      OBVIOUS
    <2>5. \A i \in 1 .. 2 : Append(<<"started">>, "completed")[i] = <<"started", "completed">>[i]
      BY <2>2, <2>3, <2>4
    <2>6. QED
      BY <1>1, <2>1, <2>2, <2>3, <2>5, SeqEqual
  <1>5. \A t \in {<<"started">>, <<"started", "completed">>} : t # <<>> /\ t[Len(t)] # "failed"
    OBVIOUS
  <1>6. QED
    BY <1>1, <1>2, <1>3, <1>4, <1>5

(* Without a request, and up to the request. *)
LEMMA CallBegins ==
  ASSUME Calls!CallsAssumption, CallsInv, NEW c \in Outbound, Calls!Refuses(c) \/ Calls!Begins(c)
  PROVE  CallsInv'
  <1>1. /\ Stands(call[c], stage[c], acted[c], trail[c], reply[c])
        /\ callFaults \in 0 .. CallFaults
        /\ Calls!Fault => callFaults' \in 0 .. CallFaults
        /\ stage = [stage EXCEPT ![c] = stage[c]] /\ acted = [acted EXCEPT ![c] = acted[c]]
        /\ trail = [trail EXCEPT ![c] = trail[c]] /\ reply = [reply EXCEPT ![c] = reply[c]]
    BY CallStands
  <1>2. stage[c] = "new" /\ acted[c] = 0 /\ trail[c] = <<>> /\ reply[c] = "none"
        /\ UNCHANGED <<call, acted>>
    BY <1>1 DEF Calls!Refuses, Calls!Begins, Stands
  <1>3. PICK p \in {"request", "over"}, t \in {<<>>, <<"started">>}, a \in {"none", "error", "exception"} :
          /\ Moves(c, p, 0, t, a)
          /\ p = "request" => a = "none" /\ t = (IF call[c] = "workflow" THEN <<"started">> ELSE <<>>)
          /\ p = "over" => a # "none" /\ t = <<>>
    <2>1. CASE Calls!Refuses(c)
      <3>1. Moves(c, "over", 0, <<>>, "error")
        BY <1>1, <1>2, <2>1 DEF Calls!Refuses, Calls!Answers, Calls!Goes, Moves
      <3>2. QED
        BY <3>1
    <2>2. CASE /\ Calls!Begins(c) /\ Calls!Goes(c, "request") /\ UNCHANGED <<reply, callFaults>>
               /\ IF call[c] = "workflow" THEN Calls!Logs(c, "started") ELSE UNCHANGED trail
      <3>1. CASE call[c] = "workflow"
        <4>1. trail' = [trail EXCEPT ![c] = <<"started">>]
          BY <1>2, <2>2, <3>1, Trails DEF Calls!Logs
        <4>2. Moves(c, "request", 0, <<"started">>, "none")
          BY <1>1, <1>2, <2>2, <4>1 DEF Calls!Goes, Moves
        <4>3. QED
          BY <3>1, <4>2
      <3>2. CASE call[c] # "workflow"
        <4>1. trail' = trail
          BY <2>2, <3>2
        <4>2. Moves(c, "request", 0, <<>>, "none")
          BY <1>1, <1>2, <2>2, <4>1 DEF Calls!Goes, Moves
        <4>3. QED
          BY <3>2, <4>2
      <3>3. QED
        BY <3>1, <3>2
    <2>3. CASE Calls!Begins(c) /\ Calls!Fault /\ Calls!Answers(c, "exception") /\ UNCHANGED trail
      <3>1. Moves(c, "over", 0, <<>>, "exception")
        BY <1>1, <1>2, <2>3 DEF Calls!Answers, Calls!Goes, Moves
      <3>2. QED
        BY <3>1
    <2>4. QED
      BY <2>1, <2>2, <2>3 DEF Calls!Begins
  <1>4. Stands(call[c], p, 0, t, a)
    BY <1>1, <1>2, <1>3, Trails DEF Stands, Stages, Replies
  <1>5. QED
    BY <1>3, <1>4, CallMoves

(* The request is made: the other side may have acted although it raises. *)
LEMMA CallAsks ==
  ASSUME Calls!CallsAssumption, CallsInv, NEW c \in Outbound,
         Calls!RequestRaises(c) \/ Calls!Escapes(c) \/ Calls!Responds(c)
  PROVE  CallsInv'
  <1>1. /\ Stands(call[c], stage[c], acted[c], trail[c], reply[c])
        /\ call[c] \in {"yaml", "workflow", "channel"} /\ callFaults \in 0 .. CallFaults
        /\ Calls!Fault => callFaults' \in 0 .. CallFaults
        /\ trail = [trail EXCEPT ![c] = trail[c]] /\ reply = [reply EXCEPT ![c] = reply[c]]
        /\ acted = [acted EXCEPT ![c] = acted[c]]
    BY CallStands
  <1>2. stage[c] = "request" /\ acted[c] = 0 /\ reply[c] = "none" /\ UNCHANGED <<call, trail>>
    BY <1>1 DEF Calls!RequestRaises, Calls!Escapes, Calls!Responds, Stands
  <1>3. CASE Calls!RequestRaises(c)
    <2>1. PICK n \in {0, 1} : acted' = [acted EXCEPT ![c] = acted[c] + n]
      BY <1>3 DEF Calls!RequestRaises
    <2>2. acted' = [acted EXCEPT ![c] = n] /\ n \in 0 .. 1
      BY <1>2, <2>1
    <2>3. callFaults' \in 0 .. CallFaults
      BY <1>1, <1>3 DEF Calls!RequestRaises
    <2>4. CASE call[c] = "workflow"
      <3>1. Moves(c, "failing", n, trail[c], "none")
        BY <1>1, <1>2, <1>3, <2>2, <2>3, <2>4
           DEF Calls!RequestRaises, Calls!AfterFailedRequest, Calls!Goes, Moves
      <3>2. Stands(call[c], "failing", n, trail[c], "none")
        BY <1>1, <1>2, <2>2, <2>4, Trails DEF Stands, Stages, Replies
      <3>3. QED
        BY <3>1, <3>2, CallMoves
    <2>5. CASE call[c] # "workflow"
      <3>1. Moves(c, "over", n, trail[c], "error")
        BY <1>1, <1>2, <1>3, <2>2, <2>3, <2>5
           DEF Calls!RequestRaises, Calls!AfterFailedRequest, Calls!Answers, Calls!Goes, Moves
      <3>2. Stands(call[c], "over", n, trail[c], "error")
        BY <1>1, <1>2, <2>2, <2>5, Trails DEF Stands, Stages, Replies
      <3>3. QED
        BY <3>1, <3>2, CallMoves
    <2>6. QED
      BY <2>4, <2>5
  <1>4. CASE Calls!Responds(c)
    <2>1. acted' = [acted EXCEPT ![c] = 1]
      BY <1>2, <1>4 DEF Calls!Responds
    <2>2. Moves(c, "received", 1, trail[c], "none")
      BY <1>1, <1>2, <1>4, <2>1 DEF Calls!Responds, Calls!Goes, Moves
    <2>3. Stands(call[c], "received", 1, trail[c], "none")
      BY <1>1, <1>2, Trails DEF Stands, Stages, Replies
    <2>4. QED
      BY <2>2, <2>3, CallMoves
  <1>5. CASE Calls!Escapes(c)
    <2>1. Moves(c, "over", 0, trail[c], "exception")
      BY <1>1, <1>2, <1>5 DEF Calls!Escapes, Calls!Answers, Calls!Goes, Moves
    <2>2. call[c] = "yaml"
      BY <1>5 DEF Calls!Escapes
    <2>3. Stands(call[c], "over", 0, trail[c], "exception")
      BY <1>1, <1>2, <2>2, Trails DEF Stands, Stages, Replies
    <2>4. QED
      BY <2>1, <2>3, CallMoves
  <1>6. QED
    BY <1>3, <1>4, <1>5

(* What is made of the response. *)
LEMMA CallReads ==
  ASSUME Calls!CallsAssumption, CallsInv, NEW c \in Outbound, Calls!Reads(c)
  PROVE  CallsInv'
  <1>1. /\ Stands(call[c], stage[c], acted[c], trail[c], reply[c])
        /\ call[c] \in {"yaml", "workflow", "channel"} /\ callFaults \in 0 .. CallFaults
        /\ Calls!Fault => callFaults' \in 0 .. CallFaults
        /\ acted = [acted EXCEPT ![c] = acted[c]]
        /\ trail = [trail EXCEPT ![c] = trail[c]] /\ reply = [reply EXCEPT ![c] = reply[c]]
    BY CallStands
  <1>2. /\ stage[c] = "received" /\ acted[c] = 1 /\ reply[c] = "none" /\ UNCHANGED <<call, acted>>
        /\ call[c] = "workflow" => trail[c] = <<"started">>
        /\ call[c] # "workflow" => trail[c] = <<>>
    BY <1>1 DEF Calls!Reads, Stands
  <1>3. CASE call[c] # "workflow"
    <2>1. PICK a \in {"ok", "error", "exception"} : Moves(c, "over", 1, <<>>, a)
      <3>1. UNCHANGED <<trail, callFaults>> /\ \E a \in {"ok", "error", "exception"} : Calls!Answers(c, a)
        BY <1>3 DEF Calls!Reads, Calls!YamlReads, Calls!WorkflowReads
      <3>2. QED
        BY <1>1, <1>2, <1>3, <3>1 DEF Calls!Answers, Calls!Goes, Moves
    <2>2. Stands(call[c], "over", 1, <<>>, a)
      BY <1>1, <1>2, <1>3, <2>1, Trails DEF Stands, Stages, Replies
    <2>3. QED
      BY <2>1, <2>2, CallMoves
  <1>4. ASSUME call[c] = "workflow", Calls!Logs(c, "completed"), Calls!Answers(c, "ok"),
               UNCHANGED callFaults
        PROVE  CallsInv'
    <2>1. trail' = [trail EXCEPT ![c] = <<"started", "completed">>]
      BY <1>2, <1>4, Trails DEF Calls!Logs
    <2>2. Moves(c, "over", 1, <<"started", "completed">>, "ok")
      BY <1>1, <1>2, <1>4, <2>1 DEF Calls!Answers, Calls!Goes, Moves
    <2>3. Stands(call[c], "over", 1, <<"started", "completed">>, "ok")
      BY <1>4, Trails DEF Stands, Stages, Replies
    <2>4. QED
      BY <2>2, <2>3, CallMoves
  <1>5. ASSUME call[c] = "workflow", Calls!Goes(c, "failing"), UNCHANGED reply,
               callFaults' \in 0 .. CallFaults, UNCHANGED trail \/ Calls!Logs(c, "completed")
        PROVE  CallsInv'
    <2>1. PICK t \in {<<"started">>, <<"started", "completed">>} : trail' = [trail EXCEPT ![c] = t]
      <3>1. CASE UNCHANGED trail
        BY <1>1, <1>2, <1>5, <3>1
      <3>2. CASE Calls!Logs(c, "completed")
        BY <1>2, <1>5, <3>2, Trails DEF Calls!Logs
      <3>3. QED
        BY <1>5, <3>1, <3>2
    <2>2. Moves(c, "failing", 1, t, "none")
      BY <1>1, <1>2, <1>5, <2>1 DEF Calls!Goes, Moves
    <2>3. t \in Seq(Entries)
      BY <2>1, Trails
    <2>4. Stands(call[c], "failing", 1, t, "none")
      BY <1>5, <2>3, Trails DEF Stands, Stages, Replies
    <2>5. QED
      BY <2>2, <2>4, CallMoves
  <1>6. call[c] = "workflow" => Calls!WorkflowReads(c)
    BY DEF Calls!Reads, Calls!YamlReads
  <1>7. QED
    BY <1>1, <1>3, <1>4, <1>5, <1>6 DEF Calls!WorkflowReads

(* The except clause of a workflow. *)
LEMMA CallFails ==
  ASSUME Calls!CallsAssumption, CallsInv, NEW c \in Outbound, Calls!LogsFailure(c)
  PROVE  CallsInv'
  <1>1. /\ Stands(call[c], stage[c], acted[c], trail[c], reply[c])
        /\ callFaults \in 0 .. CallFaults
        /\ Calls!Fault => callFaults' \in 0 .. CallFaults
        /\ acted = [acted EXCEPT ![c] = acted[c]]
        /\ trail = [trail EXCEPT ![c] = trail[c]]
    BY CallStands
  <1>2. /\ stage[c] = "failing" /\ call[c] = "workflow" /\ acted[c] \in 0 .. 1
        /\ trail[c] \in Seq(Entries) /\ UNCHANGED <<call, acted>>
        /\ trail[c] \in {<<"started">>, <<"started", "completed">>}
    BY <1>1 DEF Calls!LogsFailure, Stands
  <1>3. CASE Calls!Logs(c, "failed") /\ Calls!Answers(c, "error") /\ UNCHANGED callFaults
    <2> DEFINE t == Append(trail[c], "failed")
    <2>1. t \in Seq(Entries) /\ t[Len(t)] = "failed"
      BY <1>2, Trails DEF Entries
    <2>2. Moves(c, "over", acted[c], t, "error")
      BY <1>1, <1>2, <1>3 DEF Calls!Logs, Calls!Answers, Calls!Goes, Moves
    <2>3. Stands(call[c], "over", acted[c], t, "error")
      BY <1>2, <2>1, Trails DEF Stands, Stages, Replies
    <2>4. QED
      BY <2>2, <2>3, CallMoves
  <1>4. CASE Calls!Fault /\ Calls!Answers(c, "exception") /\ UNCHANGED trail
    <2>1. Moves(c, "over", acted[c], trail[c], "exception")
      BY <1>1, <1>2, <1>4 DEF Calls!Answers, Calls!Goes, Moves
    <2>2. trail[c][Len(trail[c])] # "failed"
      BY <1>2, Trails
    <2>3. Stands(call[c], "over", acted[c], trail[c], "exception")
      BY <1>2, <2>2 DEF Stands, Stages, Replies
    <2>4. QED
      BY <2>1, <2>3, CallMoves
  <1>5. QED
    BY <1>3, <1>4 DEF Calls!LogsFailure

LEMMA CallsSteps ==
  ASSUME Calls!CallsAssumption, CallsInv, Calls!Next \/ UNCHANGED callVars
  PROVE  CallsInv'
  <1>1. CASE UNCHANGED callVars
    BY <1>1 DEF callVars, CallsInv
  <1>2. ASSUME NEW c \in Outbound, Calls!Step(c) PROVE CallsInv'
    BY <1>2, CallBegins, CallAsks, CallReads, CallFails DEF Calls!Step
  <1>3. QED
    BY <1>1, <1>2 DEF Calls!Next

(* Nobody has asked yet. *)
LEMMA CallsStart == ASSUME Calls!CallsAssumption, Calls!Init PROVE CallsInv
  <1>1. \A c \in Outbound : Stands(call[c], "new", 0, <<>>, "none")
    BY Trails DEF Stands, Stages, Replies
  <1>2. QED
    BY <1>1, Trails DEF Calls!Init, CallsInv, Calls!CallsAssumption, Stages, Replies

(* The invariant says what the run checks. *)
LEMMA CallsShow == ASSUME CallsInv PROVE Calls!TypeOK /\ Calls!CallsAccounted
  <1>1. Calls!TypeOK
    BY DEF CallsInv, Calls!TypeOK, Stages, Replies
  <1>2. ASSUME NEW c \in Outbound, reply[c] = "error", trail[c] # <<>>
        PROVE  Calls!Last(trail[c]) = "failed"
    <2>1. trail[c][Len(trail[c])] = "failed"
      BY <1>2 DEF CallsInv, Stands
    <2>2. QED
      BY <2>1 DEF Calls!Last
  <1>3. ASSUME NEW c \in Outbound
        PROVE  /\ acted[c] <= 1
               /\ reply[c] = "ok" => acted[c] = 1
               /\ reply[c] = "ok" /\ call[c] = "workflow" => trail[c] = <<"started", "completed">>
               /\ trail[c] # <<>> /\ Calls!Last(trail[c]) = "failed" => reply[c] = "error"
    BY DEF CallsInv, Stands, Calls!Last
  <1>4. QED
    BY <1>1, <1>2, <1>3 DEF Calls!CallsAccounted

-----------------------------------------------------------------------------
(* Notices to the Telegram users: one loop over them in one try.              *)

\* In a round whoever was reached has a copy more than those who are not yet reached.
NoticeInv ==
  /\ notice \in {"tool", "approval", "cron"} /\ blocked \in SUBSET (1 .. Users)
  /\ notifier \in {"new", "sending", "told", "over"} /\ to \in 1 .. Users + 1
  /\ got \in [1 .. Users -> Nat] /\ answer \in {"none", "sent", "error"}
  /\ attempts \in 0 .. Attempts /\ noticeFaults \in 0 .. NoticeFaults
  /\ notifier = "new" => attempts < Attempts
  /\ \A u \in 1 .. Users : got[u] <= attempts
  /\ answer = "sent" => notifier \in {"told", "over"} /\ \A u \in 1 .. Users : got[u] > 0
  /\ \A u, v \in 1 .. Users : u < v /\ u \notin blocked => got[u] >= got[v]
  /\ notifier = "sending" =>
       /\ \A u \in 1 .. Users : u < to => u \notin blocked /\ got[u] > 0
       /\ \A u, v \in 1 .. Users : u < to /\ v >= to => got[u] > got[v]
       /\ \A v \in 1 .. Users : v >= to => got[v] < attempts

LEMMA NoticeBegins == ASSUME Notice!NoticesAssumption, NoticeInv, Notice!Begin PROVE NoticeInv'
  <1>1. /\ notifier = "new" /\ notifier' = "sending" /\ to' = 1 /\ attempts' = attempts + 1
        /\ UNCHANGED <<notice, blocked, got, answer, noticeFaults>>
        /\ Users \in Nat \ {0} /\ Attempts \in Nat
    BY DEF Notice!Begin, Notice!NoticesAssumption
  <1>2. attempts' \in 0 .. Attempts /\ to' \in 1 .. Users + 1 /\ answer # "sent"
    BY <1>1 DEF NoticeInv
  <1>3. \A u \in 1 .. Users : got[u] \in Nat /\ got[u] <= attempts /\ got[u] < attempts' /\ ~(u < to')
    BY <1>1 DEF NoticeInv
  <1>4. QED
    BY <1>1, <1>2, <1>3 DEF NoticeInv

(* A copy, or none, for the user the loop is at, who has not blocked the bot. *)
LEMMA NoticeCopies ==
  ASSUME NoticeInv, notifier = "sending", to \in 1 .. Users, to \notin blocked,
         NEW n \in {0, 1}, got' = [got EXCEPT ![to] = got[to] + n],
         UNCHANGED <<blocked, attempts>>
  PROVE  /\ got' \in [1 .. Users -> Nat]
         /\ \A u \in 1 .. Users : got'[u] <= attempts'
         /\ \A u, v \in 1 .. Users : u < v /\ u \notin blocked' => got'[u] >= got'[v]
         /\ \A u \in 1 .. Users : u # to => got'[u] = got[u]
         /\ got'[to] = got[to] + n
  <1>1. got' \in [1 .. Users -> Nat] /\ got'[to] = got[to] + n
        /\ \A u \in 1 .. Users : u # to => got'[u] = got[u]
    BY DEF NoticeInv
  <1>2. \A u \in 1 .. Users : got[u] \in Nat /\ got[u] <= attempts /\ attempts \in Nat
    BY DEF NoticeInv
  <1>3. got[to] < attempts
    BY DEF NoticeInv
  <1>4. \A u \in 1 .. Users : got'[u] <= attempts
    BY <1>1, <1>2, <1>3
  <1>5. ASSUME NEW u \in 1 .. Users, NEW v \in 1 .. Users, u < v, u \notin blocked
        PROVE  got'[u] >= got'[v]
    <2>1. got[u] >= got[v]
      BY <1>5 DEF NoticeInv
    <2>2. CASE v = to
      <3>1. got[u] > got[to] /\ u # to
        BY <1>5, <2>2 DEF NoticeInv
      <3>2. QED
        BY <1>1, <1>2, <2>2, <3>1
    <2>3. CASE v # to
      BY <1>1, <1>2, <2>1, <2>3
    <2>4. QED
      BY <2>2, <2>3
  <1>6. QED
    BY <1>1, <1>4, <1>5

LEMMA NoticeArrives == ASSUME Notice!NoticesAssumption, NoticeInv, Notice!Arrives PROVE NoticeInv'
  <1>1. /\ notifier = "sending" /\ to <= Users /\ to \notin blocked
        /\ got' = [got EXCEPT ![to] = got[to] + 1] /\ to' = to + 1
        /\ UNCHANGED <<notice, blocked, notifier, answer, attempts, noticeFaults>>
        /\ Users \in Nat
    BY DEF Notice!Arrives, Notice!NoticesAssumption
  <1>2. to \in 1 .. Users /\ to' \in 1 .. Users + 1 /\ answer # "sent"
    BY <1>1 DEF NoticeInv
  <1>3. /\ got' \in [1 .. Users -> Nat] /\ \A u \in 1 .. Users : got'[u] <= attempts'
        /\ \A u, v \in 1 .. Users : u < v /\ u \notin blocked' => got'[u] >= got'[v]
        /\ \A u \in 1 .. Users : u # to => got'[u] = got[u]
        /\ got'[to] = got[to] + 1
    BY <1>1, <1>2, NoticeCopies
  <1>4. \A u \in 1 .. Users : got[u] \in Nat
    BY DEF NoticeInv
  <1>5. ASSUME NEW u \in 1 .. Users, u < to' PROVE u \notin blocked' /\ got'[u] > 0
    <2>1. CASE u = to
      BY <1>1, <1>3, <1>4, <2>1
    <2>2. CASE u # to
      <3>1. u < to
        BY <1>1, <1>2, <1>5, <2>2
      <3>2. QED
        BY <1>1, <1>3, <2>2, <3>1 DEF NoticeInv
    <2>3. QED
      BY <2>1, <2>2
  <1>6. ASSUME NEW u \in 1 .. Users, NEW v \in 1 .. Users, u < to', v >= to' PROVE got'[u] > got'[v]
    <2>1. v # to /\ v >= to /\ to < v /\ got'[v] = got[v]
      BY <1>1, <1>2, <1>3, <1>6
    <2>2. CASE u = to
      <3>1. got[to] >= got[v]
        BY <1>1, <1>2, <2>1 DEF NoticeInv
      <3>2. QED
        BY <1>2, <1>3, <1>4, <2>1, <2>2, <3>1
    <2>3. CASE u # to
      <3>1. u < to
        BY <1>1, <1>2, <1>6, <2>3
      <3>2. got[u] > got[v]
        BY <1>1, <2>1, <3>1 DEF NoticeInv
      <3>3. QED
        BY <1>3, <2>1, <2>3, <3>2
    <2>4. QED
      BY <2>2, <2>3
  <1>7. ASSUME NEW v \in 1 .. Users, v >= to' PROVE got'[v] < attempts'
    <2>1. v # to /\ v >= to
      BY <1>1, <1>2, <1>7
    <2>2. got[v] < attempts
      BY <1>1, <2>1 DEF NoticeInv
    <2>3. QED
      BY <1>1, <1>3, <2>1, <2>2
  <1>8. /\ notice' \in {"tool", "approval", "cron"} /\ blocked' \in SUBSET (1 .. Users)
        /\ answer' \in {"none", "sent", "error"} /\ attempts' \in 0 .. Attempts
        /\ noticeFaults' \in 0 .. NoticeFaults /\ notifier' = "sending" /\ answer' # "sent"
    BY <1>1, <1>2 DEF NoticeInv
  <1>9. QED
    BY <1>2, <1>3, <1>5, <1>6, <1>7, <1>8 DEF NoticeInv

LEMMA NoticeRaises == ASSUME Notice!NoticesAssumption, NoticeInv, Notice!Raises PROVE NoticeInv'
  <1>1. /\ notifier = "sending" /\ to \in 1 .. Users
        /\ notifier' = "told" /\ answer' = "error" /\ UNCHANGED <<notice, blocked, to, attempts>>
    BY DEF Notice!Raises, Notice!AfterFailure, NoticeInv
  <1>2. /\ notice' \in {"tool", "approval", "cron"} /\ blocked' \in SUBSET (1 .. Users)
        /\ to' \in 1 .. Users + 1 /\ attempts' \in 0 .. Attempts
    BY <1>1 DEF NoticeInv
  <1>3. CASE to \in blocked /\ UNCHANGED <<got, noticeFaults>>
    <2>1. /\ got' \in [1 .. Users -> Nat] /\ \A u \in 1 .. Users : got'[u] <= attempts'
          /\ \A u, v \in 1 .. Users : u < v /\ u \notin blocked' => got'[u] >= got'[v]
          /\ noticeFaults' \in 0 .. NoticeFaults
      BY <1>1, <1>3 DEF NoticeInv
    <2>2. QED
      BY <1>1, <1>2, <2>1 DEF NoticeInv
  <1>4. CASE /\ to \notin blocked /\ noticeFaults < NoticeFaults /\ noticeFaults' = noticeFaults + 1
             /\ \E n \in {0, 1} : got' = [got EXCEPT ![to] = @ + n]
    <2>1. noticeFaults' \in 0 .. NoticeFaults
      BY <1>4 DEF NoticeInv, Notice!NoticesAssumption
    <2>2. PICK n \in {0, 1} : got' = [got EXCEPT ![to] = got[to] + n]
      BY <1>4
    <2>3. /\ got' \in [1 .. Users -> Nat] /\ \A u \in 1 .. Users : got'[u] <= attempts'
          /\ \A u, v \in 1 .. Users : u < v /\ u \notin blocked' => got'[u] >= got'[v]
      BY <1>1, <1>4, <2>2, NoticeCopies
    <2>4. QED
      BY <1>1, <1>2, <2>1, <2>3 DEF NoticeInv
  <1>5. QED
    BY <1>3, <1>4 DEF Notice!Raises

LEMMA NoticeSteps ==
  ASSUME Notice!NoticesAssumption, NoticeInv, Notice!Next \/ UNCHANGED noticeVars
  PROVE  NoticeInv'
  <1>1. CASE Notice!AllSent
    <2>1. \A u \in 1 .. Users : u < to
      BY <1>1 DEF Notice!AllSent, NoticeInv, Notice!NoticesAssumption
    <2>2. \A u \in 1 .. Users : got[u] > 0
      BY <1>1, <2>1 DEF Notice!AllSent, NoticeInv
    <2>3. QED
      BY <1>1, <2>2 DEF Notice!AllSent, NoticeInv
  <1>2. CASE Notice!GoesOn
    <2>1. CASE notifier' = "over"
      BY <1>2, <2>1 DEF Notice!GoesOn, NoticeInv
    <2>2. CASE notifier' = "new" /\ answer = "error" /\ attempts < Attempts
      BY <1>2, <2>2 DEF Notice!GoesOn, NoticeInv
    <2>3. QED
      BY <1>2, <2>1, <2>2 DEF Notice!GoesOn
  <1>3. CASE UNCHANGED noticeVars
    BY <1>3 DEF noticeVars, NoticeInv
  <1>4. QED
    BY <1>1, <1>2, <1>3, NoticeBegins, NoticeArrives, NoticeRaises DEF Notice!Next

(* Nothing was sent yet. *)
LEMMA NoticeStarts == ASSUME Notice!NoticesAssumption, Notice!Init PROVE NoticeInv
  <1>1. Users \in Nat \ {0} /\ Attempts \in Nat \ {0} /\ NoticeFaults \in Nat
    BY DEF Notice!NoticesAssumption
  <1>2. got = [u \in 1 .. Users |-> 0]
    BY DEF Notice!Init
  <1>3. got \in [1 .. Users -> Nat] /\ \A u \in 1 .. Users : got[u] = 0
    BY <1>2
  <1>4. QED
    BY <1>1, <1>3 DEF Notice!Init, NoticeInv

(* The invariant says what the run checks. *)
LEMMA NoticeShows ==
  ASSUME Notice!NoticesAssumption, NoticeInv PROVE Notice!TypeOK /\ Notice!SentMeansAll
  <1>1. got \in [1 .. Users -> 0 .. Attempts]
    <2>1. \A u \in 1 .. Users : got[u] \in 0 .. Attempts
      BY DEF NoticeInv, Notice!NoticesAssumption
    <2>2. QED
      BY <2>1 DEF NoticeInv
  <1>2. QED
    BY <1>1 DEF NoticeInv, Notice!TypeOK, Notice!SentMeansAll

-----------------------------------------------------------------------------
(* The search for knowledge: Retriever.search().                              *)

(* The instance counts as the library does. *)
LEMMA SameCount ==
  \A S : Search!Cardinality(S) = Cardinality(S) /\ (Search!IsFiniteSet(S) <=> IsFiniteSet(S))
  BY DEF Search!Cardinality, Cardinality, Search!IsFiniteSet, IsFiniteSet

(* The least of two numbers. *)
LEMMA LesserOf ==
  ASSUME NEW a \in Nat, NEW b \in Nat
  PROVE  Search!Min({a, b}) = IF a <= b THEN a ELSE b
  <1> DEFINE m == IF a <= b THEN a ELSE b
  <1>1. m \in {a, b} /\ \A y \in {a, b} : m <= y
    OBVIOUS
  <1>2. ASSUME NEW x \in {a, b}, \A y \in {a, b} : x <= y PROVE x = m
    BY <1>1, <1>2
  <1> HIDE DEF m
  <1>3. Search!Min({a, b}) = m
    BY <1>1, <1>2 DEF Search!Min
  <1>4. QED
    BY <1>3 DEF m

(* Products: what the comparison of fractions needs. *)
LEMMA Products ==
  /\ \A x, y, z \in Nat : x * y = y * x /\ x * y \in Nat /\ (x * y) * z = x * (y * z)
  /\ \A x, y, z \in Nat : x <= y => x * z <= y * z
  /\ \A x, y \in Nat, z \in Nat \ {0} : x < y => x * z < y * z
  /\ \A x, y, z \in Nat : x * z < y * z => x < y
  /\ \A x, y \in Nat, z \in Nat \ {0} : x * z <= y * z => x <= y
  <1>1. \A x, y, z \in Nat : x * y = y * x /\ x * y \in Nat /\ (x * y) * z = x * (y * z)
    OBVIOUS
  <1>2. \A x, y, z \in Nat : x <= y => x * z <= y * z
    OBVIOUS
  <1>3. \A x, y \in Nat, z \in Nat \ {0} : x < y => x * z < y * z
    OBVIOUS
  <1>4. \A x, y, z \in Nat : x * z < y * z => x < y
    OBVIOUS
  <1>5. \A x, y \in Nat, z \in Nat \ {0} : x * z <= y * z => x <= y
    OBVIOUS
  <1>6. QED
    BY <1>1, <1>2, <1>3, <1>4, <1>5

(* Comparing a/b, c/d and e/f by their cross products is transitive. *)
LEMMA Fractions ==
  ASSUME NEW a \in Nat, NEW b \in Nat \ {0}, NEW c \in Nat, NEW d \in Nat \ {0},
         NEW e \in Nat, NEW f \in Nat \ {0}, a * d >= c * b, c * f >= e * d
  PROVE  /\ a * f >= e * b
         /\ a * d > c * b \/ c * f > e * d => a * f > e * b
  <1> DEFINE p == a * d
             q == c * b
             r == c * f
             s == e * d
             u == a * f
             v == e * b
  <1>1. p \in Nat /\ q \in Nat /\ r \in Nat /\ s \in Nat /\ u \in Nat /\ v \in Nat
    OBVIOUS
  <1>2. p * f = u * d /\ q * f = r * b /\ s * b = v * d
    OBVIOUS
  <1> HIDE DEF p, q, r, s, u, v
  <1>3. q * f <= p * f /\ s * b <= r * b
    BY <1>1, Products DEF p, q, r, s
  <1>4. u * d \in Nat /\ v * d \in Nat /\ r * b \in Nat
    BY <1>1
  <1>5. v * d <= u * d
    BY <1>2, <1>3, <1>4
  <1>6. v <= u
    BY <1>1, <1>5, Products
  <1>7. ASSUME p > q \/ r > s PROVE u > v
    <2>1. q * f < p * f \/ s * b < r * b
      BY <1>1, <1>7, Products
    <2>2. v * d < u * d
      BY <1>2, <1>3, <1>4, <2>1
    <2>3. QED
      BY <1>1, <2>2, Products
  <1>8. QED
    BY <1>1, <1>6, <1>7 DEF p, q, r, s, u, v

(* Two ranks count for more than one: 1/v + 1/w > 1/u. *)
LEMMA TwoBeatOne ==
  ASSUME NEW k \in Nat, NEW t \in Nat, t < k + 2,
         NEW v \in k + 1 .. k + t, NEW w \in k + 1 .. k + t, NEW u \in Nat, u >= k + 1
  PROVE  (v + w) * u > 1 * (v * w)
  <1>1. v \in Nat \ {0} /\ w \in Nat \ {0} /\ v < 2 * u /\ w < 2 * u
    OBVIOUS
  <1>2. v * w < (2 * u) * w /\ w * v < (2 * u) * v
    BY <1>1, Products
  <1>3. 2 * (v * w) < 2 * ((v + w) * u)
    BY <1>1, <1>2
  <1>4. QED
    BY <1>1, <1>3

(* A chunk that both searches rank higher has the higher score: 1/v + 1/w > 1/x + 1/y. *)
LEMMA LowerRanksWin ==
  ASSUME NEW v \in Nat \ {0}, NEW w \in Nat \ {0}, NEW x \in Nat, NEW y \in Nat, v < x, w < y
  PROVE  (v + w) * (x * y) > (x + y) * (v * w)
  <1>1. x \in Nat \ {0} /\ y \in Nat \ {0}
    OBVIOUS
  <1>2. v * x \in Nat \ {0} /\ w * y \in Nat \ {0} /\ v * w \in Nat \ {0} /\ x * y \in Nat \ {0}
    BY <1>1
  <1>3. w * (v * x) < y * (v * x) /\ v * (w * y) < x * (w * y)
    BY <1>1, <1>2, Products
  <1>4. /\ (v + w) * (x * y) = y * (v * x) + x * (w * y)
        /\ (x + y) * (v * w) = w * (v * x) + v * (w * y)
    OBVIOUS
  <1>5. y * (v * x) \in Nat /\ x * (w * y) \in Nat /\ w * (v * x) \in Nat /\ v * (w * y) \in Nat
    BY <1>1
  <1>6. QED
    BY <1>3, <1>4, <1>5

\* The rows of one statement: different ids, and no more than were asked for.
Ranking(s) == s \in Seq(ChunkIds) /\ Search!IsInjective(s) /\ Len(s) <= TopK

LEMMA Ranks ==
  ASSUME Search!RetrieverAssumption, NEW s, Ranking(s), NEW c \in Search!ToSet(s)
  PROVE  /\ Search!Rank(s, c) \in 1 .. Len(s) /\ Search!Rank(s, c) \in 1 .. TopK
         /\ s[Search!Rank(s, c)] = c /\ Len(s) \in Nat
  <1>1. Len(s) \in Nat /\ Len(s) <= TopK /\ TopK \in Nat /\ DOMAIN s = 1 .. Len(s)
    BY DEF Ranking, Search!RetrieverAssumption
  <1>2. \E i \in DOMAIN s : s[i] = c
    BY DEF Search!ToSet
  <1>3. Search!Rank(s, c) \in DOMAIN s /\ s[Search!Rank(s, c)] = c
    BY <1>2 DEF Search!Rank
  <1>4. QED
    BY <1>1, <1>3

\* Both statements have answered.
Answered == Ranking(vector) /\ Ranking(words)

(* The parts of the score, and where a chunk came into the dictionary. *)
LEMMA Scores ==
  ASSUME Search!RetrieverAssumption, Answered, NEW c \in Search!Found
  PROVE  LET v == K + Search!Rank(vector, c)
             w == K + Search!Rank(words, c)
             s == Search!Score(c)
         IN /\ c \in Search!Both =>
                 /\ v \in K + 1 .. K + TopK /\ w \in K + 1 .. K + TopK
                 /\ s[1] = v + w /\ s[2] = v * w
            /\ c \notin Search!Both =>
                 \E u \in Nat : u >= K + 1 /\ s[1] = 1 /\ s[2] = u
            /\ s[1] \in Nat /\ s[2] \in Nat \ {0}
  <1> DEFINE v == K + Search!Rank(vector, c)
             w == K + Search!Rank(words, c)
             s == Search!Score(c)
  <1>1. K \in Nat /\ TopK \in Nat
    BY DEF Search!RetrieverAssumption
  <1>2. /\ c \in Search!ToSet(vector) => Search!Rank(vector, c) \in 1 .. TopK
        /\ c \in Search!ToSet(words) => Search!Rank(words, c) \in 1 .. TopK
    BY Ranks DEF Answered
  <1>3. /\ c \in Search!ToSet(vector) => v \in K + 1 .. K + TopK
        /\ c \in Search!ToSet(words) => w \in K + 1 .. K + TopK
    BY <1>1, <1>2
  <1>4. CASE c \in Search!Both
    <2>1. s = <<v + w, v * w>>
      BY <1>4 DEF Search!Score
    <2>2. v \in K + 1 .. K + TopK /\ w \in K + 1 .. K + TopK
      BY <1>3, <1>4 DEF Search!Both
    <2> HIDE DEF v, w, s
    <2>3. s[1] = v + w /\ s[2] = v * w
      BY <2>1, PairHas
    <2>4. v \in Nat \ {0} /\ w \in Nat \ {0}
      BY <1>1, <2>2
    <2>5. v + w \in Nat /\ v * w \in Nat \ {0}
      BY <2>4
    <2>6. s[1] \in Nat /\ s[2] \in Nat \ {0}
      BY <2>3, <2>5
    <2>7. QED
      BY <1>4, <2>2, <2>3, <2>6 DEF v, w, s
  <1>5. CASE c \in Search!ToSet(vector) \ Search!Both
    <2>1. s = <<1, v>>
      BY <1>5 DEF Search!Score
    <2>2. v \in Nat /\ v >= K + 1
      BY <1>1, <1>3, <1>5
    <2> HIDE DEF v, w, s
    <2>3. s[1] = 1 /\ s[2] = v
      BY <2>1, PairHas
    <2>4. s[1] \in Nat /\ s[2] \in Nat \ {0}
      BY <1>1, <2>2, <2>3
    <2>5. QED
      BY <1>5, <2>2, <2>3, <2>4 DEF s
  <1>6. CASE c \notin Search!ToSet(vector)
    <2>1. c \in Search!ToSet(words) /\ c \notin Search!Both
      BY <1>6 DEF Search!Found, Search!Both
    <2>2. s = <<1, w>>
      BY <1>6, <2>1 DEF Search!Score
    <2>3. w \in Nat /\ w >= K + 1
      BY <1>1, <1>3, <2>1
    <2> HIDE DEF v, w, s
    <2>4. s[1] = 1 /\ s[2] = w
      BY <2>2, PairHas
    <2>5. s[1] \in Nat /\ s[2] \in Nat \ {0}
      BY <1>1, <2>3, <2>4
    <2>6. QED
      BY <2>1, <2>3, <2>4, <2>5 DEF s
  <1>7. QED
    BY <1>4, <1>5, <1>6 DEF Search!Both

(* No two chunks come in at the same place. *)
LEMMA Arrivals ==
  ASSUME Search!RetrieverAssumption, Answered, NEW c \in Search!Found
  PROVE  /\ Search!Came(c) \in Nat
         /\ \A d \in Search!Found : Search!Came(c) = Search!Came(d) => c = d
  <1>1. ASSUME NEW e \in Search!Found
        PROVE  \/ /\ e \in Search!ToSet(vector) /\ Search!Came(e) = Search!Rank(vector, e)
                  /\ Search!Came(e) \in 1 .. Len(vector) /\ vector[Search!Came(e)] = e
               \/ /\ e \in Search!ToSet(words) /\ Search!Rank(words, e) \in 1 .. Len(words)
                  /\ Search!Came(e) = Len(vector) + Search!Rank(words, e)
                  /\ words[Search!Rank(words, e)] = e
    BY Ranks DEF Answered, Search!Came, Search!Found
  <1>2. Len(vector) \in Nat /\ Len(words) \in Nat
    BY DEF Answered, Ranking
  <1>3. Search!Came(c) \in Nat
    BY <1>1, <1>2
  <1>4. ASSUME NEW d \in Search!Found, Search!Came(c) = Search!Came(d) PROVE c = d
    <2>1. CASE /\ Search!Came(c) \in 1 .. Len(vector) /\ vector[Search!Came(c)] = c
               /\ Search!Came(d) \in 1 .. Len(vector) /\ vector[Search!Came(d)] = d
      BY <1>4, <2>1
    <2>2. CASE /\ Search!Came(c) = Len(vector) + Search!Rank(words, c)
               /\ Search!Came(d) = Len(vector) + Search!Rank(words, d)
               /\ words[Search!Rank(words, c)] = c /\ words[Search!Rank(words, d)] = d
               /\ Search!Rank(words, c) \in 1 .. Len(words) /\ Search!Rank(words, d) \in 1 .. Len(words)
      <3>1. Search!Rank(words, c) \in Nat /\ Search!Rank(words, d) \in Nat
        BY <1>2, <2>2
      <3>2. Len(vector) + Search!Rank(words, c) = Len(vector) + Search!Rank(words, d)
        BY <1>4, <2>2
      <3>3. Search!Rank(words, c) = Search!Rank(words, d)
        BY <1>2, <3>1, <3>2
      <3>4. QED
        BY <2>2, <3>3
    <2>3. CASE /\ Search!Came(c) \in 1 .. Len(vector)
               /\ Search!Came(d) = Len(vector) + Search!Rank(words, d)
               /\ Search!Rank(words, d) \in 1 .. Len(words)
      BY <1>2, <1>4, <2>3
    <2>4. CASE /\ Search!Came(d) \in 1 .. Len(vector)
               /\ Search!Came(c) = Len(vector) + Search!Rank(words, c)
               /\ Search!Rank(words, c) \in 1 .. Len(words)
      BY <1>2, <1>4, <2>4
    <2>5. QED
      BY <1>1, <2>1, <2>2, <2>3, <2>4
  <1>5. QED
    BY <1>3, <1>4

(* sorted() orders what was found: strictly, and any two chunks. *)
LEMMA OrderIsStrict ==
  ASSUME Search!RetrieverAssumption, Answered, NEW c \in Search!Found, NEW d \in Search!Found
  PROVE  /\ Search!Higher(c, d) => ~Search!Higher(d, c)
         /\ Search!Before(c, d) => ~Search!Before(d, c) /\ c # d
         /\ c # d => Search!Before(c, d) \/ Search!Before(d, c)
  <1>1. /\ Search!Score(c)[1] \in Nat /\ Search!Score(c)[2] \in Nat
        /\ Search!Score(d)[1] \in Nat /\ Search!Score(d)[2] \in Nat
    BY Scores
  <1>2. /\ Search!Score(c)[1] * Search!Score(d)[2] \in Nat
        /\ Search!Score(d)[1] * Search!Score(c)[2] \in Nat
    BY <1>1
  <1>3. Search!Higher(c, d) => ~Search!Higher(d, c)
    BY <1>2 DEF Search!Higher
  <1>4. Search!Came(c) \in Nat /\ Search!Came(d) \in Nat /\ (Search!Came(c) = Search!Came(d) => c = d)
    BY Arrivals
  <1>5. QED
    BY <1>3, <1>4 DEF Search!Before

LEMMA OrderIsTransitive ==
  ASSUME Search!RetrieverAssumption, Answered,
         NEW c \in Search!Found, NEW d \in Search!Found, NEW e \in Search!Found,
         Search!Before(c, d), Search!Before(d, e)
  PROVE  Search!Before(c, e)
  <1> DEFINE a1 == Search!Score(c)[1]
             a2 == Search!Score(c)[2]
             b1 == Search!Score(d)[1]
             b2 == Search!Score(d)[2]
             c1 == Search!Score(e)[1]
             c2 == Search!Score(e)[2]
  <1>1. /\ a1 \in Nat /\ a2 \in Nat \ {0} /\ b1 \in Nat /\ b2 \in Nat \ {0}
        /\ c1 \in Nat /\ c2 \in Nat \ {0}
    BY Scores
  <1>2. /\ Search!Higher(c, d) <=> a1 * b2 > b1 * a2
        /\ Search!Higher(d, c) <=> b1 * a2 > a1 * b2
        /\ Search!Higher(d, e) <=> b1 * c2 > c1 * b2
        /\ Search!Higher(e, d) <=> c1 * b2 > b1 * c2
        /\ Search!Higher(c, e) <=> a1 * c2 > c1 * a2
        /\ Search!Higher(e, c) <=> c1 * a2 > a1 * c2
    BY DEF Search!Higher
  <1>3. Search!Came(c) \in Nat /\ Search!Came(d) \in Nat /\ Search!Came(e) \in Nat
    BY Arrivals
  <1> HIDE DEF a1, a2, b1, b2, c1, c2
  <1>4. /\ a1 * b2 \in Nat /\ b1 * a2 \in Nat /\ b1 * c2 \in Nat /\ c1 * b2 \in Nat
        /\ a1 * c2 \in Nat /\ c1 * a2 \in Nat
    BY <1>1
  <1>5. ~Search!Higher(d, c) /\ ~Search!Higher(e, d)
    BY OrderIsStrict DEF Search!Before
  <1>6. a1 * b2 >= b1 * a2 /\ b1 * c2 >= c1 * b2
    BY <1>2, <1>4, <1>5
  <1>7. /\ a1 * c2 >= c1 * a2
        /\ a1 * b2 > b1 * a2 \/ b1 * c2 > c1 * b2 => a1 * c2 > c1 * a2
    BY <1>1, <1>6, Fractions
  <1>8. ~Search!Higher(e, c) /\ (Search!Higher(c, d) \/ Search!Higher(d, e) => Search!Higher(c, e))
    BY <1>2, <1>4, <1>7
  <1>9. QED
    BY <1>3, <1>8 DEF Search!Before

LEMMA FoundIsFinite ==
  ASSUME Search!RetrieverAssumption, Answered
  PROVE  IsFiniteSet(Search!Found) /\ Search!Found \subseteq ChunkIds
  <1>1. Search!Found \subseteq ChunkIds
    BY DEF Search!Found, Search!ToSet, Answered, Ranking
  <1>2. IsFiniteSet(ChunkIds)
    BY SameCount DEF Search!RetrieverAssumption
  <1>3. QED
    BY <1>1, <1>2, FS_Subset

(* The places of some of what was found are 0, 1, ... in the order, one for each. *)
LEMMA Places ==
  ASSUME Search!RetrieverAssumption, Answered, NEW S, S \subseteq Search!Found
  PROVE  /\ IsFiniteSet(S) /\ Cardinality(S) \in Nat
         /\ \A c \in S : Search!Place(c, S) \in 0 .. Cardinality(S) - 1
         /\ \A c, d \in S : Search!Before(c, d) => Search!Place(c, S) < Search!Place(d, S)
         /\ \A c, d \in S : Search!Place(c, S) = Search!Place(d, S) => c = d
         /\ \A k \in 0 .. Cardinality(S) - 1 : \E c \in S : Search!Place(c, S) = k
  <1> DEFINE Ahead(c) == {d \in S : Search!Before(d, c)}
             P(c) == Search!Place(c, S)
             n == Cardinality(S)
  <1>1. IsFiniteSet(S) /\ n \in Nat
    BY FoundIsFinite, FS_Subset, FS_CardinalityType
  <1>2. \A c \in S : /\ P(c) = Cardinality(Ahead(c)) /\ Ahead(c) \subseteq S /\ IsFiniteSet(Ahead(c))
                     /\ P(c) \in Nat
    <2>1. ASSUME NEW c \in S PROVE P(c) = Cardinality(Ahead(c))
      BY SameCount DEF Search!Place
    <2>2. ASSUME NEW c \in S PROVE IsFiniteSet(Ahead(c)) /\ Cardinality(Ahead(c)) \in Nat
      BY <1>1, FS_Subset, FS_CardinalityType
    <2>3. QED
      BY <2>1, <2>2
  <1>3. ASSUME NEW c \in S PROVE P(c) \in 0 .. n - 1
    <2>1. Ahead(c) # S
      BY OrderIsStrict
    <2> HIDE DEF Ahead, P, n
    <2>2. Cardinality(Ahead(c)) <= Cardinality(S) /\ Cardinality(Ahead(c)) # Cardinality(S)
      BY <1>1, <1>2, <2>1, FS_Subset
    <2>3. P(c) <= n /\ P(c) # n /\ P(c) \in Nat /\ n \in Nat
      BY <1>1, <1>2, <2>2 DEF n
    <2>4. QED
      BY <2>3
  <1>4. ASSUME NEW c \in S, NEW d \in S, Search!Before(c, d) PROVE P(c) < P(d)
    <2>1. Ahead(c) \subseteq Ahead(d)
      BY <1>4, OrderIsTransitive
    <2>2. c \in Ahead(d) /\ c \notin Ahead(c)
      BY <1>4, OrderIsStrict
    <2> HIDE DEF Ahead, P, n
    <2>3. Cardinality(Ahead(c)) <= Cardinality(Ahead(d)) /\ Cardinality(Ahead(c)) # Cardinality(Ahead(d))
      BY <1>2, <2>1, <2>2, FS_Subset
    <2>4. QED
      BY <1>2, <2>3
  <1>5. ASSUME NEW c \in S, NEW d \in S, P(c) = P(d) PROVE c = d
    <2>1. P(c) \in Nat /\ P(d) \in Nat
      BY <1>2
    <2>2. ~Search!Before(c, d) /\ ~Search!Before(d, c)
      <3> HIDE DEF Ahead, P, n
      <3>1. QED
        BY <1>4, <1>5, <2>1
    <2>3. QED
      BY <2>2, OrderIsStrict
  <1>6. ASSUME NEW k \in 0 .. n - 1 PROVE \E c \in S : P(c) = k
    <2> DEFINE f == [c \in S |-> P(c)]
    <2> HIDE DEF Ahead, P, n
    <2>1. f \in Injection(S, 0 .. n - 1)
      BY <1>3, <1>5 DEF Injection, IsInjective
    <2>2. IsFiniteSet(0 .. n - 1) /\ Cardinality(0 .. n - 1) = n
      <3>1. 0 \in Int /\ n - 1 \in Int
        BY <1>1
      <3>2. QED
        BY <1>1, <3>1, FS_Interval
    <2>3. f \in Surjection(S, 0 .. n - 1)
      <3>1. Cardinality(S) = Cardinality(0 .. n - 1)
        BY <2>2 DEF n
      <3> HIDE DEF f
      <3>2. QED
        BY <2>1, <2>2, <3>1, FS_Injection
    <2>4. PICK c \in S : f[c] = k
      BY <2>3 DEF Surjection
    <2>5. QED
      BY <2>4
  <1>7. QED
    BY <1>1, <1>3, <1>4, <1>5, <1>6

(* The first places are as many as were asked for, or as there are. *)
LEMMA FirstPlaces ==
  ASSUME Search!RetrieverAssumption, Answered
  PROVE  LET top == {c \in Search!Found : Search!Place(c, Search!Found) < TopK}
             n == Cardinality(Search!Found)
         IN IsFiniteSet(top) /\ n \in Nat /\ Cardinality(top) = IF TopK <= n THEN TopK ELSE n
  <1> DEFINE S == Search!Found
             n == Cardinality(S)
             top == {c \in S : Search!Place(c, S) < TopK}
             m == IF TopK <= n THEN TopK ELSE n
             f == [c \in top |-> Search!Place(c, S)]
  <1>1. /\ IsFiniteSet(S) /\ n \in Nat
        /\ \A c \in S : Search!Place(c, S) \in 0 .. n - 1
        /\ \A c, d \in S : Search!Place(c, S) = Search!Place(d, S) => c = d
        /\ \A k \in 0 .. n - 1 : \E c \in S : Search!Place(c, S) = k
    BY Places
  <1>2. TopK \in Nat /\ m \in Nat
    BY <1>1 DEF Search!RetrieverAssumption
  <1>3. IsFiniteSet(top)
    <2>1. top \subseteq S
      OBVIOUS
    <2> HIDE DEF top
    <2>2. QED
      BY <1>1, <2>1, FS_Subset
  <1>4. \A c \in top : Search!Place(c, S) \in 0 .. m - 1
    <2> HIDE DEF S, n
    <2>1. QED
      BY <1>1, <1>2
  <1>5. \A k \in 0 .. m - 1 : \E c \in top : Search!Place(c, S) = k
    <2> HIDE DEF S, n
    <2>1. \A k \in 0 .. m - 1 : k \in 0 .. n - 1 /\ k < TopK
      BY <1>1, <1>2
    <2> HIDE DEF m
    <2>2. QED
      BY <1>1, <2>1
  <1>6. f \in Bijection(top, 0 .. m - 1)
    <2>1. f \in [top -> 0 .. m - 1]
      BY <1>4
    <2>2. \A c, d \in top : f[c] = f[d] => c = d
      BY <1>1
    <2>3. \A k \in 0 .. m - 1 : \E c \in top : f[c] = k
      BY <1>5
    <2> HIDE DEF f, top, m, S, n
    <2>4. QED
      BY <2>1, <2>2, <2>3 DEF Bijection, Injection, IsInjective, Surjection
  <1>7. Cardinality(0 .. m - 1) = m
    <2>1. 0 \in Int /\ m - 1 \in Int
      BY <1>2
    <2> HIDE DEF m
    <2>2. QED
      BY <1>2, <2>1, FS_Interval
  <1>8. Cardinality(top) = Cardinality(0 .. m - 1)
    <2> HIDE DEF f, top, m, S, n
    <2>1. ExistsBijection(top, 0 .. m - 1)
      BY <1>6 DEF ExistsBijection
    <2>2. QED
      BY <1>3, <2>1, FS_Bijection
  <1>9. QED
    BY <1>1, <1>3, <1>7, <1>8

(* What both searches found comes first, and nothing comes behind what neither of them
   ranks higher. *)
LEMMA OrderIsFair ==
  ASSUME Search!RetrieverAssumption, Answered, NEW c \in Search!Found, NEW d \in Search!Found,
         Search!Before(c, d)
  PROVE  /\ ~(d \in Search!Both /\ c \notin Search!Both)
         /\ c \in Search!Both /\ d \in Search!Both =>
              \/ Search!Rank(vector, c) < Search!Rank(vector, d)
              \/ Search!Rank(words, c) < Search!Rank(words, d)
  <1>1. ~Search!Higher(d, c) /\ c # d
    BY OrderIsStrict DEF Search!Before
  <1>2. K \in Nat /\ TopK \in Nat /\ TopK < K + 2
    BY DEF Search!RetrieverAssumption
  <1> DEFINE v(e) == K + Search!Rank(vector, e)
             w(e) == K + Search!Rank(words, e)
  <1>3. ASSUME NEW e \in Search!Found, e \in Search!Both
        PROVE  /\ v(e) \in K + 1 .. K + TopK /\ w(e) \in K + 1 .. K + TopK
               /\ Search!Score(e)[1] = v(e) + w(e) /\ Search!Score(e)[2] = v(e) * w(e)
    BY <1>3, Scores
  <1>4. ASSUME d \in Search!Both, c \notin Search!Both PROVE FALSE
    <2>1. PICK u \in Nat : u >= K + 1 /\ Search!Score(c)[1] = 1 /\ Search!Score(c)[2] = u
      BY <1>4, Scores
    <2>2. v(d) \in K + 1 .. K + TopK /\ w(d) \in K + 1 .. K + TopK
      BY <1>3, <1>4
    <2>3. Search!Score(d)[1] = v(d) + w(d) /\ Search!Score(d)[2] = v(d) * w(d)
      BY <1>3, <1>4
    <2> HIDE DEF v, w
    <2>4. (v(d) + w(d)) * u > 1 * (v(d) * w(d))
      BY <1>2, <2>1, <2>2, TwoBeatOne
    <2>5. Search!Higher(d, c)
      BY <2>1, <2>3, <2>4 DEF Search!Higher
    <2>6. QED
      BY <1>1, <2>5
  <1>5. ASSUME c \in Search!Both, d \in Search!Both,
               ~(Search!Rank(vector, c) < Search!Rank(vector, d)),
               ~(Search!Rank(words, c) < Search!Rank(words, d))
        PROVE  FALSE
    <2>1. /\ c \in Search!ToSet(vector) /\ d \in Search!ToSet(vector)
          /\ c \in Search!ToSet(words) /\ d \in Search!ToSet(words)
      BY <1>5 DEF Search!Both
    <2>2. /\ Search!Rank(vector, c) \in 1 .. TopK /\ vector[Search!Rank(vector, c)] = c
          /\ Search!Rank(vector, d) \in 1 .. TopK /\ vector[Search!Rank(vector, d)] = d
          /\ Search!Rank(words, c) \in 1 .. TopK /\ words[Search!Rank(words, c)] = c
          /\ Search!Rank(words, d) \in 1 .. TopK /\ words[Search!Rank(words, d)] = d
      BY <2>1, Ranks DEF Answered
    <2>3. /\ Search!Rank(vector, c) # Search!Rank(vector, d)
          /\ Search!Rank(words, c) # Search!Rank(words, d)
      BY <1>1, <2>2
    <2>4. /\ Search!Rank(vector, d) < Search!Rank(vector, c)
          /\ Search!Rank(words, d) < Search!Rank(words, c)
      BY <1>2, <1>5, <2>2, <2>3
    <2>5. /\ v(d) \in Nat \ {0} /\ w(d) \in Nat \ {0} /\ v(c) \in Nat /\ w(c) \in Nat
          /\ v(d) < v(c) /\ w(d) < w(c)
      BY <1>2, <2>2, <2>4
    <2>6. /\ Search!Score(c)[1] = v(c) + w(c) /\ Search!Score(c)[2] = v(c) * w(c)
          /\ Search!Score(d)[1] = v(d) + w(d) /\ Search!Score(d)[2] = v(d) * w(d)
      BY <1>3, <1>5
    <2> HIDE DEF v, w
    <2>7. (v(d) + w(d)) * (v(c) * w(c)) > (v(c) + w(c)) * (v(d) * w(d))
      BY <2>5, LowerRanksWin
    <2>8. Search!Higher(d, c)
      BY <2>6, <2>7 DEF Search!Higher
    <2>9. QED
      BY <1>1, <2>8
  <1>6. QED
    BY <1>4, <1>5

\* What was found is stored, or went since then.
SearchInv ==
  /\ stored \subseteq ChunkIds /\ gone \subseteq ChunkIds \ stored
  /\ search \in {"vector", "words", "fetch", "answered"} /\ passes \in 0 .. MaxPasses
  /\ Answered /\ results \in Seq(ChunkIds)
  /\ Search!Found \subseteq stored \cup gone
  /\ Search!FusionFair /\ Search!MissingOnlyIfGone

(* The rows of a statement are stored ones. *)
LEMMA RowsAreStored ==
  ASSUME Search!RetrieverAssumption, NEW S, S \subseteq ChunkIds, NEW s \in Search!Rankings(S)
  PROVE  Ranking(s) /\ Search!ToSet(s) \subseteq S
  <1>1. IsFiniteSet(S) /\ Cardinality(S) \in Nat /\ TopK \in Nat
    BY SameCount, FS_Subset, FS_CardinalityType DEF Search!RetrieverAssumption
  <1> DEFINE m == Search!Min({TopK, Search!Cardinality(S)})
  <1>2. m \in Nat /\ m <= TopK
    <2>1. Search!Cardinality(S) = Cardinality(S)
      BY SameCount
    <2>2. m = IF TopK <= Cardinality(S) THEN TopK ELSE Cardinality(S)
      BY <1>1, <2>1, LesserOf
    <2>3. QED
      BY <1>1, <2>2
  <1>3. s \in [1 .. m -> S] /\ Search!IsInjective(s)
    BY DEF Search!Rankings, Search!Injection
  <1> HIDE DEF m
  <1>4. s \in Seq(ChunkIds) /\ Len(s) = m
    BY <1>2, <1>3
  <1>5. Search!ToSet(s) \subseteq S
    BY <1>3 DEF Search!ToSet
  <1>6. QED
    BY <1>2, <1>3, <1>4, <1>5 DEF Ranking

(* The two searches. *)
LEMMA SearchFinds ==
  ASSUME Search!RetrieverAssumption, SearchInv, Search!VectorSearch \/ Search!WordSearch
  PROVE  SearchInv'
  <1>1. Ranking(vector') /\ Ranking(words')
        /\ Search!ToSet(vector') \subseteq stored \cup gone /\ Search!ToSet(words') \subseteq stored \cup gone
    <2>1. /\ Ranking(vector) /\ Ranking(words)
          /\ Search!ToSet(vector) \subseteq stored \cup gone /\ Search!ToSet(words) \subseteq stored \cup gone
      BY DEF SearchInv, Answered, Search!Found
    <2>2. CASE Search!VectorSearch
      <3>1. vector' \in Search!Rankings(stored) /\ words' = words /\ stored \subseteq ChunkIds
        BY <2>2 DEF Search!VectorSearch, SearchInv
      <3>2. QED
        BY <2>1, <3>1, RowsAreStored
    <2>3. CASE Search!WordSearch
      <3>1. PICK M \in SUBSET stored : words' \in Search!Rankings(M)
        BY <2>3 DEF Search!WordSearch
      <3>2. vector' = vector /\ M \subseteq ChunkIds
        BY <2>3, <3>1 DEF Search!WordSearch, SearchInv
      <3>3. QED
        BY <2>1, <3>1, <3>2, RowsAreStored
    <2>4. QED
      BY <2>2, <2>3
  <1>2. UNCHANGED <<stored, gone, results, passes>> /\ search' \in {"words", "fetch"}
    BY DEF Search!VectorSearch, Search!WordSearch
  <1>3. Answered' /\ Search!Found' \subseteq stored' \cup gone'
    BY <1>1, <1>2 DEF Answered, Search!Found
  <1>4. Search!FusionFair' /\ Search!MissingOnlyIfGone'
    BY <1>2 DEF Search!FusionFair, Search!MissingOnlyIfGone
  <1>5. QED
    BY <1>2, <1>3, <1>4 DEF SearchInv

(* A pass of the index commits: what it removes is gone. *)
LEMMA SearchLoses ==
  ASSUME Search!RetrieverAssumption, SearchInv, Search!IndexCommits PROVE SearchInv'
  <1>1. /\ search \in {"words", "fetch"} /\ passes < MaxPasses /\ passes' = passes + 1
        /\ UNCHANGED <<search, vector, words, results>>
    BY DEF Search!IndexCommits
  <1>2. PICK old \in SUBSET stored, new \in SUBSET (ChunkIds \ (stored \cup gone)) :
          stored' = (stored \ old) \cup new /\ gone' = gone \cup old
    BY DEF Search!IndexCommits
  <1>3. stored' \subseteq ChunkIds /\ gone' \subseteq ChunkIds \ stored'
        /\ stored \cup gone \subseteq stored' \cup gone'
    BY <1>2 DEF SearchInv
  <1>4. Answered' /\ Search!Found' = Search!Found
    BY <1>1 DEF SearchInv, Answered, Search!Found
  <1>5. Search!FusionFair' /\ Search!MissingOnlyIfGone'
    BY <1>1 DEF Search!FusionFair, Search!MissingOnlyIfGone
  <1>6. passes' \in 0 .. MaxPasses
    BY <1>1 DEF SearchInv, Search!RetrieverAssumption
  <1>7. QED
    BY <1>1, <1>3, <1>4, <1>5, <1>6 DEF SearchInv

(* The least of three numbers is none of the greater ones. *)
LEMMA LeastOfThree ==
  ASSUME NEW a \in Nat, NEW b \in Nat, NEW c \in Nat
  PROVE  LET m == Search!Min({a, b, c}) IN m \in Nat /\ m <= a /\ m <= b /\ m <= c
  <1>1. \E x \in {a, b, c} : \A y \in {a, b, c} : x <= y
    <2>1. CASE a <= b /\ a <= c
      BY <2>1
    <2>2. CASE b <= a /\ b <= c
      BY <2>2
    <2>3. CASE c <= a /\ c <= b
      BY <2>3
    <2>4. QED
      BY <2>1, <2>2, <2>3
  <1>2. Search!Min({a, b, c}) \in {a, b, c} /\ \A y \in {a, b, c} : Search!Min({a, b, c}) <= y
    BY <1>1 DEF Search!Min
  <1>3. QED
    BY <1>2

(* Of the first places only those are missing that went. *)
LEMMA FewAreMissing ==
  ASSUME Search!RetrieverAssumption, SearchInv
  PROVE  LET top == {c \in Search!Found : Search!Place(c, Search!Found) < TopK}
         IN Cardinality(top) <= Cardinality(top \cap stored) + Cardinality(gone)
  <1> DEFINE top == {c \in Search!Found : Search!Place(c, Search!Found) < TopK}
  <1>1. IsFiniteSet(top) /\ top \subseteq Search!Found
    BY FirstPlaces DEF SearchInv
  <1>2. IsFiniteSet(gone)
    <2>1. IsFiniteSet(ChunkIds) /\ gone \subseteq ChunkIds
      BY SameCount DEF Search!RetrieverAssumption, SearchInv
    <2>2. QED
      BY <2>1, FS_Subset
  <1>3. top \subseteq (top \cap stored) \cup gone
    BY <1>1 DEF SearchInv
  <1> HIDE DEF top
  <1>4. IsFiniteSet(top \cap stored)
    BY <1>1, FS_Subset
  <1>5. /\ IsFiniteSet((top \cap stored) \cup gone)
        /\ Cardinality((top \cap stored) \cup gone) =
             Cardinality(top \cap stored) + Cardinality(gone) - Cardinality((top \cap stored) \cap gone)
    BY <1>2, <1>4, FS_Union
  <1>6. Cardinality(top) <= Cardinality((top \cap stored) \cup gone)
    BY <1>3, <1>5, FS_Subset
  <1>7. IsFiniteSet((top \cap stored) \cap gone)
    BY <1>4, FS_Subset
  <1>8. /\ Cardinality(top) \in Nat /\ Cardinality(top \cap stored) \in Nat /\ Cardinality(gone) \in Nat
        /\ Cardinality((top \cap stored) \cap gone) \in Nat
        /\ Cardinality((top \cap stored) \cup gone) \in Nat
    BY <1>1, <1>2, <1>4, <1>5, <1>7, FS_CardinalityType
  <1>9. Cardinality(top) <= Cardinality(top \cap stored) + Cardinality(gone)
    BY <1>5, <1>6, <1>8
  <1>10. QED
    BY <1>9 DEF top

(* The answer: the best of what is still there, in the order of the scores. *)
LEMMA SearchFetches ==
  ASSUME Search!RetrieverAssumption, SearchInv, Search!Fetch PROVE SearchInv'
  <1> DEFINE top == {c \in Search!Found : Search!Place(c, Search!Found) < TopK}
             here == top \cap stored
             n == Cardinality(here)
             l == Search!Min({Final, Search!Cardinality(here)})
  <1>1. /\ search' = "answered" /\ UNCHANGED <<stored, gone, vector, words, passes>>
        /\ results' = [i \in 1 .. l |-> CHOOSE c \in here : Search!Place(c, here) = i - 1]
    BY DEF Search!Fetch
  <1>2. here \subseteq Search!Found /\ here \subseteq ChunkIds /\ Answered
    BY DEF SearchInv
  <1> HIDE DEF here
  <1>3. /\ n \in Nat
        /\ \A c, d \in here : Search!Before(c, d) => Search!Place(c, here) < Search!Place(d, here)
        /\ \A k \in 0 .. n - 1 : \E c \in here : Search!Place(c, here) = k
        /\ \A c \in here : Search!Place(c, here) \in 0 .. n - 1
    BY <1>2, Places
  <1>4. l \in Nat /\ l = IF Final <= n THEN Final ELSE n
    <2>1. Search!Cardinality(here) = n /\ Final \in Nat
      BY SameCount DEF Search!RetrieverAssumption
    <2> HIDE DEF n
    <2>2. l = IF Final <= n THEN Final ELSE n
      BY <1>3, <2>1, LesserOf
    <2>3. QED
      BY <1>3, <2>1, <2>2
  <1>5. ASSUME NEW i \in 1 .. l
        PROVE  results'[i] \in here /\ Search!Place(results'[i], here) = i - 1
    <2>1. i - 1 \in 0 .. n - 1
      <3> HIDE DEF l, n
      <3>1. QED
        BY <1>3, <1>4 DEF Search!RetrieverAssumption
    <2>2. \E c \in here : Search!Place(c, here) = i - 1
      BY <1>3, <2>1
    <2>3. results'[i] = CHOOSE c \in here : Search!Place(c, here) = i - 1
      <3> HIDE DEF l
      <3>1. QED
        BY <1>1
    <2>4. QED
      BY <2>2, <2>3
  <1>6. results' \in Seq(ChunkIds) /\ Len(results') = l /\ DOMAIN results' = 1 .. l
    <2> HIDE DEF l
    <2>1. results' \in [1 .. l -> ChunkIds]
      <3>1. DOMAIN results' = 1 .. l /\ results' = [i \in 1 .. l |-> results'[i]]
        BY <1>1
      <3>2. QED
        BY <1>2, <1>5, <3>1
    <2>2. QED
      BY <1>4, <2>1
  <1>7. Search!IsInjective(results')
    <2> HIDE DEF l
    <2>1. ASSUME NEW i \in 1 .. l, NEW j \in 1 .. l, results'[i] = results'[j] PROVE i = j
      <3>1. i - 1 = j - 1
        BY <1>5, <2>1
      <3>2. QED
        BY <1>4, <3>1
    <2>2. QED
      BY <1>6, <2>1 DEF Search!IsInjective
  <1>8. Search!ToSet(results') \subseteq Search!Found'
    <2>1. Search!Found' = Search!Found
      BY <1>1 DEF Search!Found
    <2>2. QED
      BY <1>2, <1>5, <1>6, <2>1 DEF Search!ToSet
  <1>9. Len(results') >= Search!Min({Final, TopK, Search!Cardinality(Search!Found')}) - Search!Cardinality(gone')
    <2> DEFINE f == Cardinality(Search!Found)
               m == Search!Min({Final, TopK, f})
    <2>1. /\ Search!Cardinality(Search!Found') = f /\ Search!Cardinality(gone') = Cardinality(gone)
      <3>1. Search!Found' = Search!Found
        BY <1>1 DEF Search!Found
      <3>2. QED
        BY <1>1, <3>1, SameCount
    <2>2. f \in Nat /\ Cardinality(top) = IF TopK <= f THEN TopK ELSE f
      BY <1>2, FirstPlaces
    <2>3. Cardinality(top) <= n + Cardinality(gone)
      BY FewAreMissing DEF here
    <2>4. Cardinality(gone) \in Nat
      <3>1. IsFiniteSet(ChunkIds) /\ gone \subseteq ChunkIds
        BY SameCount DEF Search!RetrieverAssumption, SearchInv
      <3>2. QED
        BY <3>1, FS_Subset, FS_CardinalityType
    <2>5. Final \in Nat /\ TopK \in Nat
      BY DEF Search!RetrieverAssumption
    <2>6. m \in Nat /\ m <= Final /\ m <= TopK /\ m <= f
      <3> HIDE DEF f
      <3>1. QED
        BY <2>2, <2>5, LeastOfThree
    <2> HIDE DEF f, m, n, l, top
    <2>7. l >= m - Cardinality(gone)
      BY <1>3, <1>4, <2>2, <2>3, <2>4, <2>5, <2>6
    <2>8. QED
      BY <1>6, <2>1, <2>7 DEF m
  <1>10. Search!MissingOnlyIfGone'
    BY <1>7, <1>8, <1>9 DEF Search!MissingOnlyIfGone
  <1>11. ASSUME NEW i \in 1 .. l, NEW j \in 1 .. l, i < j
         PROVE  Search!Before(results'[i], results'[j])
    <2> DEFINE c == results'[i]
               d == results'[j]
    <2>1. c \in here /\ d \in here /\ Search!Place(c, here) = i - 1 /\ Search!Place(d, here) = j - 1
      BY <1>5
    <2> HIDE DEF l, n, c, d
    <2>2. ~Search!Before(d, c) /\ c # d
      BY <1>3, <1>4, <1>11, <2>1
    <2>3. Search!Before(c, d)
      BY <1>2, <2>1, <2>2, OrderIsStrict
    <2>4. QED
      BY <2>3 DEF c, d
  <1>12. Search!FusionFair'
    <2>1. Search!Both' = Search!Both
      BY <1>1 DEF Search!Both
    <2>2. ASSUME NEW i \in DOMAIN results', NEW j \in DOMAIN results', i < j
          PROVE  LET c == results'[i]
                     d == results'[j]
                 IN /\ ~(d \in Search!Both' /\ c \notin Search!Both')
                    /\ c \in Search!Both' /\ d \in Search!Both' =>
                         \/ Search!Rank(vector', c) < Search!Rank(vector', d)
                         \/ Search!Rank(words', c) < Search!Rank(words', d)
      <3>1. results'[i] \in Search!Found /\ results'[j] \in Search!Found
        BY <1>2, <1>5, <1>6
      <3>2. Search!Before(results'[i], results'[j])
        BY <1>6, <1>11, <2>2
      <3>3. vector' = vector /\ words' = words
        BY <1>1
      <3>4. QED
        BY <1>2, <2>1, <3>1, <3>2, <3>3, OrderIsFair
    <2>3. QED
      BY <2>2 DEF Search!FusionFair
  <1>13. /\ stored' \subseteq ChunkIds /\ gone' \subseteq ChunkIds \ stored' /\ passes' \in 0 .. MaxPasses
         /\ Answered' /\ Search!Found' \subseteq stored' \cup gone'
    BY <1>1 DEF SearchInv, Answered, Search!Found
  <1>14. QED
    BY <1>1, <1>6, <1>10, <1>12, <1>13 DEF SearchInv

LEMMA SearchSteps ==
  ASSUME Search!RetrieverAssumption, SearchInv, Search!Next \/ UNCHANGED searchVars
  PROVE  SearchInv'
  <1>1. CASE UNCHANGED searchVars
    <2>1. Answered' /\ Search!Found' = Search!Found
      BY <1>1 DEF searchVars, SearchInv, Answered, Search!Found
    <2>2. Search!FusionFair' /\ Search!MissingOnlyIfGone'
      BY <1>1 DEF searchVars, SearchInv, Search!FusionFair, Search!MissingOnlyIfGone, Search!Both,
                  Search!Found
    <2>3. QED
      BY <1>1, <2>1, <2>2 DEF searchVars, SearchInv
  <1>2. QED
    BY <1>1, SearchFinds, SearchLoses, SearchFetches DEF Search!Next

(* Nothing was found yet. *)
LEMMA SearchStarts == ASSUME Search!RetrieverAssumption, Search!Init PROVE SearchInv
  <1>1. /\ vector = <<>> /\ words = <<>> /\ results = <<>> /\ gone = {} /\ stored \subseteq ChunkIds
        /\ search = "vector" /\ passes = 0 /\ MaxPasses \in Nat /\ TopK \in Nat
    BY DEF Search!Init, Search!RetrieverAssumption
  <1>2. <<>> \in Seq(ChunkIds) /\ Len(<<>>) = 0 /\ DOMAIN <<>> = {}
    OBVIOUS
  <1>3. Ranking(<<>>) /\ Search!ToSet(<<>>) = {}
    BY <1>1, <1>2 DEF Ranking, Search!IsInjective, Search!ToSet
  <1>4. Answered /\ Search!Found = {}
    BY <1>1, <1>3 DEF Answered, Search!Found
  <1>5. Search!FusionFair /\ Search!MissingOnlyIfGone
    BY <1>1 DEF Search!FusionFair, Search!MissingOnlyIfGone
  <1>6. QED
    BY <1>1, <1>2, <1>4, <1>5 DEF SearchInv

(* The invariant says what the run checks. *)
LEMMA SearchShows ==
  ASSUME SearchInv PROVE Search!TypeOK /\ Search!FusionFair /\ Search!MissingOnlyIfGone
  BY DEF SearchInv, Search!TypeOK, Answered, Ranking

-----------------------------------------------------------------------------
(* The code review chain: one review for each code in the round.              *)

ChainInv ==
  /\ chain \in {"writing", "reviewing", "returned", "raised"} /\ round \in 1 .. MaxIterations
  /\ said \in Seq({"code", "failure"}) /\ reviews \in Seq(Chain!Reviews) /\ told \in Seq(Nat)
  /\ Len(told) = Len(said) /\ approved \in BOOLEAN
  /\ Len(said) \in {round - 1, round} /\ Len(reviews) \in {round - 1, round} /\ Len(reviews) <= Len(said)
  /\ chain = "writing" => Len(said) = round - 1
  /\ chain = "reviewing" => Len(said) = round /\ Len(reviews) = round - 1
  /\ chain \in {"writing", "reviewing"} => ~approved
  /\ chain = "returned" => /\ Len(reviews) = round /\ approved = Chain!Verdict(reviews[round])
                           /\ ~approved => round = MaxIterations
  /\ \A i \in 1 .. round - 1 : ~Chain!Verdict(reviews[i])
  /\ \A i \in 2 .. Len(told) : /\ told[i] \in {0, i - 1}
                               /\ Chain!HasFeedback(reviews[i - 1]) => told[i] = i - 1

(* The elements of a longer sequence. *)
LEMMA OneMore ==
  ASSUME NEW S, NEW s \in Seq(S), NEW e \in S
  PROVE  /\ Append(s, e) \in Seq(S) /\ Len(Append(s, e)) = Len(s) + 1 /\ Len(s) \in Nat
         /\ Append(s, e)[Len(s) + 1] = e
         /\ \A i \in 1 .. Len(s) : Append(s, e)[i] = s[i]
  OBVIOUS

(* The writer is given the feedback of the round before. *)
LEMMA ChainWrites ==
  ASSUME Chain!ChainAssumption, ChainInv, Chain!Write, chain' = "reviewing"
  PROVE  ChainInv'
  <1> DEFINE f == IF round > 1 /\ Chain!HasFeedback(reviews[round - 1]) THEN round - 1 ELSE 0
  <1>1. /\ chain = "writing" /\ UNCHANGED <<round, reviews, approved>>
        /\ told' = Append(told, f) /\ \E s \in {"code", "failure"} : said' = Append(said, s)
    BY DEF Chain!Write, Chain!Raises
  <1>2. round \in Nat /\ MaxIterations \in Nat /\ round <= MaxIterations /\ f \in Nat
    BY DEF ChainInv, Chain!ChainAssumption
  <1>3. Len(said) = round - 1 /\ Len(told) = round - 1 /\ Len(reviews) = round - 1
    BY <1>1, <1>2 DEF ChainInv
  <1>4. said' \in Seq({"code", "failure"}) /\ Len(said') = round
    BY <1>1, <1>2, <1>3, OneMore DEF ChainInv
  <1>5. /\ told' \in Seq(Nat) /\ Len(told') = round /\ told'[round] = f
        /\ \A i \in 1 .. round - 1 : told'[i] = told[i]
    <2>1. told \in Seq(Nat)
      BY DEF ChainInv
    <2> HIDE DEF f
    <2>2. QED
      BY <1>1, <1>2, <1>3, <2>1, OneMore
  <1>6. ASSUME NEW i \in 2 .. Len(told')
        PROVE  /\ told'[i] \in {0, i - 1}
               /\ Chain!HasFeedback(reviews'[i - 1]) => told'[i] = i - 1
    <2>1. CASE i = round
      BY <1>1, <1>2, <1>5, <2>1
    <2>2. CASE i # round
      <3>1. i \in 2 .. Len(told) /\ i \in 1 .. round - 1
        BY <1>2, <1>3, <1>5, <2>2
      <3>2. told'[i] = told[i]
        BY <1>5, <3>1
      <3>3. QED
        BY <1>1, <3>1, <3>2 DEF ChainInv
    <2>3. QED
      BY <2>1, <2>2
  <1>7. \A i \in 1 .. round' - 1 : ~Chain!Verdict(reviews'[i])
    BY <1>1 DEF ChainInv
  <1>8. /\ round' \in 1 .. MaxIterations /\ reviews' \in Seq(Chain!Reviews) /\ approved' \in BOOLEAN
        /\ ~approved'
    BY <1>1 DEF ChainInv
  <1>9. QED
    BY <1>1, <1>2, <1>3, <1>4, <1>5, <1>6, <1>7, <1>8 DEF ChainInv

(* A review ends the chain, or begins the next round. *)
LEMMA ChainReviews ==
  ASSUME Chain!ChainAssumption, ChainInv, chain = "reviewing",
         NEW r \in Chain!Reviews, reviews' = Append(reviews, r), approved' = Chain!Verdict(r),
         IF ~Chain!Verdict(r) /\ Chain!IsJson(r) /\ r.feedback = "null"
           THEN chain' = "raised" /\ UNCHANGED round
         ELSE IF Chain!Verdict(r) \/ round = MaxIterations THEN chain' = "returned" /\ UNCHANGED round
         ELSE chain' = "writing" /\ round' = round + 1,
         UNCHANGED <<said, told>>
  PROVE  ChainInv'
  <1>1. round \in Nat /\ MaxIterations \in Nat /\ round <= MaxIterations /\ round >= 1
    BY DEF ChainInv, Chain!ChainAssumption
  <1>2. Len(said) = round /\ Len(told) = round /\ Len(reviews) = round - 1
    BY DEF ChainInv
  <1>3. /\ reviews' \in Seq(Chain!Reviews) /\ Len(reviews') = round /\ reviews'[round] = r
        /\ \A i \in 1 .. round - 1 : reviews'[i] = reviews[i]
    <2>1. reviews \in Seq(Chain!Reviews)
      BY DEF ChainInv
    <2>2. QED
      BY <1>1, <1>2, <2>1, OneMore
  <1>4. ASSUME NEW i \in 2 .. Len(told')
        PROVE  /\ told'[i] \in {0, i - 1}
               /\ Chain!HasFeedback(reviews'[i - 1]) => told'[i] = i - 1
    <2>1. i - 1 \in 1 .. round - 1 /\ i \in 2 .. Len(told)
      BY <1>1, <1>2
    <2>2. reviews'[i - 1] = reviews[i - 1]
      BY <1>3, <2>1
    <2>3. QED
      BY <2>1, <2>2 DEF ChainInv
  <1>5. \A i \in 1 .. round - 1 : ~Chain!Verdict(reviews'[i])
    BY <1>3 DEF ChainInv
  <1>6. Chain!Verdict(r) \in BOOLEAN
    BY DEF Chain!Verdict
  <1>7. /\ said' \in Seq({"code", "failure"}) /\ told' \in Seq(Nat) /\ Len(said') = round
        /\ Len(told') = round /\ approved' \in BOOLEAN
    BY <1>2, <1>6 DEF ChainInv
  <1>8. CASE chain' \in {"raised", "returned"} /\ round' = round
    <2>1. chain' = "returned" /\ ~approved' => round' = MaxIterations
      BY <1>8
    <2>2. round' \in 1 .. MaxIterations
      BY <1>8 DEF ChainInv
    <2>3. approved' = Chain!Verdict(reviews'[round'])
      BY <1>3, <1>8
    <2>4. Len(said') = round' /\ Len(reviews') = round' /\ Len(told') = Len(said')
      BY <1>3, <1>7, <1>8
    <2>5. chain' \notin {"writing", "reviewing"}
      BY <1>8
    <2>6. \A i \in 1 .. round' - 1 : ~Chain!Verdict(reviews'[i])
      BY <1>5, <1>8
    <2>7. QED
      BY <1>1, <1>3, <1>4, <1>7, <1>8, <2>1, <2>2, <2>3, <2>4, <2>5, <2>6 DEF ChainInv
  <1>9. CASE chain' = "writing" /\ round' = round + 1 /\ ~Chain!Verdict(r) /\ round # MaxIterations
    <2>1. round' \in 1 .. MaxIterations
      BY <1>1, <1>9
    <2>2. \A i \in 1 .. round' - 1 : ~Chain!Verdict(reviews'[i])
      <3>1. \A i \in 1 .. round' - 1 : i \in 1 .. round - 1 \/ i = round
        BY <1>1, <1>9
      <3>2. QED
        BY <1>3, <1>5, <1>9, <3>1
    <2>3. QED
      BY <1>1, <1>3, <1>4, <1>7, <1>9, <2>1, <2>2 DEF ChainInv
  <1>10. QED
    BY <1>8, <1>9

LEMMA ChainSteps ==
  ASSUME Chain!ChainAssumption, ChainInv, Chain!Next \/ UNCHANGED chainVars
  PROVE  ChainInv'
  <1>1. CASE UNCHANGED chainVars
    BY <1>1 DEF chainVars, ChainInv
  <1>2. CASE chain \in {"writing", "reviewing"} /\ Chain!Raises
    BY <1>2 DEF Chain!Raises, ChainInv
  <1>3. CASE Chain!Write
    BY <1>2, <1>3, ChainWrites DEF Chain!Write
  <1>4. CASE Chain!Review
    BY <1>2, <1>4, ChainReviews DEF Chain!Review
  <1>5. QED
    BY <1>1, <1>3, <1>4 DEF Chain!Next

(* Nothing is written. *)
LEMMA ChainStarts == ASSUME Chain!ChainAssumption, Chain!Init PROVE ChainInv
  <1>1. MaxIterations \in Nat \ {0} /\ 1 \in 1 .. MaxIterations
    BY DEF Chain!ChainAssumption
  <1>2. /\ <<>> \in Seq({"code", "failure"}) /\ <<>> \in Seq(Chain!Reviews) /\ <<>> \in Seq(Nat)
        /\ Len(<<>>) = 0
    OBVIOUS
  <1>3. /\ chain = "writing" /\ round = 1 /\ said = <<>> /\ reviews = <<>> /\ told = <<>>
        /\ approved = FALSE
    BY DEF Chain!Init
  <1>4. \A i \in Int : i \notin 1 .. round - 1 /\ i \notin 2 .. Len(told)
    BY <1>2, <1>3
  <1>5. Len(said) \in {round - 1, round} /\ Len(reviews) \in {round - 1, round} /\ Len(reviews) <= Len(said)
        /\ Len(told) = Len(said) /\ Len(said) = round - 1
    BY <1>2, <1>3
  <1>6. /\ \A i \in 1 .. round - 1 : ~Chain!Verdict(reviews[i])
        /\ \A i \in 2 .. Len(told) : /\ told[i] \in {0, i - 1}
                                     /\ Chain!HasFeedback(reviews[i - 1]) => told[i] = i - 1
    BY <1>2, <1>3, <1>4
  <1>7. QED
    BY <1>1, <1>2, <1>3, <1>5, <1>6 DEF ChainInv

(* The invariant says what the run checks. *)
LEMMA ChainShows ==
  ASSUME Chain!ChainAssumption, ChainInv PROVE Chain!TypeOK /\ Chain!ApprovalHasReview
  <1>1. Len(said) \in Nat /\ Len(reviews) \in Nat /\ round \in Nat /\ MaxIterations \in Nat
        /\ round <= MaxIterations
    BY DEF ChainInv, Chain!ChainAssumption
  <1>2. Chain!TypeOK
    BY <1>1 DEF ChainInv, Chain!TypeOK
  <1>3. chain = "returned" => Len(said) = round /\ Len(reviews) = round
    BY <1>1 DEF ChainInv
  <1>4. chain = "returned" /\ approved /\ Chain!IsJson(reviews[round]) => reviews[round].verdict = "approved"
    BY DEF ChainInv, Chain!Verdict
  <1>5. QED
    BY <1>2, <1>3, <1>4 DEF ChainInv, Chain!ApprovalHasReview

-----------------------------------------------------------------------------
(* The theorems: whichever component is in scope, the others rest.            *)

(* main.py:260-424: nothing runs before what it uses is up, the clients are closed only
   after every task that uses them has ended; registry.py: a name has the tool that was
   registered last under it, and a file that names a tool twice overrides the first. *)
THEOREM StartupIsOrdered == Spec => []StartupOrdered
  <1> DEFINE Inv == LifeInv /\ CatalogInv
  <1>1. Init => Inv
    BY ServingAssumption, LifeStarts, CatalogStarts DEF Init
  <1>2. Inv /\ [Next]_vars => Inv'
    BY ServingAssumption, LifeSteps, CatalogSteps, StepsOfOne
  <1>3. Inv => StartupOrdered
    BY LifeShows, CatalogShows DEF StartupOrdered
  <1>4. QED
    BY <1>1, <1>2, <1>3, PTL DEF Spec

(* telegram_bot.py and client.py: an update is forgotten only when it was dealt with, a
   part that is missing from a reply was refused twice, and the parts of a reply have
   every line of it and fit a message. *)
THEOREM UsersAreAnswered == Spec => []UsersAnswered
  <1> DEFINE Inv == HookInv /\ SplitInv
  <1>1. Init => Inv
    BY ServingAssumption, HookStarts, SplitStarts DEF Init
  <1>2. Inv /\ [Next]_vars => Inv'
    BY ServingAssumption, HookSteps, SplitSteps, StepsOfOne
  <1>3. Inv => UsersAnswered
    BY HookShows DEF UsersAnswered, SplitInv
  <1>4. QED
    BY <1>1, <1>2, <1>3, PTL DEF Spec

(* agents/registry.py:58-78: the system agent is neither deleted nor made an ordinary
   one, and an update writes the fields it names and leaves those another has written. *)
THEOREM AgentsAreKept == Spec => AgentsKept
  <1> DEFINE Kept == scope = "registry" => Registry!TypeOK /\ Registry!SystemStays
  <1>1. Init => RegistryInv
    BY ServingAssumption, RegistryStarts DEF Init
  <1>2. RegistryInv /\ [Next]_vars => RegistryInv'
    BY ServingAssumption, RegistrySteps, StepsOfOne
  <1>3. RegistryInv => Kept
    BY RegistryShows
  <1>4. RegistryInv /\ [Next]_vars => [NamedOnly]_registryVars
    BY RegistryNames, StepsOfOne
  <1>5. Spec => []Kept /\ [][NamedOnly]_registryVars
    BY <1>1, <1>2, <1>3, <1>4, PTL DEF Spec
  <1>6. QED
    BY <1>5, PTL DEF AgentsKept, Registry!OnlyNamedFields, Registry!vars, registryVars, NamedOnly

(* A service has acted at most once for a call and whenever the answer says so; a notice
   is called sent when everybody has it; an answer from the knowledge is in the order of
   the fused scores and lacks only what was removed meanwhile; a verdict in JSON that
   rejects is no approval (yaml_tool.py, workflows.py, notification.py, retriever.py,
   chains.py). *)
THEOREM AnswersAreFounded == Spec => []AnswersFounded
  <1> DEFINE Inv == CallsInv /\ NoticeInv /\ SearchInv /\ ChainInv
  <1>1. Init => Inv
    BY ServingAssumption, CallsStart, NoticeStarts, SearchStarts, ChainStarts DEF Init
  <1>2. Inv /\ [Next]_vars => Inv'
    BY ServingAssumption, CallsSteps, NoticeSteps, SearchSteps, ChainSteps, StepsOfOne
  <1>3. Inv => AnswersFounded
    BY ServingAssumption, CallsShow, NoticeShows, SearchShows, ChainShows DEF AnswersFounded
  <1>4. QED
    BY <1>1, <1>2, <1>3, PTL DEF Spec
=============================================================================
