--------------------------- MODULE AtMostOnceQueue ---------------------------
(***************************************************************************)
(* What a Redis stream read with XREADGROUP ">" and acknowledged after the  *)
(* work promises, and all it promises: items are taken in the order they    *)
(* were put, each at most once, and an item that was taken is either done   *)
(* or lost for good.  Lossy streams (XADD with MAXLEN) may also lose items  *)
(* nobody has taken.                                                        *)
(***************************************************************************)
EXTENDS Integers

CONSTANTS NumItems,   \* items are numbered 1 .. NumItems in the order they are put
          Lossy      \* TRUE iff items may be dropped before they are taken

Items == 1 .. NumItems

VARIABLES sent,   \* how many items were put
          fate    \* what became of each

Fates == {"none", "queued", "taken", "done", "lost"}

In(f) == {i \in Items : fate[i] = f}

Become(S, f) == [i \in Items |-> IF i \in S THEN f ELSE fate[i]]

Init == sent = 0 /\ fate = [i \in Items |-> "none"]

Put == /\ sent < NumItems
       /\ sent' = sent + 1
       /\ fate' = [fate EXCEPT ![sent + 1] = "queued"]

\* Takes the oldest items of the queue.
Take(S) == /\ S \subseteq In("queued")
           /\ \A i \in S, j \in In("queued") \ S : i < j
           /\ fate' = Become(S, "taken")
           /\ UNCHANGED sent

Finish(S) == /\ S \subseteq In("taken")
             /\ fate' = Become(S, "done")
             /\ UNCHANGED sent

Lose(S) == /\ S \subseteq In("taken") \cup (IF Lossy THEN In("queued") ELSE {})
           /\ fate' = Become(S, "lost")
           /\ UNCHANGED sent

\* With a lossy stream the put that overflows it is one step.
PutAndLose(S) == /\ Lossy
                 /\ sent < NumItems
                 /\ sent' = sent + 1
                 /\ S \subseteq In("taken") \cup In("queued")
                 /\ fate' = [Become(S, "lost") EXCEPT ![sent + 1] = "queued"]

Next == \/ Put
        \/ \E S \in SUBSET Items : Take(S) \/ Finish(S) \/ Lose(S) \/ PutAndLose(S)

Spec == Init /\ [][Next]_<<sent, fate>>
=============================================================================
