---------------------------- MODULE Subsequences ----------------------------
(***************************************************************************)
(* The part of a sequence that is at some of its places, in order. It is   *)
(* chosen by the places and not by a test, with a recursive function, so   *)
(* that it can be reasoned about: the provers know nothing of SelectSeq.   *)
(***************************************************************************)
EXTENDS Integers, Sequences

\* The numbers up to n that are in a set, in order.
InOrder(n, places) ==
    LET kept[k \in 0 .. n] ==
            IF k = 0 THEN <<>>
            ELSE IF k \in places THEN Append(kept[k - 1], k) ELSE kept[k - 1]
    IN  kept[n]

Only(s, places) ==
    LET order == InOrder(Len(s), places) IN [k \in DOMAIN order |-> s[order[k]]]
=============================================================================
