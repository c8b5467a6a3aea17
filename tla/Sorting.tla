------------------------------- MODULE Sorting -------------------------------
(***************************************************************************)
(* Array.prototype.sort, which keeps the order of equal entries, and        *)
(* Array.prototype.filter, which keeps the order of all.                    *)
(***************************************************************************)
EXTENDS Integers, Sequences, FiniteSets

\* How many places come before i, and i itself: those of a greater key, and the earlier ones of the same.
RankOf(i, key) == Cardinality({j \in DOMAIN key : key[j] > key[i] \/ (key[j] = key[i] /\ j <= i)})
\* The entries of s at the places of key, the greatest key first.
Ranked(s, key) == [n \in 1..Cardinality(DOMAIN key) |-> s[CHOOSE i \in DOMAIN key : RankOf(i, key) = n]]
\* The entries of s at some places, in their order.
InOrder(s, places) == Ranked(s, [i \in places |-> 0])
=============================================================================
