------------------------------ MODULE Ordered ------------------------------
(***************************************************************************)
(* Two orders the code relies on: sets visited in the order of a key, and   *)
(* sequences filtered, which keep the order of what they keep.              *)
(***************************************************************************)
EXTENDS Integers, Sequences, FiniteSets

\* The elements of W, in the order of key, which tells them apart.
InOrder(W, key) ==
  [k \in 1 .. Cardinality(W) |->
     CHOOSE w \in W : Cardinality({v \in W : key[v] <= key[w]}) = k]

\* The items of s that belong to T.
Within(s, T) ==
  LET kept == InOrder({i \in DOMAIN s : s[i] \in T}, [i \in DOMAIN s |-> i])
  IN  [k \in DOMAIN kept |-> s[kept[k]]]
=============================================================================
