-------------------------------- MODULE Lists --------------------------------
(***************************************************************************)
(* Sorted lists of sets and parts of lists, without recursion, so that     *)
(* theorems can be proved about the modules that use them.                 *)
(***************************************************************************)
EXTENDS Integers, FiniteSets, Sequences

\* The members of S one after another, each told what comes before it.
Listed(S, before) ==
    [n \in 1 .. Cardinality(S) |-> CHOOSE x \in S : Cardinality(before[x]) = n - 1]

\* The elements of a list that are some of these, in their order.
Indexes(s, some) == {i \in DOMAIN s : s[i] \in some}
Only(s, some) ==
    LET at == Listed(Indexes(s, some), [i \in Indexes(s, some) |-> {j \in Indexes(s, some) : j < i}])
    IN  [n \in DOMAIN at |-> s[at[n]]]
=============================================================================
