----------------------------- MODULE AccountsMC -----------------------------
EXTENDS Accounts, TLC

CONSTANTS ann, bob, x, y, p

\* A worker starts with no accounts, or with one whose address was verified.
MCDatabases ==
    {<<>>} \cup {<<[name |-> name, email |-> addr, verified |-> TRUE, password |-> p]>> :
                     name \in Names, addr \in Addresses}

MCSymmetry == Permutations(Slots) \cup Permutations(Addresses) \cup Permutations(Names)
=============================================================================
