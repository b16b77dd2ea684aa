------------------------------ MODULE ServiceMC ------------------------------
(* Instance of Service for TLC. *)
EXTENDS Service, TLC

CONSTANTS ann, bob
Symmetry == Permutations({ann, bob})
MCShapes == {{}, {"0:0"}}
MCPLAN == [count |-> 1, window |-> 1]
MCDaily == [count |-> 2, window |-> 2]
=============================================================================
