---------------------------- MODULE CommunityMC ----------------------------
(***************************************************************************)
(* Two posts of one instant are there when the reader comes; two more of   *)
(* one author may overtake each other, and one post has to go for them.    *)
(***************************************************************************)
EXTENDS Community

MCPosts == 1 .. 4
MCAuthor == <<"ann", "bob", "ann", "ann">>
MCPlace == <<"lisbon", "lisbon", "chicago", "lisbon">>

(* The part of a list that theorems are proved about is SelectSeq.         *)
ASSUME OnlyAssumption ==
    \A n \in 0 .. 4, some \in SUBSET (1 .. 3) : \A s \in [1 .. n -> 1 .. 3] :
        Only(s, some) = SelectSeq(s, LAMBDA x : x \in some)
=============================================================================
