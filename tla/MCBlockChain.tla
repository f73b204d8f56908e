---------------------------- MODULE MCBlockChain ----------------------------
(* BlockChain with a tree of two branches, the second of which forks.  The   *)
(* shorter of its forks has as much work as the longer branch.               *)
EXTENDS BlockChain

MCBlock ==
    { <<"a">>, <<"a", "a">>, <<"a", "a", "a">>,
      <<"b">>, <<"b", "a">>, <<"b", "b">>, <<"b", "b", "a">> }

MCWork ==
    [b \in MCBlock \cup {Genesis} |->
        IF IsPrefix(<<"b", "b">>, b) THEN Len(b) + 1 ELSE Len(b)]

MCBadSets == {S \in SUBSET MCBlock : Cardinality(S) <= 1}
=============================================================================
