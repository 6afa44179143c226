------------------------------- MODULE MCTrie -------------------------------
(* Topics over the characters 1 to 4: enough of them for a dense root, for *)
(* prefixes longer than a node holds and for branches inside a prefix.     *)
EXTENDS Trie

MCTopics == {<<>>, <<1>>, <<2>>, <<4>>, <<3, 1>>, <<3, 1, 2>>, <<3, 1, 2, 4>>, <<3, 4, 4, 4>>}
MCData == UNION {[1 .. n -> 1 .. 4] : n \in 0 .. 2}
            \cup {<<3, 1, 2>>, <<3, 1, 4>>, <<3, 4, 4>>, <<3, 1, 2, 4>>, <<3, 1, 2, 1>>, <<3, 4, 4, 4>>, <<3, 4, 4, 4, 1>>}
=============================================================================
