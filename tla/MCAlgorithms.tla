----------------------------- MODULE MCAlgorithms ------------------------------
(* A small file system with a link that dangles, rules that tell requesters *)
(* apart, and IDs with prefixes.                                            *)
EXTENDS Algorithms, TLC

MCFiles == {<<"a">>, <<"a", "b">>, <<"c">>, <<"c", "b">>, <<"l">>, <<"c", "l">>,
            <<"a", "l">>}
MCLinks == (<<"l">> :> <<"a">>) @@ (<<"c", "l">> :> <<"a", "b">>) @@ (<<"a", "l">> :> <<"b">>)
MCCwds == {<<>>, <<"a">>, <<"c">>}
MCPathPatterns == {<<"/", "a", "/", "*", "*">>}

MCRules == {[match |-> [Anything EXCEPT !.requesterUid = u], action |-> a] :
               u \in {Unset, 1, 2}, a \in {"deny", "require-approval", "allow"}}
MCInputs == {[executable |-> <<"c", "b">>, cwd |-> <<>>, argv |-> <<>>, uid |-> 1]}

MCIds == {<<"x", 1>>, <<"x", 2>>, <<"y", 3>>}
================================================================================
