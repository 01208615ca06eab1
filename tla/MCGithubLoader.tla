---------------------------- MODULE MCGithubLoader ----------------------------
(* A repository with five trees: four at the root, so that two wait at     *)
(* the limit, and one nested; two blobs with the same name.                *)
EXTENDS GithubLoader

MCTrees == {<<"a">>, <<"b">>, <<"c">>, <<"e">>, <<"a", "d">>}
MCFiles == {<<"a", "x">>, <<"b", "x">>, <<"a", "d", "y">>}
MCJobs == {Rec} \cup {Single(t) : t \in Trees \cup {<<>>}}
=============================================================================
