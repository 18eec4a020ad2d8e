---------------------------- MODULE MCDelegation ----------------------------
(* Delegation for TLC: two delegations that share a file, and one at a time in  *)
(* a repository with a directory, s.                                           *)
EXTENDS Delegation, TLC

CONSTANTS d1, d2

MCPaths == {<<"a">>, <<"s">>, <<"s", "a">>, <<"s", "b">>}

MCQuoted == {<<"s", "b">>}

File(index, work) == [index |-> index, work |-> work]
Tracked == {File("committed", "committed"), File("committed", "developer")}
New     == {File(None, None), File(None, "developer")}
Staged  == {File("staged", "staged")}

MCWorkplaces ==
    [tree : [{<<"a">>} -> Tracked \cup Staged], cwd : {d1 :> <<>> @@ d2 :> <<>>}]
    \cup [tree : {<<"a">> :> a @@ <<"s", "a">> :> b : a \in New, b \in Tracked \cup New},
          cwd : {d2 :> <<"s">>}]
    \cup [tree : [{<<"s", "a">>, <<"s", "b">>} -> New], cwd : {d1 :> <<>>}]
=============================================================================
