---------------------------- MODULE MCSplitGroups ------------------------------
(* Every layout over a few directories, for TLC. *)
EXTENDS SplitGroups

Dirs == {
    <<>>,
    <<"images">>,
    <<"internal">>, <<"internal", "random">>,
    <<"applications", "pg">>,
    <<"applications", "pg", "versions", "v1">>,
    <<"applications", "pg", "versions", "v2">>,
    <<"applications", "my", "versions", "v1">>,
    <<"applications", "pg", "client">>,
    <<"applications", "core">>, <<"applications", "misc", "versions", "v1">>,
    <<"tools", "cmd", "split">>, <<"tools", "cmd", "lint">>}

Strings == UNION {{d[i] : i \in DOMAIN d} : d \in Dirs}

AllLayouts == SUBSET Dirs
================================================================================
