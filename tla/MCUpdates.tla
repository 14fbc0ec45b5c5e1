----------------------------- MODULE MCUpdates -----------------------------
(***************************************************************************)
(* Instances of Updates for TLC.  The names of packages and the tags are   *)
(* chosen for what is hard to read in them: digits and versions in names,  *)
(* suffixes, folders; the numbers for their order as strings.              *)
(***************************************************************************)
EXTENDS Updates

CONSTANT MaxReleases  \* bound: how many regular releases are published

MCPackageName ==
    {<<"f", "o", "o">>, <<"l", "i", "b", "1">>, <<"a", "-", "1", "x">>,
     <<"q", "t", "-", "1">>, <<"2", "b">>, <<"f", "-", "1", "r", "c">>,
     <<"a", "-", "1", "+">>, <<"a", "-", "1", "-", "r", "2", "b">>}
MCRevision == {<<>>, <<"-", "r", "1">>}
MCNumber == {<<1>>, <<2>>, <<1, 8>>, <<1, 9>>, <<1, 10>>, <<2, 0>>}
MCOddVersion ==
    {<<"1", "a">>, <<"1", ".", "2", "_", "p", "3">>}

\* One release with anything about its number,
MCRelease ==
    [folders : {<<>>},
     prefix : {<<>>, <<"k", "8", "s", "-">>, <<"l", "2", "v">>},
     number : MCNumber,
     suffix : {<<>>, <<"r", "c", "3">>, <<"_", "p", "1", "b">>}]
    \cup
    [folders : {<<<<"1">>>>}, prefix : {<<"v">>}, number : MCNumber, suffix : {<<>>}]

\* or several that follow one another.
RegularRelease ==
    [folders : {<<>>}, prefix : {<<>>, <<"k", "8", "s", "-">>},
     number : {<<1, 8>>, <<1, 9>>, <<2, 0>>}, suffix : {<<>>}]

MCHistories ==
    [1..1 -> MCRelease]
        \cup UNION {[1..n -> RegularRelease] : n \in 2..MaxReleases}

\* The expectations of the unit tests in version_matching.cpp
ASSUME TagsOfTheTests ==
    LET boost == <<"b", "o", "o", "s", "t", "-", "1", ".", "9", "2", ".", "0">>
        v == <<"8", ".", "8", ".", "0">>
    IN  /\ tag_to_portage_version(<<"1", ".", "2", ".", "3">>) = <<"1", ".", "2", ".", "3">>
        /\ tag_to_portage_version(boost) = SubSeq(boost, 7, 12)
        /\ \A sep \in {<<>>, <<"_">>} :
              tag_to_portage_version(v \o sep \o <<"r", "c">>) = v \o <<"-", "r", "c">>
        /\ tag_to_portage_version(v \o <<"r", "c", "3">>) = v \o <<"-", "r", "c", "3">>
        /\ tag_to_portage_version(boost \o <<".", "b", "e", "t", "a", "1">>)
              = SubSeq(boost, 7, 12) \o <<"-", "b", "e", "t", "a", "1">>
        /\ tag_to_portage_version(<<"b", "1", "0", "6", "5", "5">>) = <<"1", "0", "6", "5", "5">>

\* and in portage_version_matching.cpp.
ASSUME NamesOfTheTests ==
    LET sth == <<"s", "t", "h">>
        v == <<"1", ".", "2", ".", "3">>
        beta == v \o <<"_", "b", "e", "t", "a", "1">>
        r25 == beta \o <<"-", "r", "2", "5">>
        old == <<"-", "1", ".", "0">>
        Is(stem, name_pn, inval, ver, rev) ==
            parse_ebuild_name(stem) = [pn |-> name_pn, pn_inval |-> inval, ver |-> ver, rev |-> rev]
    IN  /\ Is(sth \o <<"-">> \o v, sth, <<>>, v, <<>>)
        /\ Is(sth \o <<"-">> \o beta, sth, <<>>, beta, <<>>)
        /\ Is(sth \o <<"-">> \o r25, sth, <<>>, beta, <<"2", "5">>)
        /\ Is(sth \o old \o <<"-">> \o r25, sth \o old, old, beta, <<"2", "5">>)
=============================================================================
