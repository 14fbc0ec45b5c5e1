---------------------------- MODULE MCPerCommit ----------------------------
(***************************************************************************)
(* An instance of PerCommit for TLC: three commits on days before and      *)
(* after the turn of a year and of a month, in any order; tags on none, or *)
(* on some of them; the package's own variable before and behind another.  *)
(***************************************************************************)
EXTENDS PerCommit

CONSTANTS c1, c2, c3

MCDay == {<<2023, 12, 31>>, <<2024, 1, 9>>, <<2024, 2, 1>>}
MCTags ==
    {<<"none", "none", "none">>, <<"version", "none", "name">>,
     <<"none", "version", "version">>}
MCHistories ==
    {[i \in 1..3 |-> [commit |-> <<c1, c2, c3>>[i], day |-> days[i], tag |-> tags[i]]] :
        days \in [1..3 -> MCDay], tags \in MCTags}
===========================================================================
