------------------------------ MODULE MCScan ------------------------------
(***************************************************************************)
(* An instance of Scan for TLC: three ebuilds that compete for the two     *)
(* permits of Github (by date, by tag, by release) and one of a service    *)
(* that has no handler.                                                    *)
(***************************************************************************)
EXTENDS Scan, TLC

CONSTANTS dated, tagged, released, foreign, github, gitlab, none

MCEbuild == {dated, tagged, released, foreign}
MCService == {github, gitlab}

MCServiceOf ==
    dated :> github @@ tagged :> github @@ released :> github
        @@ foreign :> gitlab

MCHasDate == {dated}
MCIsTag == {tagged}
MCCurrent == [e \in MCEbuild |-> 1]
MCPublished == {1, 2}
===========================================================================
