------------------------------ MODULE MCChief ------------------------------
(***************************************************************************)
(* An instance of Chief for TLC: two packages with one ebuild each, one    *)
(* dated and one by release, that share the one permit of Github.          *)
(***************************************************************************)
EXTENDS Chief, TLC

CONSTANTS dated, released, github, none, A, B

MCEbuild == {dated, released}
MCServiceOf == [e \in MCEbuild |-> github]
MCCurrent == [e \in MCEbuild |-> 1]
MCPackageOf == released :> A @@ dated :> B
MCStem == released :> "a" @@ dated :> "b"

MCSize == [e \in MCEbuild |-> 2]

\* The working copy has the main branch's text.
MCCopies == {[size |-> 2, pinned |-> TRUE]}

\* No group, both packages in one, and a group for package A only.
MCGroupsFiles == {<<>>, <<{A, B}>>, <<{A}>>}
===========================================================================
