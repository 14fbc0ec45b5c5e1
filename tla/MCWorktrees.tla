---------------------------- MODULE MCWorktrees ----------------------------
(***************************************************************************)
(* An instance of Worktrees for TLC.  Package A has two dated versions, so *)
(* that two changes can want one folder or one file name; package B has an *)
(* ebuild by release, and a dated one that is not on the main branch.      *)
(***************************************************************************)
EXTENDS Worktrees, TLC

CONSTANTS a1, a2, released, untracked, A, B

MCEbuild == {a1, a2, released, untracked}

MCPackageOf == a1 :> A @@ a2 :> A @@ released :> B @@ untracked :> B
MCStem == a1 :> "a" @@ a2 :> "a" @@ released :> "b" @@ untracked :> "c"
MCCurrent == a1 :> 1 @@ a2 :> 2 @@ released :> 1 @@ untracked :> 1
MCSize == a1 :> 5 @@ a2 :> 3 @@ released :> 4 @@ untracked :> 4

\* A copy shorter than a1's file on the main branch, and longer than a2's by just
\* a commit; and one edited to another commit meanwhile, as long as a1's file.
MCCopies == {[size |-> 4, pinned |-> TRUE], [size |-> 5, pinned |-> FALSE]}

To(e, v, c) == [ebuild |-> e, new_ver |-> v, new_commit |-> c]

\* Nothing; a rename onto a version that is itself written and renamed; two
\* versions becoming one; dates with and without a commit, over a longer and a
\* shorter file; two packages; an ebuild the main branch does not have.
MCProposals ==
    {{}, {To(a1, 2, "sha"), To(a2, 3, "sha")}, {To(a1, 3, ""), To(a2, 3, "sha")},
     {To(a1, 3, "sha")}, {To(a2, 3, "sha")}, {To(a1, 3, "")},
     {To(a2, 3, ""), To(released, 3, "")}, {To(untracked, 3, "sha")}}

\* No group; one of both packages; one each, A listed twice (the last wins).
MCGroupsFiles == {<<>>, <<{A, B}>>, <<{A, B}, {A}>>}
===========================================================================
