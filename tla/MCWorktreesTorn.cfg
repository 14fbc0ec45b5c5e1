SPECIFICATION Spec
CONSTANTS
    a1 = a1
    a2 = a2
    released = released
    untracked = untracked
    A = A
    B = B
    None = None
    Ebuild <- MCEbuild
    Package = {A, B}
    PackageOf <- MCPackageOf
    Stem <- MCStem
    Current <- MCCurrent
    Version = {1, 2, 3}
    HasDate = {a1, a2, untracked}
    Tracked = {a1, a2, released}
    Size <- MCSize
    CommitSize = 1
    Copies <- MCCopies
    Proposals <- MCProposals
    GroupsFiles <- MCGroupsFiles
    MaxRuns = 2
INVARIANT
    NewCommitIsInPlace
