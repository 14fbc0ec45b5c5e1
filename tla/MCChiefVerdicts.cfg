SPECIFICATION Spec
CONSTANTS
    dated = dated
    released = released
    github = github
    none = none
    A = A
    B = B
    None = None
    Ebuild <- MCEbuild
    Service = {github}
    Github = github
    NoService = none
    ServiceOf <- MCServiceOf
    HasDate = {dated}
    IsTag = {}
    Current <- MCCurrent
    Published = {2}
    Concurrency = 1
    Package = {A, B}
    PackageOf <- MCPackageOf
    Stem <- MCStem
    Tracked = {dated, released}
    Size <- MCSize
    CommitSize = 1
    Copies <- MCCopies
    GroupsFiles <- MCGroupsFiles
INVARIANT
    VerdictsMeanTheirNames
