SPECIFICATION Spec
CONSTANTS
    dated = dated
    tagged = tagged
    released = released
    foreign = foreign
    github = github
    gitlab = gitlab
    none = none
    Ebuild <- MCEbuild
    Service <- MCService
    Github = github
    NoService = none
    ServiceOf <- MCServiceOf
    HasDate <- MCHasDate
    IsTag <- MCIsTag
    Current <- MCCurrent
    Published <- MCPublished
    Concurrency = 2
INVARIANTS
    TypeOK
    PermitsConserved
    Accounting
    CompleteWhenClosed
PROPERTIES
    ScanEnds
    ImplementsRequestLimit
