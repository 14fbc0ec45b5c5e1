SPECIFICATION FairSpec
CONSTANTS
    MaxReleases = 2
    PackageName <- MCPackageName
    Revision <- MCRevision
    Number <- MCNumber
    OddVersion <- MCOddVersion
    Histories <- MCHistories
INVARIANTS
    TypeOK
    VersionIsReadLikePortage
    PlainTagGivesItsNumber
PROPERTIES
    UpdatesAreUpgrades
    MergedIsFetched
    Converges
