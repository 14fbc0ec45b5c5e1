SPECIFICATION Spec
CONSTANTS
    MaxReleases = 1
    PackageName <- MCPackageName
    Revision <- MCRevision
    Number <- MCNumber
    OddVersion <- MCOddVersion
    Histories <- MCHistories
PROPERTY
    NewVersionIsNewer
