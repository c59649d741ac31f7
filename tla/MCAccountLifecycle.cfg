CONSTANTS
    Credentials = {c1, c2}
    Grace = 2
    MaxUser = 1
    MaxRotations = 1
    MaxFaults = 1
SPECIFICATION FairSpec
INVARIANT TypeOK
PROPERTY RetiresStoredCredential
PROPERTY GraceIsHonoured
PROPERTY FixedAccountRecovers
