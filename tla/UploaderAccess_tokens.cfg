\* Three requests that overlap in every way and one session: enough for two
\* renewals to miss each other's token, for a revocation within a rotation, and
\* for a session that outlives its token and keeps a revoked row in place.
SPECIFICATION AccessFairSpec
CONSTANTS
    r1 = r1  r2 = r2  r3 = r3  s1 = s1  seed = seed
    Requests <- ThreeRequests
    Kind <- OneOfEach
    Seed <- seed
    Sessions <- OneSession
INVARIANTS RevocationHolds AccessIsLostForACause
PROPERTIES RevokedTokensAreRemoved
CHECK_DEADLOCK FALSE
