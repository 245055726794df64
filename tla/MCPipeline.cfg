CONSTANT MaxChunks = 3

SPECIFICATION FairSpec

INVARIANT DownstreamErrorReachesSource
INVARIANT ToldOnceForAReason
INVARIANT SourceRunsOnDemand
PROPERTY CallsSettle

CHECK_DEADLOCK FALSE
