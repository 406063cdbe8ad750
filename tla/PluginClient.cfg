SPECIFICATION FairSpec
CONSTANTS
  MaxNegotiations = 2
  MaxCandidates = 2
  MaxCleanups = 2
INVARIANTS TypeOK CrashOnlyOvertaken SdpFresh NothingSurvives AddedWhenDescribed CandidatesKept
PROPERTIES CandidatesLive Negotiated
CHECK_DEADLOCK FALSE
