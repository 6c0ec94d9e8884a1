SPECIFICATION FairSpec
CONSTANTS
  Loop = loop
  Workers = {t1, t2}
  Limit = 1
  Providers = 2
  Tries <- TriesOfKinds
  MaxAsked = 2
  Faults = {"db"}
INVARIANT NoPermitLost
INVARIANT AnswersFollowQuestions
PROPERTY CallsEnd
