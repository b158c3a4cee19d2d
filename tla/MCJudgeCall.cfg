SPECIFICATION JudgeFairSpec
CONSTANTS
  MaxRetries = 2
  Timeout = 2
  BaseDelay = 2
  MaxDelay = 3
  Teams <- MCTeams
  ReplyTexts <- MCReplies
INVARIANTS
  ReadAsMeant
  VerdictIsTheVote
  StraysHaveCause
  WithinBudget
PROPERTIES
  CallEnds
  ThreadsEnd
