SPECIFICATION FairSpec
CONSTANTS
  Attempt = {1, 2}
  Hops = 2
  Tries = 3
  MaxDown = 3
  MaxAway = 2
  None = None
INVARIANT AnswersBelong PromptShown
PROPERTY LoginEnds
CHECK_DEADLOCK FALSE
