SPECIFICATION FairSpec
CONSTANTS
  Clients = {c1, c2, c3}
  Size = 2
  MaxLines = 1
  MaxJobs = 2
INVARIANTS
  WelcomesBacked
  AnswersAccounted
PROPERTY WaitersReleased
CHECK_DEADLOCK FALSE
