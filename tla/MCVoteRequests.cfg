SPECIFICATION RequestsSpec
CONSTANTS
  Loops = {l1}
  Threads = {w1, w2}
  Workers = {w1, w2}
  j1 = j1
  j2 = j2
  j3 = j3
  Jobs = {j1, j2, j3}
  QueueCapacity = 1
  NoJob = NoJob
  author = author
  u1 = u1
  u2 = u2
  q1 = q1
  Users = {author, u1, u2}
  Questions = {q1}
  Author <- OneAuthor
  Values = {1, 5}
  None = None
  Asks <- AsksHere
  MaxOthers = 2
SYMMETRY Symmetry
INVARIANTS
  AcceptedIsServed
  QuietWhenStopped
  EveryVoteCounts
  AnswerCountsTheVote
PROPERTIES
  VotesOnlyOnPublished
CHECK_DEADLOCK FALSE
