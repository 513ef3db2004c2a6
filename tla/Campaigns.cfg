SPECIFICATION FairSpec
CONSTANTS
  Users = {1, 2, 3}
  Workers = {w1, w2}
  None = None
  ChunkSize = 2
  MaxFaults = 2
  MaxEdits = 2
  Cases = {{"crash", "people"}, {"slow", "people"}, {"slow", "fail", "edit"}}
INVARIANTS
  SentIsNotified
  CompletedMeansAll
PROPERTIES
  EndsForGood
  QueuedEnds
CHECK_DEADLOCK FALSE
