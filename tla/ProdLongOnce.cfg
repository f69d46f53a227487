CONSTANTS
  Candidates = {c1, c2}
  NoCandidate = NoCandidate
  MaxPolls = 1

SPECIFICATION FairSpec
INVARIANTS AttemptIsSafe
PROPERTIES OneAttemptSpec CommandEnds
