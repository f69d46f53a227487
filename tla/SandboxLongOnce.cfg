\* a second signal to be refused; one poll before the cancellation
CONSTANTS
  Candidates = {c1, c2}
  NoCandidate = NoCandidate
  MaxPolls = 1
SPECIFICATION FairSpec
INVARIANTS AttemptIsSafe NoSilentExposure
PROPERTIES OneAttemptSpec CommandEnds
