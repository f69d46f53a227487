\* One of the three at a time.  One signal: the run once_prod has two, and
\* shows that a claim forbids the other.  One poll tells polling from
\* cancelling.
SPECIFICATION BesideSpec
CONSTANTS
  Candidates = {Signal}
  NoCandidate = NoSignal
  NoEvidence = NoEvidence
  MaxPolls = 1
INVARIANTS ObserverIsRight ArchivesHideNothing CanaryIsSafe
PROPERTIES EvidenceIsKept
\* The trade ends, with the lot sold or kept.
CHECK_DEADLOCK FALSE
