SPECIFICATION FairSpec
CONSTANTS
  NumExamples = 2
  Fingerprint <- MCFingerprint
  PromptOf <- MCPromptOf
  AttemptsOf <- MCAttemptsOf
  CandidatesOf <- MCCandidatesOf
  TargetOf <- MCTargetOf
  Candidate <- MCCandidate
  MaxInvocations = 3
INVARIANTS TypeOK KeysUnique ResumedRecordsMatchManifest ProgressNotAhead  RetryAnswersPrevious
PROPERTIES RunEnds LedgerKept
