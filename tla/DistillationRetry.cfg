SPECIFICATION Spec
CONSTANTS
  NumExamples = 1
  Fingerprint <- MCFingerprint
  PromptOf <- MCPromptOf
  AttemptsOf <- MCAttemptsOf
  CandidatesOf <- MCCandidatesOf
  TargetOf <- MCTargetOf
  Candidate <- MCParsed
  MaxInvocations = 2
INVARIANT VerifiedIsNotRetried
