\* Every body of up to two lines, cut in every way.  A stream ends, so the
\* system may stop.
CONSTANTS
  Tokens <- OneToken
  MaxLines = 2
  NULL = NULL
SPECIFICATION FairSpec
INVARIANTS TypeOK ChunkingIrrelevant BilledAsTold
PROPERTY StreamLogged
CHECK_DEADLOCK FALSE
