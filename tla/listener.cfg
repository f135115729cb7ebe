\* Two scripts: two requests, a change of each, one refusal; the reader loses lines.
SPECIFICATION FairSpec
CONSTANTS
  Spk = {s1, s2}
  MaxRequests = 2
  MaxChanges = 1
  MaxErrors = 1
INVARIANT TypeOK
INVARIANT NoPanicUndisturbed
INVARIANT OneOutstanding
PROPERTY ImplementsWatch
PROPERTY AnsweredOrTold
CHECK_DEADLOCK FALSE
