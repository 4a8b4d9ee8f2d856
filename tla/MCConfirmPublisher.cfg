\* Four calls: two can give up and two more be misled by what they left behind.
SPECIFICATION FairSpec
CONSTANTS
  c1 = c1
  c2 = c2
  c3 = c3
  c4 = c4
  Call = {c1, c2, c3, c4}
INVARIANTS
  TypeOK
  SkewIsLeftUnread
  TruthfulUntilUnread
PROPERTY EveryCallReturns
CHECK_DEADLOCK FALSE
