CONSTANTS
  k1 = k1
  k2 = k2
  Caller = {k1, k2}
  MAX_RETRY = 2
  MaxExpiries = 3
SPECIFICATION FairSpec
INVARIANTS TypeOK ExhaustedByExpiry LoginsAreBounded
PROPERTIES KeepsPromise Recovers
