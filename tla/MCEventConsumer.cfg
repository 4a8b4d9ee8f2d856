\* Three good events and a malformed one, two retries, two faults: an event can be
\* copied, put back and given up while others overtake it.
SPECIFICATION FairSpec
CONSTANTS
  Events = 4
  Malformed = {3}
  MaxRetries = 2
  MaxFaults = 2
INVARIANTS
  TypeOK
  NoEventLost
  DeadWasTried
  OnceWithoutFault
  OvertakenOnlyByRetry
PROPERTY EveryEventSettles
CHECK_DEADLOCK FALSE
