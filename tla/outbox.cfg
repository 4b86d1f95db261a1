SPECIFICATION FairSpec
CONSTANTS
  Messages = {m1, m2}
  Senders = {x1, x2}
  Info = {m1}
  Critical = {m2}
  MAX_ATTEMPTS = 2
  Cap = 1
  Take = 1
  MaxTrouble = 1
INVARIANTS NeverSentTwice
PROPERTIES ActsAsCourier EveryMessageSettles
CHECK_DEADLOCK FALSE
