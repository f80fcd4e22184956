SPECIFICATION PartsSpec
CONSTANTS
  Producers = {p1, p2}
  Consumers = {c1, c2}
  Controllers = {k1}
  Capacities = {1, 2}
  MaxOffers = 3
  Emitters = {acquisition, dspThread}
  EventCapacity = 1
  Batches = {0, 1}
  MaxEvents = 4
INVARIANTS
  Accounting
  InOrder
  NoLostWakeup
PROPERTIES
  StopIsFinal
  ImplementsLossyFifo
  SleepersAreServed
  EventsAreDelivered
