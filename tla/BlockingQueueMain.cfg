\* Two producers, each closing the queue when its items are pushed: the slower
\* one's push() throws.
SPECIFICATION Spec
CONSTANTS
  p1 = p1
  p2 = p2
  c1 = c1
  c2 = c2
  Free = Free
  Producers <- MCProducers
  Consumers <- MCConsumers
  ItemsEach = 2
INVARIANTS
  TypeOK
  ExactlyOnceInOrder
  EveryItemHasAWakeup
  CloseWakesEveryone
PROPERTIES
  Termination
  ImplementsChannel
