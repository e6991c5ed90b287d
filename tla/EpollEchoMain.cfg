\* ex03_epoll with a client that leaves after its first bytes and one that
\* closes its writing side first.
SPECIFICATION Spec
CONSTANTS
  Clients = {c1, c2}
  HalfClosers = {c2}
  Message = 2
  SendBuffer = 2
INVARIANTS
  EventsAreFresh
  EchoComplete
PROPERTY
  EveryClientServed
