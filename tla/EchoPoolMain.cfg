\* main() of ex02_pool: two clients, two workers, messages of two bytes.
SPECIFICATION Spec
CONSTANTS
  Workers = {w1, w2}
  Clients = {c1, c2}
  Message = 2
INVARIANTS
  OneOwner
  NoByteLost
  AllClosedAtEnd
PROPERTY
  Termination
