\* main() of ex17_pthread_mutex_shared with a parent and two children, each of
\* which can be killed at any point.
SPECIFICATION Spec
CONSTANTS
  Processes = {p1, p2, p3}
  Parent = p1
  PerProcess = 2
INVARIANTS
  NeverUnrecoverable
  TextAgrees
PROPERTIES
  SurvivorsEnd
  CountsEveryIncrement
