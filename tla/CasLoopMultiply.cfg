\* main() of ex25 with five threads: 2^5.
SPECIFICATION Spec
CONSTANTS
  Threads = {t1, t2, t3, t4, t5}
  Each = 1
  Start = 1
  Update <- Double
PROPERTY
  ImplementsAtomicUpdate
