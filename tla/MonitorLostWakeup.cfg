\* The claim of ex33 that all items are produced and handled.
SPECIFICATION Spec
CONSTANTS
  Items = 2
  Free = Free
CHECK_DEADLOCK FALSE
PROPERTY
  EveryItemHandled
