\* Three tasks, pages of two: what the page token loses.
SPECIFICATION Spec
CONSTANTS
  Creators = {c1}
  CreatesEach = 3
  PageSizes = {2}
INVARIANTS
  ListingComplete
