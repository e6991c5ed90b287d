\* Two clients create five tasks each while a third lists: "task-10" sorts
\* before "task-2".
SPECIFICATION Spec
CONSTANTS
  Creators = {c1, c2}
  CreatesEach = 5
  PageSizes = {4}
INVARIANTS
  AnsweredTasksKept
  NothingListedTwice
  MissesOnlyTokens
