\* Root and two users in two groups and a security module that may refuse; two programs
\* in kMergeSort at once, one element too few or enough.
CONSTANTS
  ID = {0, 1, 2}
  GID = {0, 1}
  Unmapped = {9}
  OverLimit = {1}
  Denies = TRUE
  Caller = {p1, p2}
  Elements = {1, 2}
  MinSize = 2
  Sizes = {1, 3}
  MaxSorts = 1
SPECIFICATION SysSpec
INVARIANTS UserMatchesReal ResultIsPrefix LeaksOnlyOnFault
PROPERTIES UnprivilegedGainNothing DropIsForever RootSetuidDrops
CHECK_DEADLOCK FALSE
