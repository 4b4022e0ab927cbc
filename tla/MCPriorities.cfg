\* Three processes, of root and of a user, two nice values (asked for by one beyond each): two calls in
\* a session of all three with one change of its processes, and all changes on their own.
CONSTANTS
  Pids = {p1, p2, p3}
  InitPid = p1
  Users = {root, alice}
  Root = root
  Owner <- OwnerDef
  MIN_NICE = 1
  MAX_NICE = 2
  Nicevals = {0, 3}
  Limits = {0, 2}
  MaxCalls = 2
  MaxChanges = 1
  MaxHistory = 9
  MaxTree = 6
  MaxReapers = 2
SPECIFICATION Spec
INVARIANTS OneSession SetWhole SubreapersFound
PROPERTY CeilingKept
SYMMETRY Symmetry
CHECK_DEADLOCK FALSE
