----------------------------- MODULE Subreapers -----------------------------
(***************************************************************************)
(* kernel/sys.c (HW2/Ques5/sys.c): prctl(PR_SET_CHILD_SUBREAPER).  A        *)
(* process whose parent exits gets the nearest subreaper above for a        *)
(* parent.  exit looks for one only if has_child_subreaper is set, so the   *)
(* flag must reach every process below a subreaper, whatever becomes of the *)
(* tree meanwhile.                                                          *)
(*                                                                          *)
(* The call sets its own flag without a lock; then it walks its descendants *)
(* one by one with the task list locked for reading, so walks of several    *)
(* callers interleave with each other, and fork and exit wait for them.     *)
(* The two flags are independent of each other: how struct signal_struct    *)
(* lays them out is not in the repository.  There is one namespace of       *)
(* process IDs, and its child_reaper is the first process.                  *)
(***************************************************************************)
EXTENDS ProcessGroups

VARIABLES
  is_child_subreaper, has_child_subreaper,   \* the processes with the flag set
  walk    \* of each process in the call: where it is, and whom it is still to visit

reaperVars == <<is_child_subreaper, has_child_subreaper, walk>>

NoWalk == [at |-> "none", left |-> {}]

ReapersInit ==
  /\ is_child_subreaper = {} /\ has_child_subreaper = {}
  /\ walk = [p \in Pids |-> NoWalk]

Children(p) == {q \in alive \ {InitPid} : real_parent[q] = p}

-----------------------------------------------------------------------------
(* prctl(PR_SET_CHILD_SUBREAPER).                                           *)

prctl(c, on) ==
  /\ c \in alive /\ walk[c] = NoWalk
  /\ \/ /\ on
        /\ is_child_subreaper' = is_child_subreaper \cup {c}
        /\ walk' = [walk EXCEPT ![c].at = "flagged"]
     \/ /\ ~on
        /\ is_child_subreaper' = is_child_subreaper \ {c}
        /\ UNCHANGED walk
  /\ UNCHANGED <<groupVars, has_child_subreaper>>

\* The walk begins: the lock is taken.
walk_process_tree(c) ==
  /\ walk[c].at = "flagged"
  /\ walk' = [walk EXCEPT ![c] = [at |-> "walking", left |-> Children(c)]]
  /\ UNCHANGED <<groupVars, is_child_subreaper, has_child_subreaper>>

\* Mutant of Below: the walk does not go down.
BelowNobody(p) == {}

\* Where the walk goes on from p: nowhere, if p has the flag.
Below(p) == IF p \in has_child_subreaper THEN {} ELSE Children(p)

propagate_has_child_subreaper(c) ==
  /\ walk[c].at = "walking"
  /\ \E p \in walk[c].left :
       /\ has_child_subreaper' = has_child_subreaper \cup {p}
       /\ walk' = [walk EXCEPT ![c].left = (@ \ {p}) \cup Below(p)]
  /\ UNCHANGED <<groupVars, is_child_subreaper>>

\* The lock is given up and the call returns.
WalkReturn(c) ==
  /\ walk[c].at = "walking" /\ walk[c].left = {}
  /\ walk' = [walk EXCEPT ![c] = NoWalk]
  /\ UNCHANGED <<groupVars, is_child_subreaper, has_child_subreaper>>

ReaperCall(c) ==
  \/ \E on \in BOOLEAN : prctl(c, on)
  \/ walk_process_tree(c) \/ propagate_has_child_subreaper(c) \/ WalkReturn(c)

-----------------------------------------------------------------------------
(* fork and exit, which like setpgid and setsid wait for the walks.         *)

Walks == \E p \in Pids : walk[p].at = "walking"

ForkFlagged(p, c) ==
  /\ ~Walks /\ walk[p] = NoWalk
  /\ Fork(p, c)
  /\ has_child_subreaper' =
       IF p \in has_child_subreaper \cup is_child_subreaper
       THEN has_child_subreaper \cup {c} ELSE has_child_subreaper
  /\ UNCHANGED <<is_child_subreaper, walk>>

\* r is the nearest subreaper above p, or the first process if there is none: the way
\* up from p passes through others, none of which is a subreaper, and leads to r.
Nearest(p, r) ==
  /\ r \in is_child_subreaper \cup {InitPid}
  /\ \E passed \in SUBSET (alive \ {InitPid, r}) :
       /\ p \in passed /\ (passed \ {p}) \cap is_child_subreaper = {}
       /\ \A q \in passed : real_parent[q] \in passed \cup {r}

find_new_reaper(p, r) == IF p \in has_child_subreaper THEN Nearest(p, r) ELSE r = InitPid

ExitReaped(p) ==
  /\ ~Walks /\ walk[p] = NoWalk
  /\ \E r \in alive : find_new_reaper(p, r) /\ Exit(p, r)
  /\ is_child_subreaper' = is_child_subreaper \ {p}
  /\ has_child_subreaper' = has_child_subreaper \ {p}
  /\ UNCHANGED walk

-----------------------------------------------------------------------------
ReapersNext ==
  \E p \in Pids :
    \/ /\ walk[p] = NoWalk /\ UNCHANGED reaperVars
       /\ (SetGroups(p) /\ ~Walks) \/ Exec(p)
    \/ ReaperCall(p) \/ ExitReaped(p)
    \/ \E c \in Pids : ForkFlagged(p, c)

ReapersSpec == GroupsInit /\ ReapersInit /\ [][ReapersNext]_<<groupVars, reaperVars>>

-----------------------------------------------------------------------------
(* Properties.                                                              *)

\* The type invariant.
ReapersTypeOK ==
  /\ is_child_subreaper \subseteq alive /\ has_child_subreaper \subseteq alive \ {InitPid}
  /\ walk \in [Pids -> [at : {"none", "flagged", "walking"}, left : SUBSET (alive \ {InitPid})]]

\* a is above p: it is in every set that has p's parent and its members' parents.
Above(a, p) ==
  \A S \in SUBSET alive :
    real_parent[p] \in S /\ (\A q \in S : real_parent[q] \in S) => a \in S

\* "all its decendants already have these flag too and new decendants will inherit it on
\* fork": whenever a process can exit, every process below a subreaper whose walk has
\* begun has the flag, although walks skip what another walk has marked and not yet
\* gone through, and exits move whole branches of the tree.
SubreapersFound ==
  ~Walks =>
    \A a \in is_child_subreaper, p \in alive \ {InitPid} :
      walk[a].at # "flagged" /\ Above(a, p) => p \in has_child_subreaper
=============================================================================
