----------------------------- MODULE Priorities -----------------------------
(***************************************************************************)
(* kernel/sys.c (HW2/Ques5/sys.c): setpriority and prlimit64 (with          *)
(* setrlimit) on the processes of Subreapers and ProcessGroups, for the one *)
(* limit setpriority looks at, RLIMIT_NICE.                                 *)
(*                                                                          *)
(* setpriority holds the task list's lock for reading and goes through the  *)
(* processes one by one: no process joins, leaves or changes its group      *)
(* meanwhile, but other calls of setpriority and prlimit64 and changes of   *)
(* credentials come between.  prlimit64 checks the caller's permission      *)
(* under one lock and changes the limit under another: the target can exit  *)
(* in between, and its ID be used again.                                    *)
(***************************************************************************)
EXTENDS Subreapers

CONSTANTS
  Users,        \* user IDs; Root's processes hold the capabilities
  Root,
  Owner,        \* the users the processes belong to at first
  MIN_NICE, MAX_NICE,
  Nicevals,     \* arguments of setpriority
  Limits,       \* values of the limit
  MaxCalls,     \* bound: calls of setpriority and prlimit64
  MaxChanges,   \* bound: forks, exits, execs and changes of group while they are made
  MaxHistory,   \* bound: the same where none is made
  MaxTree,      \* bound: the same where processes call prctl
  MaxReapers    \* bound: calls of prctl

ASSUME PrioritiesAssumption ==
  /\ Root \in Users /\ Owner \in [Pids -> Users]
  /\ MIN_NICE \in Int /\ MAX_NICE \in Int /\ MIN_NICE <= MAX_NICE
  /\ Nicevals \subseteq Int /\ Limits \subseteq Nat
  /\ {MaxCalls, MaxChanges, MaxHistory, MaxTree, MaxReapers} \subseteq Nat

VARIABLES
  task,     \* of each process: its real and effective user, its nice value (the lower,
            \* the higher its priority), and its RLIMIT_NICE, soft and hard
  call,     \* its setpriority or prlimit64 in progress
  budget    \* what is left of the bounds

vars == <<groupVars, reaperVars, task, call, budget>>

Idle == [kind |-> "none"]
Gone == -1      \* the target of a prlimit64 that has exited since it was found
Free(p) == call[p] = Idle /\ walk[p] = NoWalk    \* not in a call
Capable(c) == task[c].euid = Root

Task(u, soft, hard) == [uid |-> u, euid |-> u, nice |-> MAX_NICE, cur |-> soft, max |-> hard]
NoTask == Task(Root, 0, 0)

Init ==
  /\ GroupsInit /\ ReapersInit
  /\ \E hard \in Limits :
       task = [p \in Pids |-> IF p \in alive THEN Task(Owner[p], 0, hard) ELSE NoTask]
  /\ call = [p \in Pids |-> Idle]
  /\ budget \in IF alive = Pids
                THEN {[calls |-> MaxCalls, changes |-> MaxChanges, reapers |-> 0]}
                ELSE {[calls |-> 0, changes |-> MaxHistory, reapers |-> 0],
                      [calls |-> 0, changes |-> MaxTree, reapers |-> MaxReapers]}

Spend(bound) == budget[bound] > 0 /\ budget' = [budget EXCEPT ![bound] = @ - 1]

-----------------------------------------------------------------------------
(* setpriority.                                                             *)

nice_to_rlimit(n) == MAX_NICE + 1 - n

Clamp(v) == IF v < MIN_NICE THEN MIN_NICE ELSE IF v > MAX_NICE THEN MAX_NICE ELSE v

\* The caller's effective user is the process's real or effective one, or the caller
\* has CAP_SYS_NICE.
set_one_prio_perm(c, p) == task[c].euid \in {task[p].uid, task[p].euid} \/ Capable(c)

\* Mutant of can_nice: the limit is taken for the lowest value allowed.
CanNiceInverted(c, p, n) == nice_to_rlimit(n) >= task[p].cur \/ Capable(c)

can_nice(c, p, n) == nice_to_rlimit(n) <= task[p].cur \/ Capable(c)

\* Whom the call is about.
Target(c, which, who) ==
  CASE which = "PRIO_PROCESS" -> Process(c, who)
    [] which = "PRIO_PGRP" -> IF who = Self THEN pgrp[c] ELSE who
    [] which = "PRIO_USER" -> IF who = Self THEN task[c].uid ELSE who

\* The processes to go through: one, those of a group, or all.
Chosen(which, target) ==
  CASE which = "PRIO_PROCESS" -> {target} \cap alive
    [] which = "PRIO_PGRP" -> Members(target)
    [] which = "PRIO_USER" -> alive

Setting(c) == call[c].kind = "setpriority"

\* The call takes the lock.  The ghosts: the processes set, and whether no other
\* setpriority was in progress at any time.
setpriority(c, which, who, niceval) ==
  LET target == Target(c, which, who)
      k == [kind |-> "setpriority", which |-> which, who |-> target,
            niceval |-> Clamp(niceval), left |-> Chosen(which, target), error |-> "ESRCH",
            set |-> {}, alone |-> \A q \in Pids : ~Setting(q)]
  IN  /\ c \in alive /\ Free(c) /\ Spend("calls")
      /\ call' = [q \in Pids |-> IF q = c THEN k
                                 ELSE IF Setting(q) THEN [call[q] EXCEPT !.alone = FALSE]
                                 ELSE call[q]]
      /\ UNCHANGED <<groupVars, reaperVars, task>>

\* Mutant of AfterSuccess: every success clears the error.
SuccessClears(error) == "0"

AfterSuccess(error) == IF error = "ESRCH" THEN "0" ELSE error

Refused(c, p, error) ==
  /\ call' = [call EXCEPT ![c].left = @ \ {p}, ![c].error = error]
  /\ UNCHANGED task

\* The next process: it is not the caller's, or the limit or the security module does
\* not let it have the value, or it has it.
set_one_prio(c, p) ==
  LET v == call[c].niceval
  IN  \/ ~set_one_prio_perm(c, p) /\ Refused(c, p, "EPERM")
      \/ set_one_prio_perm(c, p) /\ Refused(c, p, "EACCES")
      \/ /\ set_one_prio_perm(c, p)
         /\ v < task[p].nice => can_nice(c, p, v)
         /\ task' = [task EXCEPT ![p].nice = v]
         /\ call' = [call EXCEPT ![c].left = @ \ {p}, ![c].error = AfterSuccess(@),
                                 ![c].set = @ \cup {p}]

\* PRIO_USER asks for the user of each process as it comes to it.
SetNext(c) ==
  /\ Setting(c)
  /\ \E p \in call[c].left :
       \/ /\ call[c].which = "PRIO_USER" => task[p].uid = call[c].who
          /\ set_one_prio(c, p)
       \/ /\ call[c].which = "PRIO_USER" /\ task[p].uid # call[c].who
          /\ call' = [call EXCEPT ![c].left = @ \ {p}]
          /\ UNCHANGED task
  /\ UNCHANGED <<groupVars, reaperVars, budget>>

\* The lock is given up and the error returned.
SetReturn(c) ==
  /\ Setting(c) /\ call[c].left = {}
  /\ call' = [call EXCEPT ![c] = Idle]
  /\ UNCHANGED <<groupVars, reaperVars, task, budget>>

-----------------------------------------------------------------------------
(* prlimit64 and setrlimit.                                                 *)

\* The target is the caller, or all its users are the caller's real one, or the caller
\* has CAP_SYS_RESOURCE.
check_prlimit_permission(c, p) ==
  p = c \/ (task[p].uid = task[c].uid /\ task[p].euid = task[c].uid) \/ Capable(c)

\* The target is found and the permission checked; a soft limit above the hard one is
\* refused.
prlimit64(c, pid, new) ==
  LET p == Process(c, pid)
  IN  /\ c \in alive /\ Free(c) /\ Spend("calls")
      /\ p \in alive
      /\ check_prlimit_permission(c, p)
      /\ new.cur <= new.max
      /\ call' = [call EXCEPT ![c] = [kind |-> "prlimit", target |-> p, new |-> new]]
      /\ UNCHANGED <<groupVars, reaperVars, task>>

\* Only CAP_SYS_RESOURCE raises the hard limit.
Allowed(c, new, old) == new.max <= old.max \/ Capable(c)

\* The change, and the return with or without it: the security module may refuse.
do_prlimit(c) ==
  LET t == call[c].target
      new == call[c].new
  IN  /\ call[c].kind = "prlimit"
      /\ \/ /\ t # Gone /\ Allowed(c, new, task[t])
            /\ task' = [task EXCEPT ![t].cur = new.cur, ![t].max = new.max]
         \/ UNCHANGED task
      /\ call' = [call EXCEPT ![c] = Idle]
      /\ UNCHANGED <<groupVars, reaperVars, budget>>

-----------------------------------------------------------------------------
(* The calls of Subreapers and ProcessGroups.  Those that change the task   *)
(* list wait for its readers.                                               *)

WriteLock == ~Walks /\ \A p \in Pids : ~Setting(p)

ChangeGroups(c) ==
  /\ Free(c) /\ WriteLock /\ Spend("changes")
  /\ SetGroups(c)
  /\ UNCHANGED <<reaperVars, task, call>>

\* The walks take the lock for reading.
CallReaper(c) ==
  /\ call[c] = Idle
  /\ IF walk[c] = NoWalk THEN Spend("reapers") ELSE UNCHANGED budget
  /\ ReaperCall(c)
  /\ UNCHANGED <<task, call>>

\* A child has its parent's credentials, nice value and limits.
ForkChild(p, c) ==
  /\ call[p] = Idle /\ WriteLock /\ Spend("changes")
  /\ ForkFlagged(p, c)
  /\ task' = [task EXCEPT ![c] = task[p]]
  /\ UNCHANGED call

\* A program may be setuid root, or one that ends by taking a user's IDs.
ExecProgram(p) ==
  /\ Free(p) /\ Spend("changes")
  /\ Exec(p)
  /\ \/ UNCHANGED task
     \/ task' = [task EXCEPT ![p].euid = Root]
     \/ /\ Capable(p)
        /\ \E u \in Users : task' = [task EXCEPT ![p].uid = u, ![p].euid = u]
  /\ UNCHANGED <<reaperVars, call>>

\* A prlimit64 that has found the process keeps hold of what is left of it.
ExitProcess(p) ==
  /\ call[p] = Idle /\ WriteLock /\ Spend("changes")
  /\ ExitReaped(p)
  /\ call' = [c \in Pids |-> IF call[c].kind = "prlimit" /\ call[c].target = p
                             THEN [call[c] EXCEPT !.target = Gone] ELSE call[c]]
  /\ task' = [task EXCEPT ![p] = NoTask]

-----------------------------------------------------------------------------
\* Root's number is 0 and cannot be named: it means the caller's user.
Who == [PRIO_PROCESS |-> Pids, PRIO_PGRP |-> Pids, PRIO_USER |-> Users \ {Root}]

Next ==
  \E p \in Pids :
    \/ ChangeGroups(p) \/ CallReaper(p) \/ ExecProgram(p) \/ ExitProcess(p)
    \/ \E c \in Pids : ForkChild(p, c)
    \/ \E which \in DOMAIN Who, v \in Nicevals :
         \E who \in Who[which] \cup {Self} : setpriority(p, which, who, v)
    \/ SetNext(p) \/ SetReturn(p)
    \/ \E pid \in Pids \cup {Self}, s, h \in Limits : prlimit64(p, pid, [cur |-> s, max |-> h])
    \/ do_prlimit(p)

Spec == Init /\ [][Next]_vars

-----------------------------------------------------------------------------
(* Properties.                                                              *)

Tasks == [uid : Users, euid : Users, nice : MIN_NICE .. MAX_NICE, cur : Nat, max : Nat]
Settings == [kind : {"setpriority"}, which : DOMAIN Who, who : Pids \cup Users,
             niceval : MIN_NICE .. MAX_NICE, left : SUBSET Pids,
             error : {"ESRCH", "0", "EPERM", "EACCES"}, set : SUBSET Pids, alone : BOOLEAN]
Limitings == [kind : {"prlimit"}, target : Pids \cup {Gone}, new : [cur : Nat, max : Nat]]

\* The type invariant.
TypeOK ==
  /\ GroupsTypeOK /\ ReapersTypeOK
  /\ task \in [Pids -> Tasks]
  /\ call \in [Pids -> {Idle} \cup Settings \cup Limitings]

\* setpriority for a group returns 0 exactly when it has members and each of them, as
\* the group is when the call returns, was given the value; a success never hides the
\* refusal of another member.  If no other setpriority came between, they all have it.
SetWhole ==
  \A c \in alive :
    LET k == call[c]
    IN  Setting(c) /\ k.which = "PRIO_PGRP" /\ k.left = {} =>
          /\ k.error = "0" <=> Members(k.who) # {} /\ Members(k.who) \subseteq k.set
          /\ k.error = "0" /\ k.alone => \A p \in Members(k.who) : task[p].nice = k.niceval

\* The highest priority a process can have or give itself.
Ceiling(p) ==
  LET n == nice_to_rlimit(task[p].nice)
  IN  IF task[p].max > n THEN task[p].max ELSE n

\* Without a capability no sequence of calls, of several processes on each other, gets a
\* process above the priority its hard limit or its present nice value stood for: not
\* by soft limits, not by a prlimit64 checked earlier, not through a child.
CeilingKept ==
  [][(\A c \in alive : call[c] # Idle => ~Capable(c)) =>
       \A p \in alive' : \E q \in alive :
         /\ q = p \/ (p \notin alive /\ real_parent'[p] = q)
         /\ Ceiling(p)' <= Ceiling(q)]_vars
=============================================================================
