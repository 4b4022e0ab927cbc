--------------------------- MODULE ProcessGroups ---------------------------
(***************************************************************************)
(* kernel/sys.c (HW2/Ques5/sys.c): setpgid and setsid.  A process belongs   *)
(* to a process group and to a session, both named by process IDs; a        *)
(* session leader starts a session and a group of its own.  Both calls run  *)
(* under the task list's write lock and are single steps.                   *)
(*                                                                          *)
(* fork, exec and exit are external: what they do to the state of these     *)
(* calls.  A process ID is given out again once no process, group or        *)
(* session has it.  A process that has exited and is not yet waited for     *)
(* still counts; processes have one thread.                                 *)
(***************************************************************************)
EXTENDS Integers

CONSTANTS
  Pids,      \* process IDs
  InitPid    \* the first process, which never exits

Self == 0        \* as an argument: the caller, or the group of the process named
Negative == -1   \* as a group: any negative number

ASSUME GroupsAssumption == InitPid \in Pids /\ {Self, Negative} \cap Pids = {}

VARIABLES
  alive,         \* the processes there are
  real_parent,   \* their parents
  pgrp,          \* their process groups
  session,       \* their sessions
  leader,        \* the processes with signal->leader set
  PF_FORKNOEXEC  \* the processes that have not called exec since they were forked

groupVars == <<alive, real_parent, pgrp, session, leader, PF_FORKNOEXEC>>

\* The first process has called setsid; it is alone, or has just forked all the others.
GroupsInit ==
  /\ alive \in {{InitPid}, Pids}
  /\ real_parent = [p \in Pids |-> InitPid]
  /\ pgrp = [p \in Pids |-> IF p \in alive THEN InitPid ELSE p]
  /\ session = pgrp
  /\ leader = {InitPid} /\ PF_FORKNOEXEC = alive \ {InitPid}

Members(g) == {p \in alive : pgrp[p] = g}

-----------------------------------------------------------------------------
(* fork, exec and exit.                                                     *)

InUse(n) == \E p \in alive : n \in {p, pgrp[p], session[p]}

Fork(p, c) ==
  /\ p \in alive /\ ~InUse(c)
  /\ alive' = alive \cup {c}
  /\ real_parent' = [real_parent EXCEPT ![c] = p]
  /\ pgrp' = [pgrp EXCEPT ![c] = pgrp[p]]
  /\ session' = [session EXCEPT ![c] = session[p]]
  /\ PF_FORKNOEXEC' = PF_FORKNOEXEC \cup {c}
  /\ UNCHANGED leader

Exec(p) ==
  /\ p \in alive
  /\ PF_FORKNOEXEC' = PF_FORKNOEXEC \ {p}
  /\ UNCHANGED <<alive, real_parent, pgrp, session, leader>>

\* The process is gone; its children are the reaper's, whichever process that is.
Exit(p, reaper) ==
  /\ p \in alive \ {InitPid} /\ reaper \in alive \ {p}
  /\ alive' = alive \ {p}
  /\ real_parent' = [q \in Pids |-> IF q = p THEN InitPid
                                    ELSE IF real_parent[q] = p THEN reaper
                                    ELSE real_parent[q]]
  /\ pgrp' = [pgrp EXCEPT ![p] = p] /\ session' = [session EXCEPT ![p] = p]
  /\ leader' = leader \ {p} /\ PF_FORKNOEXEC' = PF_FORKNOEXEC \ {p}

-----------------------------------------------------------------------------
(* setpgid.                                                                 *)

Process(c, pid) == IF pid = Self THEN c ELSE pid
Group(p, pgid) == IF pgid = Self THEN p ELSE pgid

\* What the caller is to the process it moves: its parent, and then the two are in one
\* session and the child has not called exec, or the process itself.
MayMove(c, p) ==
  IF real_parent[p] = c
  THEN session[p] = session[c] /\ p \in PF_FORKNOEXEC
  ELSE p = c

\* The group is the one named by the process, or has a member (the first one in its
\* list) in the caller's session.
GroupOpen(c, p, g) == g = p \/ \E q \in Members(g) : session[q] = session[c]

setpgid(c, pid, pgid) ==
  LET p == Process(c, pid)
      g == Group(p, pgid)
  IN  /\ c \in alive
      /\ g # Negative
      /\ p \in alive
      /\ MayMove(c, p)
      /\ p \notin leader
      /\ GroupOpen(c, p, g)
      /\ pgrp' = [pgrp EXCEPT ![p] = g]
      /\ UNCHANGED <<alive, real_parent, session, leader, PF_FORKNOEXEC>>

-----------------------------------------------------------------------------
(* setsid.                                                                  *)

\* Mutant of MayLead: a group with the caller's number may be left.
MayLeadAny(c) == c \notin leader

\* Not yet a leader, and no process group has the number of the session to be.
MayLead(c) == c \notin leader /\ Members(c) = {}

setsid(c) ==
  /\ c \in alive
  /\ MayLead(c)
  /\ leader' = leader \cup {c}
  /\ session' = [session EXCEPT ![c] = c]
  /\ pgrp' = [pgrp EXCEPT ![c] = c]
  /\ UNCHANGED <<alive, real_parent, PF_FORKNOEXEC>>

-----------------------------------------------------------------------------
\* A call that fails changes nothing.
SetGroups(c) ==
  \/ setsid(c)
  \/ \E pid \in Pids \cup {Self}, pgid \in Pids \cup {Self, Negative} : setpgid(c, pid, pgid)

GroupsNext ==
  \E p \in Pids :
    \/ SetGroups(p) \/ Exec(p)
    \/ \E c \in Pids : Fork(p, c)
    \/ \E reaper \in alive : Exit(p, reaper)

GroupsSpec == GroupsInit /\ [][GroupsNext]_groupVars

-----------------------------------------------------------------------------
(* Properties.                                                              *)

\* The type invariant.
GroupsTypeOK ==
  /\ alive \subseteq Pids /\ InitPid \in alive
  /\ real_parent \in [Pids -> alive]
  /\ pgrp \in [Pids -> Pids] /\ session \in [Pids -> Pids]
  /\ leader \subseteq alive /\ PF_FORKNOEXEC \subseteq alive

\* A process group lies within one session, whatever parents and children do in which
\* order and however process IDs are used again (the checks of setpgid, and setsid's
\* "Fail if a process group id already exists that equals the proposed session id").
OneSession == \A p, q \in alive : pgrp[p] = pgrp[q] => session[p] = session[q]

\* A session leader stays in the group and session of its own number.
LeaderHome == \A p \in leader : pgrp[p] = p /\ session[p] = p

\* The members of a group with the number of a process are in that process's session:
\* what makes it safe that setpgid does not look at the group named by the process.
NumberedGroup == \A p, q \in alive : pgrp[q] = p => session[q] = session[p]
=============================================================================
