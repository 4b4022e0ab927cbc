------------------------------ MODULE SysProofs ------------------------------
(***************************************************************************)
(* Proofs about the system calls of sys.c, for any set of processes, users, *)
(* groups, limits and arrays:                                               *)
(*   - the user and group ID calls: the credentials keep their types and    *)
(*     their user, and nothing dropped comes back;                          *)
(*   - the calls that act on other processes: ProcessGroups on its own,     *)
(*     then Subreapers, which implements it, then Priorities, which         *)
(*     implements Subreapers and inherits its invariants;                   *)
(*   - kMergeSort: that mergeSort sorts, what a call leaves in the result   *)
(*     array, and which calls lose their buffer.                            *)
(* The three share no state: each section is about one specification.       *)
(***************************************************************************)
EXTENDS Credentials, Priorities, KMergeSort, FiniteSetTheorems, TLAPS

-----------------------------------------------------------------------------
(* The user and group ID calls.                                             *)

\* What the calls compute from IDs and valid arguments are IDs again (-1 never gets
\* into the credentials), and the new user IDs without the capability are old ones.
LEMMA ReIsTyped ==
  ASSUME NEW S \in SUBSET Nat, NEW c \in IDs(S), NEW r, NEW e, Valid({r, e}, S)
  PROVE  AfterRe(c, r, e) \in IDs(S)
BY DEF IDs, Valid, AfterRe, Given, Keep

\* The same of setuid and setgid.
LEMMA SetIsTyped ==
  ASSUME NEW S \in SUBSET Nat, NEW c \in IDs(S), NEW u \in S
  PROVE  AfterSet(c, u) \in IDs(S)
BY DEF IDs, AfterSet

\* The same of setresuid and setresgid.
LEMMA ResIsTyped ==
  ASSUME NEW S \in SUBSET Nat, NEW c \in IDs(S), NEW r, NEW e, NEW s, Valid({r, e, s}, S)
  PROVE  AfterRes(c, r, e, s) \in IDs(S)
BY DEF IDs, Valid, AfterRes, Given, Keep

\* Without the capability, setreuid and setregid only rearrange the IDs held.
LEMMA ReGainsNothing ==
  ASSUME NEW S, NEW c \in IDs(S), NEW r, NEW e, ~effective, MayRe(c, r, e)
  PROVE  Held(AfterRe(c, r, e)) \subseteq Held(c)
BY DEF IDs, MayRe, May, AfterRe, Given, Held

\* The same of setuid and setgid.
LEMMA SetGainsNothing ==
  ASSUME NEW S, NEW c \in IDs(S), NEW u, ~effective, MaySet(c, u)
  PROVE  Held(AfterSet(c, u)) \subseteq Held(c)
BY DEF IDs, MaySet, AfterSet, Held

\* The same of setresuid and setresgid.
LEMMA ResGainsNothing ==
  ASSUME NEW S, NEW c \in IDs(S), NEW r, NEW e, NEW s, ~effective, MayRes(c, r, e, s)
  PROVE  Held(AfterRes(c, r, e, s)) \subseteq Held(c)
BY DEF IDs, MayRes, May, AfterRes, Given, Held

\* What a step can be, whichever call it is: a refusal (which may leave the flag of
\* set_user behind), new file system IDs, or a commit of IDs of which the unprivileged
\* hold every one already.
Outcome ==
  \/ /\ UNCHANGED <<uids, gids, user, permitted, effective, shadows>>
     /\ PF_NPROC_EXCEEDED' \in BOOLEAN
     /\ retval' \in {"old", "EPERM", "EINVAL", "ENOMEM", "EAGAIN", "denied"}
  \/ \E new \in IDs(ID) :
       /\ CommitUids(new) /\ new.fs = new.effective
       /\ effective \/ Held(new) \subseteq Held(uids)
  \/ \E new \in IDs(GID) : CommitGids(new) /\ (effective \/ Held(new) \subseteq Held(gids))
  \/ \E f \in ID :
       /\ uids' = AfterFs(uids, f) /\ shadows' = FALSE /\ retval' = "old"
       /\ UNCHANGED <<gids, user, permitted, effective, PF_NPROC_EXCEEDED>>
  \/ \E f \in GID :
       /\ gids' = AfterFs(gids, f) /\ retval' = "old"
       /\ UNCHANGED <<uids, user, permitted, effective, PF_NPROC_EXCEEDED, shadows>>

\* A change of user IDs has one of these outcomes if what it would commit is typed,
\* shadows the effective ID and gains nothing.
LEMMA ChangeUidsOutcome ==
  ASSUME CredentialsTypeOK, NEW valid, NEW allowed, NEW new,
         valid => new \in IDs(ID) /\ new.fs = new.effective,
         valid /\ allowed => effective \/ Held(new) \subseteq Held(uids),
         ChangeUids(valid, allowed, new)
  PROVE  Outcome
<1>1. CASE valid /\ allowed /\ CommitUids(new)
  BY <1>1 DEF Outcome
<1>2. CASE Denied(new)
  BY <1>2 DEF Denied, Exceeds, CredentialsTypeOK, Outcome
<1>3. CASE \E error \in {"EPERM", "EINVAL", "ENOMEM", "EAGAIN"} : Refuse(error)
  BY <1>3 DEF Refuse, CredentialsTypeOK, Outcome
<1> QED BY <1>1, <1>2, <1>3 DEF ChangeUids, NoUser

\* The same of a change of group IDs.
LEMMA ChangeGidsOutcome ==
  ASSUME CredentialsTypeOK, NEW valid, NEW allowed, NEW new,
         valid => new \in IDs(GID),
         valid /\ allowed => effective \/ Held(new) \subseteq Held(gids),
         ChangeGids(valid, allowed, new)
  PROVE  Outcome
<1>1. CASE valid /\ allowed /\ CommitGids(new)
  BY <1>1 DEF Outcome
<1>2. CASE \E error \in {"EPERM", "EINVAL", "ENOMEM"} : Refuse(error)
  BY <1>2 DEF Refuse, CredentialsTypeOK, Outcome
<1> QED BY <1>1, <1>2 DEF ChangeGids

\* Every call has one of these outcomes.
LEMMA StepOutcome ==
  ASSUME CredentialsTypeOK, CredentialsNext
  PROVE  Outcome
<1> USE CredentialsAssumption
<1>t. /\ uids \in IDs(ID) /\ gids \in IDs(GID)
      /\ ID \in SUBSET Nat /\ GID \in SUBSET Nat
  BY DEF CredentialsTypeOK
<1>1. ASSUME NEW r, NEW e, setreuid(r, e) PROVE Outcome
  <2>1. Valid({r, e}, ID) =>
          AfterRe(uids, r, e) \in IDs(ID) /\ AfterRe(uids, r, e).fs = AfterRe(uids, r, e).effective
    BY <1>t, ReIsTyped DEF AfterRe
  <2>2. MayRe(uids, r, e) => effective \/ Held(AfterRe(uids, r, e)) \subseteq Held(uids)
    BY <1>t, ReGainsNothing
  <2> QED BY <1>1, <2>1, <2>2, ChangeUidsOutcome DEF setreuid
<1>2. ASSUME NEW r, NEW e, NEW s, setresuid(r, e, s) PROVE Outcome
  <2> DEFINE new == AfterRes(uids, r, e, s)
  <2>1. Valid({r, e, s}, ID) => new \in IDs(ID) /\ new.fs = new.effective
    BY <1>t, ResIsTyped DEF AfterRes
  <2>2. MayRes(uids, r, e, s) => effective \/ Held(new) \subseteq Held(uids)
    BY <1>t, ResGainsNothing
  <2> QED BY <1>2, <2>1, <2>2, ChangeUidsOutcome DEF setresuid
<1>3. ASSUME NEW u, setuid(u) PROVE Outcome
  <2> DEFINE new == AfterSet(uids, u)
  <2>1. u \in ID => new \in IDs(ID) /\ new.fs = new.effective
    BY <1>t, SetIsTyped DEF AfterSet, IDs
  <2>2. MaySet(uids, u) => effective \/ Held(new) \subseteq Held(uids)
    BY <1>t, SetGainsNothing
  <2> QED BY <1>3, <2>1, <2>2, ChangeUidsOutcome DEF setuid
<1>4. ASSUME NEW f, setfsuid(f) PROVE Outcome
  BY <1>4 DEF setfsuid, Refuse, CredentialsTypeOK, Outcome
<1>5. ASSUME NEW r, NEW e, setregid(r, e) PROVE Outcome
  <2>1. Valid({r, e}, GID) => AfterRe(gids, r, e) \in IDs(GID)
    BY <1>t, ReIsTyped
  <2>2. MayRe(gids, r, e) => effective \/ Held(AfterRe(gids, r, e)) \subseteq Held(gids)
    BY <1>t, ReGainsNothing
  <2> QED BY <1>5, <2>1, <2>2, ChangeGidsOutcome DEF setregid
<1>6. ASSUME NEW r, NEW e, NEW s, setresgid(r, e, s) PROVE Outcome
  <2> DEFINE new == AfterRes(gids, r, e, s)
  <2>1. Valid({r, e, s}, GID) => new \in IDs(GID)
    BY <1>t, ResIsTyped
  <2>2. MayRes(gids, r, e, s) => effective \/ Held(new) \subseteq Held(gids)
    BY <1>t, ResGainsNothing
  <2> QED BY <1>6, <2>1, <2>2, ChangeGidsOutcome DEF setresgid
<1>7. ASSUME NEW g, setgid(g) PROVE Outcome
  <2> DEFINE new == AfterSet(gids, g)
  <2>1. g \in GID => new \in IDs(GID)
    BY <1>t, SetIsTyped
  <2>2. MaySet(gids, g) => effective \/ Held(new) \subseteq Held(gids)
    BY <1>t, SetGainsNothing
  <2> QED BY <1>7, <2>1, <2>2, ChangeGidsOutcome DEF setgid
<1>8. ASSUME NEW f, setfsgid(f) PROVE Outcome
  BY <1>8 DEF setfsgid, Refuse, CredentialsTypeOK, Outcome
<1> QED BY <1>1, <1>2, <1>3, <1>4, <1>5, <1>6, <1>7, <1>8 DEF CredentialsNext, UserCall, GroupCall

-----------------------------------------------------------------------------

\* The inductive invariant: the accounting and the shadowing need the types, and each
\* of the three is kept by every outcome.
CredentialsInv == CredentialsTypeOK /\ UserMatchesReal /\ FsShadowsEffective

\* The credentials an exec leaves satisfy the invariant.
LEMMA CredentialsInvInit == CredentialsInit => CredentialsInv
<1> SUFFICES ASSUME CredentialsInit PROVE CredentialsInv
  OBVIOUS
<1>1. /\ uids \in IDs(ID) /\ user = uids.real /\ user \in ID
      /\ uids.fs = uids.effective
  BY DEF CredentialsInit, IDs
<1>2. gids \in IDs(GID)
  BY DEF CredentialsInit, IDs
<1>3. /\ permitted \in BOOLEAN /\ effective \in BOOLEAN
      /\ effective => permitted
  BY DEF CredentialsInit
<1> QED BY <1>1, <1>2, <1>3 DEF CredentialsInit, CredentialsInv, CredentialsTypeOK, UserMatchesReal, FsShadowsEffective

\* No call disturbs it, whatever it returns.
LEMMA CredentialsInvNext == CredentialsInv /\ [CredentialsNext]_credentialVars => CredentialsInv'
<1> SUFFICES ASSUME CredentialsInv, [CredentialsNext]_credentialVars PROVE CredentialsInv'
  OBVIOUS
<1> USE DEF CredentialsInv, CredentialsTypeOK, UserMatchesReal, FsShadowsEffective
<1>1. CASE UNCHANGED credentialVars
  BY <1>1 DEF credentialVars
<1>2. CASE CredentialsNext
  <2>1. Outcome
    BY <1>2, StepOutcome
  <2>2. CASE /\ UNCHANGED <<uids, gids, user, permitted, effective, shadows>>
             /\ PF_NPROC_EXCEEDED' \in BOOLEAN
             /\ retval' \in {"old", "EPERM", "EINVAL", "ENOMEM", "EAGAIN", "denied"}
    BY <2>2
  <2>3. ASSUME NEW new \in IDs(ID), CommitUids(new), new.fs = new.effective PROVE CredentialsInv'
    <3>1. user' = new.real /\ user' \in ID /\ PF_NPROC_EXCEEDED' \in BOOLEAN
      BY <2>3 DEF CommitUids, FollowUser, Exceeds, IDs
    <3>2. /\ permitted' \in BOOLEAN /\ effective' \in BOOLEAN
          /\ effective' => permitted'
      BY <2>3 DEF CommitUids, FixPermitted, FixEffective
    <3> QED BY <2>3, <3>1, <3>2 DEF CommitUids
  <2>4. ASSUME NEW new \in IDs(GID), CommitGids(new) PROVE CredentialsInv'
    BY <2>4 DEF CommitGids
  <2>5. ASSUME NEW f \in ID,
               uids' = AfterFs(uids, f), shadows' = FALSE, retval' = "old",
               UNCHANGED <<gids, user, permitted, effective, PF_NPROC_EXCEEDED>>
        PROVE  CredentialsInv'
    BY <2>5 DEF IDs, AfterFs
  <2>6. ASSUME NEW f \in GID,
               gids' = AfterFs(gids, f), retval' = "old",
               UNCHANGED <<uids, user, permitted, effective, PF_NPROC_EXCEEDED, shadows>>
        PROVE  CredentialsInv'
    BY <2>6 DEF IDs, AfterFs
  <2> QED BY <2>1, <2>2, <2>3, <2>4, <2>5, <2>6 DEF Outcome
<1> QED BY <1>1, <1>2

\* Types hold forever; the capability in force is always a permitted one.
THEOREM CredentialsTyped == CredentialsSpec => []CredentialsTypeOK
BY CredentialsInvInit, CredentialsInvNext, PTL DEF CredentialsSpec, CredentialsInv

\* set_user keeps the accounting with the real ID through every call and failure.
THEOREM AccountedToRealUser == CredentialsSpec => []UserMatchesReal
BY CredentialsInvInit, CredentialsInvNext, PTL DEF CredentialsSpec, CredentialsInv

\* Unless setfsuid set it, the file system ID is the effective ID.
THEOREM FsIDShadows == CredentialsSpec => []FsShadowsEffective
BY CredentialsInvInit, CredentialsInvNext, PTL DEF CredentialsSpec, CredentialsInv

\* What a step without the capability may do to the IDs.
LEMMA StepGainsNothing ==
  ASSUME CredentialsTypeOK, [CredentialsNext]_credentialVars, ~effective
  PROVE  Held(uids') \subseteq Held(uids) /\ Held(gids') \subseteq Held(gids)
<1>1. CASE UNCHANGED credentialVars
  BY <1>1 DEF credentialVars
<1>2. CASE CredentialsNext
  <2>1. Outcome
    BY <1>2, StepOutcome
  <2> QED BY <2>1 DEF Outcome, CommitUids, CommitGids, AfterFs, CredentialsTypeOK, IDs, Held
<1> QED BY <1>1, <1>2

\* Whatever the IDs and however many, the unprivileged gain none by these calls.
THEOREM NothingGained == CredentialsSpec => UnprivilegedGainNothing
<1>1. CredentialsTypeOK /\ [CredentialsNext]_credentialVars
        => [~effective => Held(uids') \subseteq Held(uids) /\ Held(gids') \subseteq Held(gids)]_credentialVars
  BY StepGainsNothing
<1> QED BY <1>1, CredentialsTyped, PTL DEF CredentialsSpec, UnprivilegedGainNothing

\* A program that dropped its privileges completely never has them again: without the
\* capability no root ID is gained, and without permitted there is no capability.
THEOREM DroppedForGood == CredentialsSpec => DropIsForever
<1>1. CredentialsTypeOK /\ [CredentialsNext]_credentialVars => [Dropped => Dropped']_credentialVars
  <2> SUFFICES ASSUME CredentialsTypeOK, [CredentialsNext]_credentialVars, Dropped PROVE Dropped'
    OBVIOUS
  <2>1. ~effective
    BY DEF CredentialsTypeOK, Dropped
  <2>2. RootID \notin Held(uids')
    BY <2>1, StepGainsNothing DEF Dropped
  <2>3. ~permitted'
    <3>1. CASE UNCHANGED credentialVars
      BY <3>1 DEF credentialVars, Dropped
    <3>2. CASE CredentialsNext
      BY <3>2, StepOutcome DEF Outcome, CommitUids, CommitGids, FixPermitted, Dropped
    <3> QED BY <3>1, <3>2
  <2> QED BY <2>2, <2>3 DEF Dropped, RootID, Held
<1> QED BY <1>1, CredentialsTyped, PTL DEF CredentialsSpec, DropIsForever

\* setuid by a capable process sets all its IDs, and with the last root ID the
\* capability goes.
THEOREM SetuidDropsForGood == CredentialsSpec => RootSetuidDrops
<1>1. CredentialsTypeOK /\ [CredentialsNext]_credentialVars
        => [(\E u \in ID \ {RootID} : setuid(u)) /\ effective /\ RootID \in Held(uids) /\ uids' # uids
              => Dropped']_credentialVars
  <2> SUFFICES ASSUME NEW u \in ID \ {RootID}, setuid(u),
                      effective, RootID \in Held(uids), uids' # uids
               PROVE  Dropped'
    OBVIOUS
  <2>1. CommitUids(AfterSet(uids, u))
    BY DEF setuid, ChangeUids, NoUser, Denied, Refuse
  <2>2. Held(AfterSet(uids, u)) = {u}
    BY DEF AfterSet, Held
  <2> QED BY <2>1, <2>2 DEF CommitUids, FixPermitted, Dropped, Held
<1> QED BY <1>1, CredentialsTyped, PTL DEF CredentialsSpec, RootSetuidDrops

-----------------------------------------------------------------------------
(* Process groups and sessions.                                             *)

\* OneSession is not inductive: setpgid puts a process into the group of its own
\* number without looking at its members, and only NumberedGroup knows their session.
GroupsInv == GroupsTypeOK /\ OneSession /\ LeaderHome /\ NumberedGroup

\* The first process is alone, or with processes of its own group and session.
LEMMA GroupsInvInit == GroupsInit => GroupsInv
<1> SUFFICES ASSUME GroupsInit PROVE GroupsInv
  OBVIOUS
<1>1. alive \subseteq Pids /\ InitPid \in alive
  BY GroupsAssumption DEF GroupsInit
<1>2. \A p \in alive : pgrp[p] = InitPid /\ session[p] = InitPid
  BY <1>1 DEF GroupsInit
<1>3. GroupsTypeOK
  BY <1>1 DEF GroupsInit, GroupsTypeOK
<1>4. OneSession /\ LeaderHome /\ NumberedGroup
  BY <1>1, <1>2 DEF GroupsInit, OneSession, LeaderHome, NumberedGroup
<1> QED BY <1>3, <1>4 DEF GroupsInv

\* fork gives the child its parent's group and session, and a number nothing uses.
LEMMA ForkKeeps ==
  ASSUME GroupsInv, NEW p \in Pids, NEW c \in Pids, Fork(p, c)
  PROVE  GroupsInv'
<1> USE DEF GroupsInv, Fork, InUse
<1>1. GroupsTypeOK'
  BY DEF GroupsTypeOK
<1>2. /\ pgrp'[c] = pgrp[p] /\ session'[c] = session[p] /\ alive' = alive \cup {c}
      /\ \A q \in alive : q # c /\ pgrp'[q] = pgrp[q] /\ session'[q] = session[q]
  BY DEF GroupsTypeOK
<1>3. p \in alive /\ OneSession /\ NumberedGroup
  OBVIOUS
<1>4. OneSession'
  BY ONLY <1>2, <1>3 DEF OneSession
<1>5. LeaderHome'
  BY DEF GroupsTypeOK, LeaderHome
<1>6. \A q \in alive : pgrp[q] # c
  OBVIOUS
<1>7. NumberedGroup'
  BY ONLY <1>2, <1>3, <1>6 DEF NumberedGroup
<1> QED BY <1>1, <1>4, <1>5, <1>7

\* exit takes one process away.
LEMMA ExitKeeps ==
  ASSUME GroupsInv, NEW p \in Pids, NEW r \in alive, Exit(p, r)
  PROVE  GroupsInv'
<1> USE GroupsAssumption DEF GroupsInv, Exit
<1>1. GroupsTypeOK'
  BY DEF GroupsTypeOK
<1>2. OneSession' /\ LeaderHome' /\ NumberedGroup'
  BY DEF GroupsTypeOK, OneSession, LeaderHome, NumberedGroup
<1> QED BY <1>1, <1>2

\* setpgid moves a process within the session of the caller, which is its own.
LEMMA SetpgidKeeps ==
  ASSUME GroupsInv, NEW c \in Pids,
         NEW pid \in Pids \cup {Self}, NEW pgid \in Pids \cup {Self, Negative},
         setpgid(c, pid, pgid)
  PROVE  GroupsInv'
<1> DEFINE p == Process(c, pid)
           g == Group(p, pgid)
<1>1. /\ p \in alive /\ c \in alive /\ p \in Pids /\ g \in Pids /\ p \notin leader
      /\ pgrp' = [pgrp EXCEPT ![p] = g]
      /\ UNCHANGED <<alive, real_parent, session, leader, PF_FORKNOEXEC>>
  BY GroupsAssumption DEF setpgid, Process, Group, GroupsInv, GroupsTypeOK
<1>2. session[p] = session[c]
  BY DEF setpgid, MayMove
<1>3. GroupOpen(c, p, g)
  BY DEF setpgid
<1>4. \A q \in alive : pgrp[q] = g => session[q] = session[p]
  <2>1. CASE g = p
    BY <1>1, <2>1 DEF GroupsInv, NumberedGroup
  <2>2. CASE g # p
    BY <1>2, <1>3, <2>2 DEF GroupOpen, Members, GroupsInv, OneSession
  <2> QED BY <2>1, <2>2
<1>5. g \in alive => session[g] = session[p]
  <2>1. CASE g = p
    BY <2>1
  <2>2. CASE g # p
    BY <1>2, <1>3, <2>2 DEF GroupOpen, Members, GroupsInv, NumberedGroup
  <2> QED BY <2>1, <2>2
<1> HIDE DEF p, g
<1>6. GroupsTypeOK'
  BY <1>1 DEF GroupsInv, GroupsTypeOK
<1>7. OneSession'
  BY <1>1, <1>4 DEF GroupsInv, GroupsTypeOK, OneSession
<1>8. LeaderHome'
  BY <1>1 DEF GroupsInv, GroupsTypeOK, LeaderHome
<1>9. NumberedGroup'
  BY <1>1, <1>5 DEF GroupsInv, GroupsTypeOK, NumberedGroup
<1> QED BY <1>6, <1>7, <1>8, <1>9 DEF GroupsInv

\* setsid starts a group nobody else is in.
LEMMA SetsidKeeps ==
  ASSUME GroupsInv, NEW c \in Pids, setsid(c)
  PROVE  GroupsInv'
<1> USE DEF GroupsInv, setsid, MayLead, Members
<1>1. GroupsTypeOK'
  BY DEF GroupsTypeOK
<1>2. OneSession'
  BY DEF GroupsTypeOK, OneSession
<1>3. LeaderHome'
  BY DEF GroupsTypeOK, LeaderHome
<1>4. NumberedGroup'
  BY DEF GroupsTypeOK, NumberedGroup
<1> QED BY <1>1, <1>2, <1>3, <1>4

\* Every step keeps the invariant.
LEMMA GroupsInvNext == GroupsInv /\ [GroupsNext]_groupVars => GroupsInv'
<1> SUFFICES ASSUME GroupsInv, [GroupsNext]_groupVars PROVE GroupsInv'
  OBVIOUS
<1>1. CASE UNCHANGED groupVars
  BY <1>1 DEF groupVars, GroupsInv, GroupsTypeOK, OneSession, LeaderHome, NumberedGroup
<1>2. ASSUME NEW p \in Pids, SetGroups(p) PROVE GroupsInv'
  BY <1>2, SetpgidKeeps, SetsidKeeps DEF SetGroups
<1>3. ASSUME NEW p \in Pids, Exec(p) PROVE GroupsInv'
  BY <1>3 DEF Exec, GroupsInv, GroupsTypeOK, OneSession, LeaderHome, NumberedGroup
<1>4. ASSUME NEW p \in Pids, NEW r \in alive, Exit(p, r) PROVE GroupsInv'
  BY <1>4, ExitKeeps
<1>5. ASSUME NEW p \in Pids, NEW c \in Pids, Fork(p, c) PROVE GroupsInv'
  BY <1>5, ForkKeeps
<1> QED BY <1>1, <1>2, <1>3, <1>4, <1>5 DEF GroupsNext

\* setpgid, setsid, fork, exec and exit keep every process group in one session, for
\* any number of processes and any use of process IDs.
THEOREM GroupInOneSession == GroupsSpec => []OneSession
<1>1. GroupsInv => OneSession
  BY DEF GroupsInv
<1> QED BY GroupsInvInit, GroupsInvNext, <1>1, PTL DEF GroupsSpec

\* A session leader never leaves the group and session of its own number: setpgid does
\* not move it and setsid does not take another.
THEOREM LeaderStaysHome == GroupsSpec => []LeaderHome
<1>1. GroupsInv => LeaderHome
  BY DEF GroupsInv
<1> QED BY GroupsInvInit, GroupsInvNext, <1>1, PTL DEF GroupsSpec

-----------------------------------------------------------------------------
(* Subreapers.                                                              *)

\* Each step is one of ProcessGroups or leaves the groups alone.
LEMMA ReapersStepsOfGroups == [ReapersNext]_<<groupVars, reaperVars>> => [GroupsNext]_groupVars
<1> SUFFICES ASSUME ReapersNext PROVE [GroupsNext]_groupVars
  OBVIOUS
<1> PICK p \in Pids : \/ SetGroups(p) \/ Exec(p) \/ ReaperCall(p) \/ ExitReaped(p)
                      \/ \E c \in Pids : ForkFlagged(p, c)
  BY DEF ReapersNext
<1>1. CASE ReaperCall(p)
  <2>1. UNCHANGED groupVars
    BY <1>1, Zenon
    DEF ReaperCall, prctl, walk_process_tree, propagate_has_child_subreaper, WalkReturn
  <2> QED BY <2>1
<1>2. CASE ExitReaped(p)
  BY <1>2 DEF ExitReaped, GroupsNext
<1>3. ASSUME NEW c \in Pids, ForkFlagged(p, c) PROVE GroupsNext
  BY <1>3 DEF ForkFlagged, GroupsNext
<1> QED BY <1>1, <1>2, <1>3 DEF GroupsNext

\* The subreapers' calls change nothing that the process groups' own specification
\* would not allow.
THEOREM ReapersImplementGroups == ReapersSpec => GroupsSpec
  BY ReapersStepsOfGroups, PTL DEF ReapersSpec, GroupsSpec

-----------------------------------------------------------------------------
(* The invariant.                                                           *)

\* The process has the flag, or some walk is still to visit it.
Marked(q) == q \in has_child_subreaper \/ \E c \in Pids : q \in walk[c].left

\* The children of the process must be marked.
Marks(p) ==
  p \in has_child_subreaper \/ (p \in is_child_subreaper /\ walk[p].at # "flagged")

\* What SubreapersFound says of ancestors, said of parents, with the walks in progress.
ParentsMark == \A q \in alive \ {InitPid} : Marks(real_parent[q]) => Marked(q)

\* Only walks have processes to visit.
OnlyWalksVisit == \A c \in Pids : walk[c].at # "walking" => walk[c].left = {}

\* Parents lead up to the first process: no other set of processes has all of its
\* members' parents.  An orphan without the flag becomes the first process's child, and
\* this is why that one is then no subreaper whose walk is over.
Rooted ==
  /\ real_parent[InitPid] = InitPid
  /\ \A S \in SUBSET alive : S # {} /\ (\A q \in S : real_parent[q] \in S) => InitPid \in S

ReapersInv == GroupsInv /\ ReapersTypeOK /\ OnlyWalksVisit /\ ParentsMark /\ Rooted

\* The initial states have it.
LEMMA ReapersInvInit == GroupsInit /\ ReapersInit => ReapersInv
<1> SUFFICES ASSUME GroupsInit, ReapersInit PROVE ReapersInv
  OBVIOUS
<1>1. GroupsInv
  BY GroupsInvInit
<1>2. ReapersTypeOK /\ OnlyWalksVisit
  BY <1>1 DEF ReapersInit, ReapersTypeOK, OnlyWalksVisit, NoWalk
<1>3. ParentsMark
  BY DEF ReapersInit, ParentsMark, Marks
<1>4. Rooted
  BY <1>1, GroupsAssumption DEF GroupsInit, Rooted, GroupsInv, GroupsTypeOK
<1> QED BY <1>1, <1>2, <1>3, <1>4 DEF ReapersInv

\* With no walk in progress the marked processes are those with the flag.
LEMMA MarkedWithoutWalks ==
  ASSUME ReapersInv, ~Walks
  PROVE  /\ \A c \in Pids : walk[c].left = {}
         /\ \A q : Marked(q) <=> q \in has_child_subreaper
  BY DEF ReapersInv, OnlyWalksVisit, Walks, Marked

\* The tree leads up to the first process after a fork.
LEMMA ForkRooted ==
  ASSUME ReapersInv, NEW p \in Pids, NEW c \in Pids, Fork(p, c)
  PROVE  Rooted'
<1>1. /\ c \in Pids \ alive /\ p \in alive /\ alive' = alive \cup {c}
      /\ real_parent' = [real_parent EXCEPT ![c] = p]
      /\ real_parent \in [Pids -> alive] /\ alive \subseteq Pids /\ InitPid \in alive
  BY DEF Fork, InUse, ReapersInv, GroupsInv, GroupsTypeOK
<1>2. real_parent'[InitPid] = InitPid
  BY <1>1 DEF ReapersInv, Rooted
<1>3. ASSUME NEW S \in SUBSET alive', S # {}, \A q \in S : real_parent'[q] \in S
      PROVE  InitPid \in S
  <2> DEFINE T == S \ {c}
  <2>1. T \in SUBSET alive
    BY <1>1
  <2>2. T # {}
    BY <1>1, <1>3
  <2>3. \A q \in T : real_parent[q] \in T
    BY <1>1, <1>3
  <2> QED BY <2>1, <2>2, <2>3 DEF ReapersInv, Rooted
<1> QED BY <1>2, <1>3 DEF Rooted

\* And after an exit, the children of the process going to the reaper found.
LEMMA ExitRooted ==
  ASSUME ReapersInv, NEW p \in Pids, NEW r \in alive, find_new_reaper(p, r), Exit(p, r)
  PROVE  Rooted'
<1>1. /\ p \in alive \ {InitPid} /\ r \in alive \ {p} /\ alive' = alive \ {p}
      /\ real_parent \in [Pids -> alive] /\ alive \subseteq Pids /\ InitPid \in alive
      /\ real_parent' = [q \in Pids |-> IF q = p THEN InitPid
                                        ELSE IF real_parent[q] = p THEN r ELSE real_parent[q]]
  BY DEF Exit, ReapersInv, GroupsInv, GroupsTypeOK
<1>2. real_parent'[InitPid] = InitPid
  BY <1>1 DEF ReapersInv, Rooted
<1>3. ASSUME NEW S \in SUBSET alive', S # {}, \A q \in S : real_parent'[q] \in S,
             InitPid \notin S
      PROVE  FALSE
  <2>1. CASE \A q \in S : real_parent[q] # p
    <3>1. \A q \in S : real_parent[q] \in S
      BY <1>1, <1>3, <2>1
    <3> QED BY <1>1, <1>3, <3>1 DEF ReapersInv, Rooted
  <2>2. CASE \E q \in S : real_parent[q] = p
    <3>1. r \in S
      BY <1>1, <1>3, <2>2
    <3>2. PICK passed \in SUBSET (alive \ {InitPid, r}) :
            p \in passed /\ \A q \in passed : real_parent[q] \in passed \cup {r}
      BY <1>3, <3>1 DEF find_new_reaper, Nearest
    <3> DEFINE T == S \cup passed
    <3>3. T \in SUBSET alive /\ T # {} /\ InitPid \notin T
      BY <1>1, <1>3, <3>2
    <3>4. \A q \in T : real_parent[q] \in T
      BY <1>1, <1>3, <3>1, <3>2
    <3> QED BY <3>3, <3>4 DEF ReapersInv, Rooted
  <2> QED BY <2>1, <2>2
<1> QED BY <1>2, <1>3 DEF Rooted

\* If a process is without the flag and no walk is in progress, the first process does
\* not mark its children.
LEMMA UnmarkedFromTheFirst ==
  ASSUME ReapersInv, ~Walks, NEW p \in alive \ {InitPid}, p \notin has_child_subreaper
  PROVE  ~Marks(InitPid)
<1> SUFFICES ASSUME Marks(InitPid) PROVE FALSE
  OBVIOUS
<1> DEFINE S == {q \in alive \ {InitPid} : q \notin has_child_subreaper}
<1>1. real_parent \in [Pids -> alive] /\ alive \subseteq Pids
  BY DEF ReapersInv, GroupsInv, GroupsTypeOK
<1>2. \A q \in S : real_parent[q] \in S
  BY <1>1, MarkedWithoutWalks DEF ReapersInv, ParentsMark, Marks
<1>3. S \in SUBSET alive /\ S # {} /\ InitPid \notin S
  OBVIOUS
<1> QED BY <1>2, <1>3 DEF ReapersInv, Rooted

\* The calls on the flags keep the invariant.
LEMMA ReaperCallKeeps ==
  ASSUME ReapersInv, NEW c \in Pids, ReaperCall(c)
  PROVE  ReapersTypeOK' /\ OnlyWalksVisit' /\ ParentsMark' /\ Rooted'
<1> DEFINE W == [at : {"none", "flagged", "walking"}, left : SUBSET (alive \ {InitPid})]
<1>1. /\ alive' = alive /\ real_parent' = real_parent
      /\ alive \subseteq Pids /\ real_parent \in [Pids -> alive]
      /\ walk \in [Pids -> W] /\ is_child_subreaper \subseteq alive
      /\ has_child_subreaper \subseteq alive \ {InitPid}
  BY DEF ReaperCall, prctl, walk_process_tree, propagate_has_child_subreaper, WalkReturn,
         groupVars, ReapersInv, GroupsInv, GroupsTypeOK, ReapersTypeOK
<1>2. Rooted'
  BY <1>1 DEF ReapersInv, Rooted
<1>3. ASSUME NEW on \in BOOLEAN, prctl(c, on)
      PROVE  ReapersTypeOK' /\ OnlyWalksVisit' /\ ParentsMark'
  <2>1. /\ c \in alive /\ has_child_subreaper' = has_child_subreaper
        /\ walk[c].at # "walking"
        /\ \/ /\ is_child_subreaper' = is_child_subreaper \cup {c}
              /\ walk' = [walk EXCEPT ![c].at = "flagged"]
           \/ is_child_subreaper' = is_child_subreaper \ {c} /\ walk' = walk
    BY <1>3 DEF prctl, NoWalk
  <2>2. \A q \in Pids : walk'[q].left = walk[q].left
    BY <1>1, <2>1
  <2>3. ReapersTypeOK'
    BY <1>1, <2>1 DEF ReapersTypeOK
  <2>4. OnlyWalksVisit'
    BY <1>1, <2>1 DEF ReapersInv, OnlyWalksVisit
  <2>5. \A q \in Pids : Marks(q)' => Marks(q)
    BY <1>1, <2>1 DEF Marks
  <2>6. \A q : Marked(q) => Marked(q)'
    BY <2>1, <2>2 DEF Marked
  <2> QED BY <1>1, <2>3, <2>4, <2>5, <2>6 DEF ReapersInv, ParentsMark
<1>4. ASSUME walk_process_tree(c) PROVE ReapersTypeOK' /\ OnlyWalksVisit' /\ ParentsMark'
  <2> DEFINE k == [at |-> "walking", left |-> Children(c)]
  <2>1. /\ UNCHANGED <<is_child_subreaper, has_child_subreaper>>
        /\ walk[c].at = "flagged" /\ walk' = [walk EXCEPT ![c] = k]
    BY <1>4 DEF walk_process_tree
  <2>2. k \in W /\ k.at = "walking" /\ k.left = Children(c)
    BY DEF Children
  <2>3. \A q \in alive \ {InitPid} : real_parent[q] = c => q \in k.left
    BY <2>2 DEF Children
  <2> HIDE DEF k
  <2>4. ReapersTypeOK'
    BY <1>1, <2>1, <2>2 DEF ReapersTypeOK
  <2>5. OnlyWalksVisit'
    BY <1>1, <2>1, <2>2 DEF ReapersInv, OnlyWalksVisit
  <2>6. \A q \in Pids : q # c /\ Marks(q)' => Marks(q)
    BY <1>1, <2>1 DEF Marks
  <2>7. \A q : Marked(q) => Marked(q)'
    <3>1. walk[c].left = {}
      BY <2>1 DEF ReapersInv, OnlyWalksVisit
    <3> QED BY <1>1, <2>1, <3>1 DEF Marked
  <2>8. \A q \in alive \ {InitPid} : real_parent[q] = c => Marked(q)'
    BY <1>1, <2>1, <2>3 DEF Marked
  <2> QED BY <1>1, <2>4, <2>5, <2>6, <2>7, <2>8 DEF ReapersInv, ParentsMark
<1>5. ASSUME propagate_has_child_subreaper(c)
      PROVE  ReapersTypeOK' /\ OnlyWalksVisit' /\ ParentsMark'
  <2>1. PICK p \in walk[c].left :
          /\ has_child_subreaper' = has_child_subreaper \cup {p}
          /\ walk' = [walk EXCEPT ![c].left = (@ \ {p}) \cup Below(p)]
    BY <1>5 DEF propagate_has_child_subreaper
  <2>2. /\ is_child_subreaper' = is_child_subreaper /\ walk[c].at = "walking"
        /\ p \in alive \ {InitPid}
    BY <1>1, <1>5 DEF propagate_has_child_subreaper
  <2>3. Below(p) \in SUBSET (alive \ {InitPid})
    BY DEF Below, Children
  <2> DEFINE k == [walk[c] EXCEPT !.left = (walk[c].left \ {p}) \cup Below(p)]
  <2>4. /\ k \in W /\ k.at = "walking" /\ k.left = (walk[c].left \ {p}) \cup Below(p)
    BY <1>1, <2>2, <2>3
  <2>5. walk' = [walk EXCEPT ![c] = k]
    BY <1>1, <2>1
  <2> HIDE DEF k
  <2>6. ReapersTypeOK'
    BY <1>1, <2>1, <2>2, <2>4, <2>5 DEF ReapersTypeOK
  <2>7. OnlyWalksVisit'
    BY <1>1, <2>4, <2>5 DEF ReapersInv, OnlyWalksVisit
  <2>8. \A q \in Pids : q # p /\ Marks(q)' => Marks(q)
    BY <1>1, <2>1, <2>2, <2>4, <2>5 DEF Marks
  <2>9. \A q : Marked(q) => Marked(q)'
    BY <1>1, <2>1, <2>4, <2>5 DEF Marked
  <2>10. \A q \in alive \ {InitPid} : real_parent[q] = p => Marked(q)'
    <3>1. CASE p \in has_child_subreaper
      BY <3>1, <2>9 DEF ReapersInv, ParentsMark, Marks
    <3>2. CASE p \notin has_child_subreaper
      <4>1. \A q \in alive \ {InitPid} : real_parent[q] = p => q \in k.left
        BY <2>4, <3>2 DEF Below, Children
      <4> QED BY <1>1, <2>5, <4>1 DEF Marked
    <3> QED BY <3>1, <3>2
  <2> QED BY <1>1, <2>6, <2>7, <2>8, <2>9, <2>10 DEF ReapersInv, ParentsMark
<1>6. ASSUME WalkReturn(c) PROVE ReapersTypeOK' /\ OnlyWalksVisit' /\ ParentsMark'
  <2>1. /\ UNCHANGED <<is_child_subreaper, has_child_subreaper>>
        /\ walk[c].at = "walking" /\ walk[c].left = {}
        /\ walk' = [walk EXCEPT ![c] = NoWalk]
    BY <1>6 DEF WalkReturn
  <2>2. NoWalk \in W /\ NoWalk.at = "none" /\ NoWalk.left = {}
    BY DEF NoWalk
  <2>3. ReapersTypeOK'
    BY <1>1, <2>1, <2>2 DEF ReapersTypeOK
  <2>4. OnlyWalksVisit'
    BY <1>1, <2>1, <2>2 DEF ReapersInv, OnlyWalksVisit
  <2>5. \A q \in Pids : Marks(q)' => Marks(q)
    BY <1>1, <2>1, <2>2 DEF Marks
  <2>6. \A q : Marked(q) => Marked(q)'
    BY <1>1, <2>1, <2>2 DEF Marked
  <2> QED BY <1>1, <2>3, <2>4, <2>5, <2>6 DEF ReapersInv, ParentsMark
<1> QED BY <1>2, <1>3, <1>4, <1>5, <1>6 DEF ReaperCall

\* fork keeps it: the child is marked if its parent marks.
LEMMA ForkFlaggedKeeps ==
  ASSUME ReapersInv, NEW p \in Pids, NEW c \in Pids, ForkFlagged(p, c)
  PROVE  ReapersTypeOK' /\ OnlyWalksVisit' /\ ParentsMark' /\ Rooted'
<1>1. /\ c \in Pids \ alive /\ p \in alive /\ alive' = alive \cup {c}
      /\ real_parent' = [real_parent EXCEPT ![c] = p]
      /\ real_parent \in [Pids -> alive] /\ alive \subseteq Pids /\ InitPid \in alive
      /\ is_child_subreaper' = is_child_subreaper /\ walk' = walk
      /\ is_child_subreaper \subseteq alive /\ has_child_subreaper \subseteq alive \ {InitPid}
      /\ walk \in [Pids -> [at : {"none", "flagged", "walking"},
                            left : SUBSET (alive \ {InitPid})]]
  BY DEF ForkFlagged, Fork, InUse, ReapersInv, GroupsInv, GroupsTypeOK, ReapersTypeOK
<1>2. has_child_subreaper' =
        IF p \in has_child_subreaper \cup is_child_subreaper
        THEN has_child_subreaper \cup {c} ELSE has_child_subreaper
  BY DEF ForkFlagged
<1>3. /\ \A q \in Pids : walk[q].left = {}
      /\ \A q : Marked(q) <=> q \in has_child_subreaper
  BY MarkedWithoutWalks DEF ForkFlagged
<1>4. ReapersTypeOK'
  <2>1. \A q \in Pids : walk'[q] \in [at : {"none", "flagged", "walking"},
                                      left : SUBSET (alive' \ {InitPid})]
    BY <1>1
  <2> QED BY <1>1, <1>2, <2>1 DEF ReapersTypeOK
<1>5. OnlyWalksVisit'
  BY <1>1 DEF ReapersInv, OnlyWalksVisit
<1>6. ASSUME NEW q \in alive' \ {InitPid}, Marks(real_parent[q])' PROVE Marked(q)'
  <2>1. CASE q = c
    <3>1. real_parent'[q] = p /\ p # c
      BY <1>1, <2>1
    <3>2. p \in has_child_subreaper' \/ p \in is_child_subreaper'
      BY <1>6, <3>1 DEF Marks
    <3>3. q \in has_child_subreaper'
      BY <1>1, <1>2, <2>1, <3>1, <3>2
    <3> QED BY <3>3 DEF Marked
  <2>2. CASE q # c
    <3>1. q \in alive \ {InitPid} /\ real_parent'[q] = real_parent[q] /\ real_parent[q] # c
      BY <1>1, <2>2
    <3>2. Marks(real_parent[q])
      BY <1>1, <1>2, <1>6, <3>1 DEF Marks
    <3>3. q \in has_child_subreaper
      BY <1>3, <3>1, <3>2 DEF ReapersInv, ParentsMark
    <3> QED BY <1>2, <3>3 DEF Marked
  <2> QED BY <2>1, <2>2
<1>7. Rooted'
  BY ForkRooted DEF ForkFlagged
<1> QED BY <1>4, <1>5, <1>6, <1>7 DEF ParentsMark

\* exit keeps it: orphans with the flag may go anywhere, those without it go to the first
\* process, which does not mark them.
LEMMA ExitReapedKeeps ==
  ASSUME ReapersInv, NEW p \in Pids, ExitReaped(p)
  PROVE  ReapersTypeOK' /\ OnlyWalksVisit' /\ ParentsMark' /\ Rooted'
<1>0. PICK r \in alive : find_new_reaper(p, r) /\ Exit(p, r)
  BY DEF ExitReaped
<1>1. /\ p \in alive \ {InitPid} /\ r \in alive \ {p} /\ alive' = alive \ {p}
      /\ real_parent \in [Pids -> alive] /\ alive \subseteq Pids /\ InitPid \in alive
      /\ real_parent' = [q \in Pids |-> IF q = p THEN InitPid
                                        ELSE IF real_parent[q] = p THEN r ELSE real_parent[q]]
      /\ walk \in [Pids -> [at : {"none", "flagged", "walking"},
                            left : SUBSET (alive \ {InitPid})]]
  BY <1>0 DEF Exit, ReapersInv, GroupsInv, GroupsTypeOK, ReapersTypeOK
<1>2. /\ is_child_subreaper' = is_child_subreaper \ {p} /\ walk' = walk
      /\ has_child_subreaper' = has_child_subreaper \ {p}
      /\ is_child_subreaper \subseteq alive /\ has_child_subreaper \subseteq alive \ {InitPid}
  BY DEF ExitReaped, ReapersInv, ReapersTypeOK
<1>3. /\ \A q \in Pids : walk[q].left = {}
      /\ \A q : Marked(q) <=> q \in has_child_subreaper
  BY MarkedWithoutWalks DEF ExitReaped
<1>4. ReapersTypeOK'
  <2>1. \A q \in Pids : walk'[q] \in [at : {"none", "flagged", "walking"},
                                      left : SUBSET (alive' \ {InitPid})]
    BY <1>1, <1>2, <1>3
  <2> QED BY <1>1, <1>2, <2>1 DEF ReapersTypeOK
<1>5. OnlyWalksVisit'
  BY <1>2 DEF ReapersInv, OnlyWalksVisit
<1>6. ASSUME NEW q \in alive' \ {InitPid}, Marks(real_parent[q])' PROVE Marked(q)'
  <2>1. q \in alive \ {InitPid} /\ q # p
    BY <1>1
  <2>2. \A x \in Pids : Marks(x)' => Marks(x)
    BY <1>2 DEF Marks
  <2>3. q \in has_child_subreaper
    <3>1. CASE real_parent[q] # p
      <4>1. Marks(real_parent[q])
        BY <1>1, <1>6, <2>1, <2>2, <3>1
      <4> QED BY <1>3, <2>1, <4>1 DEF ReapersInv, ParentsMark
    <3>2. CASE real_parent[q] = p /\ p \in has_child_subreaper
      BY <1>3, <2>1, <3>2 DEF ReapersInv, ParentsMark, Marks
    <3>3. CASE real_parent[q] = p /\ p \notin has_child_subreaper
      <4>1. real_parent'[q] = InitPid
        BY <1>0, <1>1, <2>1, <3>3 DEF find_new_reaper
      <4>2. Marks(InitPid)
        BY <1>1, <1>6, <2>2, <4>1
      <4> QED BY <1>1, <3>3, <4>2, UnmarkedFromTheFirst DEF ExitReaped
    <3> QED BY <3>1, <3>2, <3>3
  <2> QED BY <1>2, <2>1, <2>3 DEF Marked
<1>7. Rooted'
  BY <1>0, ExitRooted
<1> QED BY <1>4, <1>5, <1>6, <1>7 DEF ParentsMark

\* Every step keeps it.
LEMMA ReapersInvNext == ReapersInv /\ [ReapersNext]_<<groupVars, reaperVars>> => ReapersInv'
<1> SUFFICES ASSUME ReapersInv, [ReapersNext]_<<groupVars, reaperVars>> PROVE ReapersInv'
  OBVIOUS
<1>1. GroupsInv'
  BY ReapersStepsOfGroups, GroupsInvNext DEF ReapersInv
<1>2. ASSUME alive' = alive, real_parent' = real_parent, UNCHANGED reaperVars
      PROVE  ReapersTypeOK' /\ OnlyWalksVisit' /\ ParentsMark' /\ Rooted'
  BY <1>2 DEF ReapersInv, reaperVars, ReapersTypeOK, OnlyWalksVisit, ParentsMark, Rooted,
              Marks, Marked
<1>3. CASE UNCHANGED <<groupVars, reaperVars>>
  BY <1>1, <1>2, <1>3 DEF groupVars, ReapersInv
<1>4. ASSUME NEW p \in Pids, SetGroups(p) \/ Exec(p), UNCHANGED reaperVars PROVE ReapersInv'
  <2>1. alive' = alive /\ real_parent' = real_parent
    BY <1>4 DEF SetGroups, setsid, setpgid, Exec
  <2> QED BY <1>1, <1>2, <1>4, <2>1 DEF ReapersInv
<1>5. ASSUME NEW p \in Pids, ReaperCall(p) PROVE ReapersInv'
  BY <1>1, <1>5, ReaperCallKeeps DEF ReapersInv
<1>6. ASSUME NEW p \in Pids, ExitReaped(p) PROVE ReapersInv'
  BY <1>1, <1>6, ExitReapedKeeps DEF ReapersInv
<1>7. ASSUME NEW p \in Pids, NEW c \in Pids, ForkFlagged(p, c) PROVE ReapersInv'
  BY <1>1, <1>7, ForkFlaggedKeeps DEF ReapersInv
<1> QED BY <1>3, <1>4, <1>5, <1>6, <1>7 DEF ReapersNext

\* What holds of parents holds of ancestors: the processes that do not mark are closed
\* under parents, up from a process without the flag.
LEMMA FoundFromInv == ReapersInv => SubreapersFound
<1> SUFFICES ASSUME ReapersInv, ~Walks, NEW a \in is_child_subreaper, NEW p \in alive \ {InitPid},
                    walk[a].at # "flagged", Above(a, p), p \notin has_child_subreaper
             PROVE  FALSE
  BY DEF SubreapersFound
<1> DEFINE S == {q \in alive : ~Marks(q)}
<1>1. real_parent \in [Pids -> alive] /\ alive \subseteq Pids /\ InitPid \in alive
  BY DEF ReapersInv, GroupsInv, GroupsTypeOK
<1>2. \A q \in alive \ {InitPid} : q \notin has_child_subreaper => real_parent[q] \in S
  BY <1>1, MarkedWithoutWalks DEF ReapersInv, ParentsMark
<1>3. \A q \in S : real_parent[q] \in S
  <2>1. InitPid \in S => real_parent[InitPid] \in S
    BY DEF ReapersInv, Rooted
  <2> QED BY <1>2, <2>1 DEF Marks
<1>4. S \in SUBSET alive /\ real_parent[p] \in S
  BY <1>2
<1>5. a \in S
  BY <1>3, <1>4 DEF Above
<1> QED BY <1>5 DEF Marks

\* Whenever a process can exit, every process below a subreaper whose walk has begun
\* has the flag that makes exit look for it: for any number of processes, walks, forks
\* and exits.
THEOREM EverySubreaperFound == ReapersSpec => []SubreapersFound
  BY ReapersInvInit, ReapersInvNext, FoundFromInv, PTL DEF ReapersSpec

-----------------------------------------------------------------------------
(* Priorities implements Subreapers, and with it ProcessGroups.             *)

\* Each step of Priorities is a step of Subreapers or leaves its state alone.
LEMMA StepsOfReapers == [Next]_vars => [ReapersNext]_<<groupVars, reaperVars>>
<1> SUFFICES ASSUME [Next]_vars PROVE [ReapersNext]_<<groupVars, reaperVars>>
  OBVIOUS
<1>1. CASE UNCHANGED vars
  BY <1>1 DEF vars
<1>2. CASE Next
  <2> PICK p \in Pids :
        \/ ChangeGroups(p) \/ CallReaper(p) \/ ExecProgram(p) \/ ExitProcess(p)
        \/ \E c \in Pids : ForkChild(p, c)
        \/ UNCHANGED <<groupVars, reaperVars>>
    BY <1>2, Zenon DEF Next, setpriority, SetNext, SetReturn, prlimit64, do_prlimit
  <2>1. CASE ChangeGroups(p)
    BY <2>1 DEF ChangeGroups, WriteLock, Free, ReapersNext
  <2>2. CASE ExecProgram(p)
    BY <2>2 DEF ExecProgram, Free, ReapersNext
  <2> QED BY <2>1, <2>2 DEF CallReaper, ExitProcess, ForkChild, ReapersNext
<1> QED BY <1>1, <1>2

\* The calls on priorities and limits, with the locks they take, change nothing that
\* the specification of subreapers, and of process groups, would not allow.
THEOREM ImplementsReapers == Spec => ReapersSpec
<1>1. Init => GroupsInit /\ ReapersInit
  BY DEF Init
<1> QED BY <1>1, StepsOfReapers, PTL DEF Spec, ReapersSpec

\* So a process group lies within one session here too.
THEOREM OneSessionWithCalls == Spec => []OneSession
  BY ImplementsReapers, ReapersImplementGroups, GroupInOneSession, PTL

\* And subreapers are found here too.
THEOREM SubreapersFoundWithCalls == Spec => []SubreapersFound
  BY ImplementsReapers, EverySubreaperFound, PTL

-----------------------------------------------------------------------------
(* The invariant.                                                           *)

\* can_nice looks at the soft limit, the ceiling is the hard one; a caller cannot exit
\* in its call.
LimitsInv ==
  /\ ReapersInv /\ TypeOK
  /\ \A p \in Pids : task[p].cur <= task[p].max
  /\ \A c \in Pids : call[c] \in Limitings => call[c].new.cur <= call[c].new.max
  /\ \A c \in Pids : call[c] # Idle => c \in alive

\* Which record a call in progress is.
LEMMA CallKinds ==
  ASSUME NEW k \in {Idle} \cup Settings \cup Limitings
  PROVE  /\ k.kind = "setpriority" <=> k \in Settings
         /\ k.kind = "prlimit" <=> k \in Limitings
         /\ k = Idle => k \notin Settings \cup Limitings
  BY DEF Idle, Settings, Limitings

\* What the steps of setpriority make of its record.
LEMMA EditedSettings ==
  ASSUME NEW k \in Settings
  PROVE  /\ [k EXCEPT !.alone = FALSE] \in Settings
         /\ \A S \in SUBSET Pids : [k EXCEPT !.left = S] \in Settings
         /\ \A S \in SUBSET Pids, e \in {"EPERM", "EACCES"} :
              [k EXCEPT !.left = S, !.error = e] \in Settings
         /\ \A S, T \in SUBSET Pids :
              [k EXCEPT !.left = S, !.error = AfterSuccess(k.error), !.set = T] \in Settings
  BY DEF Settings, AfterSuccess

\* The calls in progress, by kind.
LEMMA CallsByKind ==
  ASSUME TypeOK, NEW q \in Pids
  PROVE  /\ call[q] \in {Idle} \cup Settings \cup Limitings
         /\ Setting(q) <=> call[q] \in Settings
         /\ call[q].kind = "prlimit" <=> call[q] \in Limitings
         /\ call[q] = Idle => call[q] \notin Settings \cup Limitings
         /\ call[q] \in Settings => call[q] \notin Limitings
<1>1. call[q] \in {Idle} \cup Settings \cup Limitings
  BY DEF TypeOK
<1>2. \A x \in Settings : x \notin Limitings
  BY DEF Settings, Limitings
<1> QED BY <1>1, <1>2, CallKinds DEF Setting

\* The clamped value is in range.
LEMMA ClampInRange == \A v \in Int : Clamp(v) \in MIN_NICE .. MAX_NICE
  BY PrioritiesAssumption DEF Clamp

\* The initial states have it.
LEMMA LimitsInvInit == Init => LimitsInv
<1> SUFFICES ASSUME Init PROVE LimitsInv
  OBVIOUS
<1>1. ReapersInv
  BY ReapersInvInit DEF Init
<1>2. PICK hard \in Limits :
        task = [p \in Pids |-> IF p \in alive THEN Task(Owner[p], 0, hard) ELSE NoTask]
  BY DEF Init
<1>3. \A u \in Users, h \in Nat : Task(u, 0, h) \in Tasks /\ Task(u, 0, h).cur <= Task(u, 0, h).max
  BY PrioritiesAssumption DEF Task, Tasks
<1>4. NoTask \in Tasks /\ NoTask.cur <= NoTask.max
  BY <1>3, PrioritiesAssumption DEF NoTask
<1>5. \A p \in Pids : task[p] \in Tasks /\ task[p].cur <= task[p].max
  BY <1>2, <1>3, <1>4, PrioritiesAssumption
<1>6. \A c \in Pids : call[c] = Idle
  BY DEF Init
<1>7. Idle \notin Limitings
  BY DEF Idle, Limitings
<1> QED BY <1>1, <1>2, <1>5, <1>6, <1>7 DEF Init, LimitsInv, TypeOK, ReapersInv, GroupsInv

\* setpriority's first step: what it does to calls and processes.
LEMMA SetpriorityEffect ==
  ASSUME LimitsInv, NEW c \in Pids, NEW which \in DOMAIN Who, NEW v \in Nicevals,
         NEW who \in Who[which] \cup {Self}, setpriority(c, which, who, v)
  PROVE  /\ task' = task
         /\ call' \in [Pids -> {Idle} \cup Settings \cup Limitings]
         /\ \A q \in Pids : call'[q] \in Limitings => call'[q] = call[q]
         /\ \A q \in Pids : call'[q] # Idle => call[q] # Idle \/ q \in alive
<1> DEFINE t == Target(c, which, who)
           k == [kind |-> "setpriority", which |-> which, who |-> t,
                 niceval |-> Clamp(v), left |-> Chosen(which, t), error |-> "ESRCH",
                 set |-> {}, alone |-> \A q \in Pids : ~Setting(q)]
<1>1. t \in Pids \cup Users
  BY PrioritiesAssumption
  DEF Target, Who, Process, LimitsInv, TypeOK, GroupsTypeOK, Tasks
<1>2. Chosen(which, t) \in SUBSET Pids
  BY DEF Chosen, Who, Members, LimitsInv, TypeOK, GroupsTypeOK
<1>3. Clamp(v) \in MIN_NICE .. MAX_NICE
  BY ClampInRange, PrioritiesAssumption
<1>4. k \in Settings
  BY <1>1, <1>2, <1>3 DEF Settings
<1>5. \A q \in Pids : Setting(q) => [call[q] EXCEPT !.alone = FALSE] \in Settings
  BY CallsByKind, EditedSettings DEF LimitsInv
<1>6. /\ task' = task /\ c \in alive
      /\ call' = [q \in Pids |-> IF q = c THEN k
                                 ELSE IF Setting(q) THEN [call[q] EXCEPT !.alone = FALSE]
                                 ELSE call[q]]
  BY DEF setpriority
<1>7. \A x \in Settings : x \notin Limitings
  BY DEF Settings, Limitings
<1>8. \A q \in Pids : Setting(q) => call[q] # Idle
  BY CallsByKind DEF LimitsInv
<1> HIDE DEF k
<1> QED BY <1>4, <1>5, <1>6, <1>7, <1>8 DEF LimitsInv, TypeOK

\* setpriority's next step: it sets at most one process, within what can_nice allows.
LEMMA SetNextEffect ==
  ASSUME LimitsInv, NEW c \in Pids, SetNext(c)
  PROVE  /\ call[c] # Idle
         /\ call' \in [Pids -> {Idle} \cup Settings \cup Limitings]
         /\ \A q \in Pids : call'[q] \in Limitings => call'[q] = call[q]
         /\ \A q \in Pids : call'[q] # Idle => call[q] # Idle
         /\ \/ task' = task
            \/ \E p \in Pids, v \in MIN_NICE .. MAX_NICE :
                 /\ v < task[p].nice => can_nice(c, p, v)
                 /\ task' = [task EXCEPT ![p].nice = v]
<1>1. /\ call[c] \in Settings /\ call[c] # Idle /\ call[c] \notin Limitings
      /\ call \in [Pids -> {Idle} \cup Settings \cup Limitings]
  BY CallsByKind DEF SetNext, LimitsInv, TypeOK
<1>2. PICK p \in call[c].left :
        \/ set_one_prio(c, p)
        \/ call' = [call EXCEPT ![c].left = @ \ {p}] /\ UNCHANGED task
  BY DEF SetNext
<1>3. /\ p \in Pids /\ call[c].left \ {p} \in SUBSET Pids
      /\ call[c].niceval \in MIN_NICE .. MAX_NICE /\ call[c].set \cup {p} \in SUBSET Pids
  BY <1>1 DEF Settings
<1>4. \/ task' = task
      \/ /\ call[c].niceval < task[p].nice => can_nice(c, p, call[c].niceval)
         /\ task' = [task EXCEPT ![p].nice = call[c].niceval]
  BY <1>2 DEF set_one_prio, Refused
<1>5. \E k \in Settings : call' = [call EXCEPT ![c] = k]
  <2>1. CASE call' = [call EXCEPT ![c].left = @ \ {p}]
    BY <2>1, <1>1, <1>3, EditedSettings
  <2>2. ASSUME NEW e \in {"EPERM", "EACCES"}, Refused(c, p, e)
        PROVE  \E k \in Settings : call' = [call EXCEPT ![c] = k]
    <3>1. call' = [call EXCEPT ![c] = [call[c] EXCEPT !.left = call[c].left \ {p}, !.error = e]]
      BY <2>2, <1>1 DEF Refused
    <3> QED BY <3>1, <1>1, <1>3, EditedSettings
  <2>3. CASE call' = [call EXCEPT ![c].left = @ \ {p}, ![c].error = AfterSuccess(@),
                                  ![c].set = @ \cup {p}]
    <3>1. call' = [call EXCEPT ![c] = [call[c] EXCEPT !.left = call[c].left \ {p},
                     !.error = AfterSuccess(call[c].error), !.set = call[c].set \cup {p}]]
      BY <2>3, <1>1
    <3> QED BY <3>1, <1>1, <1>3, EditedSettings
  <2> QED BY <1>2, <2>1, <2>2, <2>3 DEF set_one_prio
<1>6. PICK k \in Settings : call' = [call EXCEPT ![c] = k]
  BY <1>5
<1>7. k \notin Limitings
  BY DEF Settings, Limitings
<1>8. /\ call' \in [Pids -> {Idle} \cup Settings \cup Limitings]
      /\ \A q \in Pids : call'[q] \in Limitings => call'[q] = call[q]
      /\ \A q \in Pids : call'[q] # Idle => call[q] # Idle
  BY <1>1, <1>6, <1>7
<1> QED BY <1>1, <1>3, <1>4, <1>8

\* A new nice value, user or limit of one process leaves the rest of it as it was.
LEMMA EditedTasks ==
  ASSUME NEW t \in Tasks
  PROVE  /\ \A v \in MIN_NICE .. MAX_NICE :
              LET u == [t EXCEPT !.nice = v]
              IN  u \in Tasks /\ u.cur = t.cur /\ u.max = t.max /\ u.nice = v
         /\ \A s, h \in Nat :
              LET u == [t EXCEPT !.cur = s, !.max = h]
              IN  u \in Tasks /\ u.cur = s /\ u.max = h /\ u.nice = t.nice
         /\ \A w \in Users :
              LET u == [t EXCEPT !.euid = w]
              IN  u \in Tasks /\ u.cur = t.cur /\ u.max = t.max /\ u.nice = t.nice
         /\ \A w \in Users :
              LET u == [t EXCEPT !.uid = w, !.euid = w]
              IN  u \in Tasks /\ u.cur = t.cur /\ u.max = t.max /\ u.nice = t.nice
  BY DEF Tasks

\* prlimit64's second step: it sets at most one limit, raised only with the capability.
LEMMA PrlimitEffect ==
  ASSUME LimitsInv, NEW c \in Pids, do_prlimit(c)
  PROVE  /\ call[c] # Idle
         /\ call' = [call EXCEPT ![c] = Idle]
         /\ \/ task' = task
            \/ \E p \in Pids, s, h \in Nat :
                 /\ s <= h /\ (h <= task[p].max \/ Capable(c))
                 /\ task' = [task EXCEPT ![p] = [task[p] EXCEPT !.cur = s, !.max = h]]
<1>1. call[c] \in Limitings /\ call[c] # Idle
  BY CallsByKind DEF do_prlimit, LimitsInv
<1>2. /\ call[c].target \in Pids \cup {Gone}
      /\ call[c].new.cur \in Nat /\ call[c].new.max \in Nat
      /\ call[c].new.cur <= call[c].new.max
  BY <1>1 DEF Limitings, LimitsInv
<1>3. \/ task' = task
      \/ /\ call[c].target # Gone /\ Allowed(c, call[c].new, task[call[c].target])
         /\ task' = [task EXCEPT ![call[c].target].cur = call[c].new.cur,
                                 ![call[c].target].max = call[c].new.max]
  BY DEF do_prlimit
<1>4. CASE task' = task
  BY <1>1, <1>4 DEF do_prlimit
<1>5. CASE task' # task
  <2> DEFINE p == call[c].target
             s == call[c].new.cur
             h == call[c].new.max
  <2>1. p \in Pids /\ (h <= task[p].max \/ Capable(c))
    BY <1>2, <1>3, <1>5 DEF Allowed
  <2>2. task \in [Pids -> Tasks]
    BY DEF LimitsInv, TypeOK
  <2>3. task' = [task EXCEPT ![p] = [task[p] EXCEPT !.cur = s, !.max = h]]
    BY <1>3, <1>5, <2>1, <2>2
  <2> QED BY <1>1, <1>2, <2>1, <2>3 DEF do_prlimit
<1> QED BY <1>4, <1>5

\* What is to be shown of a step that is one of the subreapers' too.
LEMMA LimitsInvFrom ==
  ASSUME LimitsInv, [Next]_vars,
         task' \in [Pids -> Tasks], \A p \in Pids : task'[p].cur <= task'[p].max,
         call' \in [Pids -> {Idle} \cup Settings \cup Limitings],
         \A c \in Pids : call'[c] \in Limitings => call'[c].new.cur <= call'[c].new.max,
         \A c \in Pids : call'[c] # Idle => c \in alive'
  PROVE  LimitsInv'
  BY StepsOfReapers, ReapersInvNext DEF LimitsInv, TypeOK, ReapersInv, GroupsInv

\* exec changes users only.
LEMMA ExecEffect ==
  ASSUME LimitsInv, NEW p \in Pids, ExecProgram(p)
  PROVE  /\ task' \in [Pids -> Tasks]
         /\ \A q \in Pids : /\ task'[q].cur = task[q].cur /\ task'[q].max = task[q].max
                            /\ task'[q].nice = task[q].nice
<1>1. task \in [Pids -> Tasks] /\ task[p] \in Tasks
  BY DEF LimitsInv, TypeOK
<1>2. \/ task' = task
      \/ task' = [task EXCEPT ![p] = [task[p] EXCEPT !.euid = Root]]
      \/ \E u \in Users : task' = [task EXCEPT ![p] = [task[p] EXCEPT !.uid = u, !.euid = u]]
  BY <1>1 DEF ExecProgram
<1>3. ASSUME NEW t \in Tasks, task' = [task EXCEPT ![p] = t],
             t.cur = task[p].cur, t.max = task[p].max, t.nice = task[p].nice
      PROVE  /\ task' \in [Pids -> Tasks]
             /\ \A q \in Pids : /\ task'[q].cur = task[q].cur /\ task'[q].max = task[q].max
                                /\ task'[q].nice = task[q].nice
  BY <1>1, <1>3
<1>4. CASE task' = task
  BY <1>1, <1>4
<1>5. CASE task' = [task EXCEPT ![p] = [task[p] EXCEPT !.euid = Root]]
  <2> DEFINE t == [task[p] EXCEPT !.euid = Root]
  <2>1. t \in Tasks /\ t.cur = task[p].cur /\ t.max = task[p].max /\ t.nice = task[p].nice
    BY <1>1, EditedTasks, PrioritiesAssumption
  <2>2. task' = [task EXCEPT ![p] = t]
    BY <1>5
  <2> HIDE DEF t
  <2> QED BY <1>3, <2>1, <2>2
<1>6. ASSUME NEW u \in Users, task' = [task EXCEPT ![p] = [task[p] EXCEPT !.uid = u, !.euid = u]]
      PROVE  /\ task' \in [Pids -> Tasks]
             /\ \A q \in Pids : /\ task'[q].cur = task[q].cur /\ task'[q].max = task[q].max
                                /\ task'[q].nice = task[q].nice
  <2> DEFINE t == [task[p] EXCEPT !.uid = u, !.euid = u]
  <2>1. t \in Tasks /\ t.cur = task[p].cur /\ t.max = task[p].max /\ t.nice = task[p].nice
    BY <1>1, EditedTasks
  <2>2. task' = [task EXCEPT ![p] = t]
    BY <1>6
  <2> HIDE DEF t
  <2> QED BY <1>3, <2>1, <2>2
<1> QED BY <1>2, <1>4, <1>5, <1>6

\* exit leaves calls as they are, but for the targets it takes from them.
LEMMA ExitEffect ==
  ASSUME LimitsInv, NEW p \in Pids, ExitProcess(p)
  PROVE  /\ task' = [task EXCEPT ![p] = NoTask] /\ NoTask \in Tasks /\ NoTask.cur <= NoTask.max
         /\ call' \in [Pids -> {Idle} \cup Settings \cup Limitings]
         /\ \A c \in Pids : call'[c] \in Limitings =>
              call[c] \in Limitings /\ call'[c].new = call[c].new
         /\ \A c \in Pids : call'[c] # Idle => call[c] # Idle /\ c # p
<1>1. task' = [task EXCEPT ![p] = NoTask] /\ NoTask \in Tasks /\ NoTask.cur <= NoTask.max
  BY PrioritiesAssumption DEF ExitProcess, NoTask, Task, Tasks
<1>2. call[p] = Idle
  BY DEF ExitProcess
<1>3. \A k \in Limitings : /\ [k EXCEPT !.target = Gone] \in Limitings
                           /\ [k EXCEPT !.target = Gone].new = k.new
  BY DEF Limitings
<1>4. call' = [c \in Pids |-> IF call[c].kind = "prlimit" /\ call[c].target = p
                             THEN [call[c] EXCEPT !.target = Gone] ELSE call[c]]
  BY DEF ExitProcess
<1>5. \A c \in Pids : /\ call[c] \in {Idle} \cup Settings \cup Limitings
                      /\ call[c].kind = "prlimit" <=> call[c] \in Limitings
                      /\ call[c] = Idle => call[c] \notin Limitings
  BY CallsByKind DEF LimitsInv
<1>6. ASSUME NEW c \in Pids
      PROVE  /\ call'[c] \in {Idle} \cup Settings \cup Limitings
             /\ call'[c] \in Limitings => call[c] \in Limitings /\ call'[c].new = call[c].new
             /\ call'[c] # Idle => call[c] # Idle /\ c # p
  <2>1. CASE call[c] \in Limitings /\ call[c].target = p
    BY <2>1, <1>2, <1>3, <1>4, <1>5
  <2>2. CASE ~(call[c] \in Limitings /\ call[c].target = p)
    BY <2>2, <1>2, <1>4, <1>5
  <2> QED BY <2>1, <2>2
<1>7. DOMAIN call' = Pids /\ call' = [c \in Pids |-> call'[c]]
  BY <1>4
<1> QED BY <1>1, <1>6, <1>7

\* Every step keeps it.
LEMMA LimitsInvNext == LimitsInv /\ [Next]_vars => LimitsInv'
<1> SUFFICES ASSUME LimitsInv, [Next]_vars PROVE LimitsInv'
  OBVIOUS
<1>1. /\ task \in [Pids -> Tasks] /\ \A p \in Pids : task[p].cur <= task[p].max
      /\ call \in [Pids -> {Idle} \cup Settings \cup Limitings]
      /\ \A c \in Pids : call[c] \in Limitings => call[c].new.cur <= call[c].new.max
      /\ \A c \in Pids : call[c] # Idle => c \in alive
      /\ Idle \notin Limitings
  BY DEF LimitsInv, TypeOK, Idle, Limitings
<1>2. CASE UNCHANGED vars
  BY <1>1, <1>2, LimitsInvFrom DEF vars, groupVars
<1>3. ASSUME NEW p \in Pids, ChangeGroups(p) PROVE LimitsInv'
  <2>1. alive' = alive /\ task' = task /\ call' = call
    BY <1>3 DEF ChangeGroups, SetGroups, setsid, setpgid
  <2> QED BY <1>1, <2>1, LimitsInvFrom
<1>4. ASSUME NEW p \in Pids, ExecProgram(p) PROVE LimitsInv'
  <2>1. alive' = alive /\ call' = call
    BY <1>4 DEF ExecProgram, Exec
  <2>2. task' \in [Pids -> Tasks] /\ \A q \in Pids : task'[q].cur <= task'[q].max
    BY <1>1, <1>4, ExecEffect
  <2> QED BY <1>1, <2>1, <2>2, LimitsInvFrom
<1>5. ASSUME NEW p \in Pids, ExitProcess(p) PROVE LimitsInv'
  <2>1. alive' = alive \ {p}
    BY <1>5 DEF ExitProcess, ExitReaped, Exit
  <2>2. task' \in [Pids -> Tasks] /\ \A q \in Pids : task'[q].cur <= task'[q].max
    BY <1>1, <1>5, ExitEffect
  <2>3. /\ call' \in [Pids -> {Idle} \cup Settings \cup Limitings]
        /\ \A c \in Pids : call'[c] \in Limitings => call'[c].new.cur <= call'[c].new.max
        /\ \A c \in Pids : call'[c] # Idle => c \in alive'
    BY <1>1, <1>5, <2>1, ExitEffect
  <2> QED BY <2>2, <2>3, LimitsInvFrom
<1>6. ASSUME NEW p \in Pids, NEW c \in Pids, ForkChild(p, c) PROVE LimitsInv'
  <2>1. alive' = alive \cup {c} /\ call' = call /\ task' = [task EXCEPT ![c] = task[p]]
    BY <1>6 DEF ForkChild, ForkFlagged, Fork
  <2>2. task' \in [Pids -> Tasks] /\ \A q \in Pids : task'[q].cur <= task'[q].max
    BY <1>1, <2>1
  <2> QED BY <1>1, <2>1, <2>2, LimitsInvFrom
<1>7. ASSUME NEW c \in Pids, NEW which \in DOMAIN Who, NEW v \in Nicevals,
             NEW who \in Who[which] \cup {Self}, setpriority(c, which, who, v)
      PROVE  LimitsInv'
  <2>1. alive' = alive
    BY <1>7 DEF setpriority, groupVars
  <2>2. /\ task' = task
        /\ call' \in [Pids -> {Idle} \cup Settings \cup Limitings]
        /\ \A q \in Pids : call'[q] \in Limitings => call'[q] = call[q]
        /\ \A q \in Pids : call'[q] # Idle => call[q] # Idle \/ q \in alive
    BY <1>7, SetpriorityEffect
  <2> QED BY <1>1, <2>1, <2>2, LimitsInvFrom
<1>8. ASSUME NEW c \in Pids, SetNext(c) PROVE LimitsInv'
  <2>1. alive' = alive
    BY <1>8 DEF SetNext, groupVars
  <2>2. task' \in [Pids -> Tasks] /\ \A q \in Pids : task'[q].cur <= task'[q].max
    <3>1. ASSUME NEW p \in Pids, NEW v \in MIN_NICE .. MAX_NICE, task' = [task EXCEPT ![p].nice = v]
          PROVE  task' \in [Pids -> Tasks] /\ \A q \in Pids : task'[q].cur <= task'[q].max
      <4>1. task' = [task EXCEPT ![p] = [task[p] EXCEPT !.nice = v]]
        BY <1>1, <3>1
      <4> DEFINE t == [task[p] EXCEPT !.nice = v]
      <4>2. t \in Tasks /\ t.cur = task[p].cur /\ t.max = task[p].max
        <5>1. task[p] \in Tasks
          BY <1>1
        <5> QED BY <5>1, EditedTasks
      <4>3. task' = [task EXCEPT ![p] = t]
        BY <4>1
      <4> HIDE DEF t
      <4> QED BY <1>1, <4>2, <4>3
    <3> QED BY <1>1, <1>8, <3>1, SetNextEffect
  <2>3. /\ call' \in [Pids -> {Idle} \cup Settings \cup Limitings]
        /\ \A q \in Pids : call'[q] \in Limitings => call'[q] = call[q]
        /\ \A q \in Pids : call'[q] # Idle => call[q] # Idle
    BY <1>8, SetNextEffect
  <2> QED BY <1>1, <2>1, <2>2, <2>3, LimitsInvFrom
<1>9. ASSUME NEW c \in Pids, SetReturn(c) PROVE LimitsInv'
  <2>1. alive' = alive /\ task' = task /\ call' = [call EXCEPT ![c] = Idle]
    BY <1>9 DEF SetReturn, groupVars
  <2> QED BY <1>1, <2>1, LimitsInvFrom
<1>10. ASSUME NEW c \in Pids, NEW pid \in Pids \cup {Self}, NEW s \in Limits, NEW h \in Limits,
              prlimit64(c, pid, [cur |-> s, max |-> h])
       PROVE  LimitsInv'
  <2> DEFINE k == [kind |-> "prlimit", target |-> Process(c, pid), new |-> [cur |-> s, max |-> h]]
  <2>1. alive' = alive /\ task' = task /\ c \in alive /\ call' = [call EXCEPT ![c] = k] /\ s <= h
    BY <1>10 DEF prlimit64, groupVars
  <2>2. Process(c, pid) \in Pids /\ s \in Nat /\ h \in Nat
    BY PrioritiesAssumption DEF Process
  <2>3. k \in Limitings /\ k.new.cur <= k.new.max
    BY <2>1, <2>2 DEF Limitings
  <2> HIDE DEF k
  <2> QED BY <1>1, <2>1, <2>3, LimitsInvFrom
<1>11. ASSUME NEW c \in Pids, do_prlimit(c) PROVE LimitsInv'
  <2>1. alive' = alive
    BY <1>11 DEF do_prlimit, groupVars
  <2>2. task' \in [Pids -> Tasks] /\ \A q \in Pids : task'[q].cur <= task'[q].max
    <3>1. ASSUME NEW p \in Pids, NEW s \in Nat, NEW h \in Nat, s <= h,
                 task' = [task EXCEPT ![p] = [task[p] EXCEPT !.cur = s, !.max = h]]
          PROVE  task' \in [Pids -> Tasks] /\ \A q \in Pids : task'[q].cur <= task'[q].max
      <4> DEFINE t == [task[p] EXCEPT !.cur = s, !.max = h]
      <4>1. t \in Tasks /\ t.cur <= t.max
        <5>1. task[p] \in Tasks
          BY <1>1
        <5> QED BY <3>1, <5>1, EditedTasks
      <4>2. task' = [task EXCEPT ![p] = t]
        BY <3>1
      <4> HIDE DEF t
      <4> QED BY <1>1, <4>1, <4>2
    <3> QED BY <1>1, <1>11, <3>1, PrlimitEffect
  <2>3. call' = [call EXCEPT ![c] = Idle]
    BY <1>11, PrlimitEffect
  <2> QED BY <1>1, <2>1, <2>2, <2>3, LimitsInvFrom
<1>12. ASSUME NEW c \in Pids, CallReaper(c) PROVE LimitsInv'
  <2>1. alive' = alive /\ task' = task /\ call' = call
    BY <1>12 DEF CallReaper, ReaperCall, prctl, walk_process_tree,
                 propagate_has_child_subreaper, WalkReturn, groupVars
  <2> QED BY <1>1, <2>1, LimitsInvFrom
<1>13. CASE Next
  BY <1>3, <1>4, <1>5, <1>6, <1>7, <1>8, <1>9, <1>10, <1>11, <1>12, <1>13, Zenon DEF Next
<1> QED BY <1>2, <1>13

\* The processes, their limits and their calls keep their types whatever is called.
THEOREM TypeCorrectWithCalls == Spec => []TypeOK
<1>1. LimitsInv => TypeOK
  BY DEF LimitsInv
<1> QED BY <1>1, LimitsInvInit, LimitsInvNext, PTL DEF Spec
-----------------------------------------------------------------------------
(* The ceiling.                                                             *)

\* Ceiling, of the record of a process.
CeilingOf(t) == IF t.max > nice_to_rlimit(t.nice) THEN t.max ELSE nice_to_rlimit(t.nice)

\* It is what Ceiling is, before and after a step.
LEMMA CeilingIs ==
  ASSUME NEW p \in Pids
  PROVE  Ceiling(p) = CeilingOf(task[p]) /\ Ceiling(p)' = CeilingOf(task'[p])
  BY DEF Ceiling, CeilingOf, nice_to_rlimit

\* It goes by the nice value and the hard limit, and goes up with them alone.
LEMMA CeilingFalls ==
  ASSUME NEW t \in Tasks, NEW u \in Tasks,
         \/ u.nice = t.nice /\ u.max <= t.max
         \/ u.max = t.max /\ u.nice >= t.nice
         \/ u.max = t.max /\ nice_to_rlimit(u.nice) <= t.max
  PROVE  CeilingOf(u) <= CeilingOf(t)
<1>1. /\ t.nice \in Int /\ u.nice \in Int /\ t.max \in Nat /\ u.max \in Nat /\ MAX_NICE \in Int
  BY PrioritiesAssumption DEF Tasks
<1> QED BY <1>1 DEF CeilingOf, nice_to_rlimit

\* No step raises it, unless a call of a process with the capability is in progress.
LEMMA CeilingStep ==
  ASSUME LimitsInv, Next, \A c \in alive : call[c] # Idle => ~Capable(c), NEW p \in alive'
  PROVE  \E q \in alive : /\ q = p \/ (p \notin alive /\ real_parent'[p] = q)
                          /\ Ceiling(p)' <= Ceiling(q)
<1> DEFINE Kept == p \in alive /\ CeilingOf(task'[p]) <= CeilingOf(task[p])
<1>1. /\ task \in [Pids -> Tasks] /\ \A q \in Pids : task[q].cur <= task[q].max
      /\ \A c \in Pids : call[c] # Idle => c \in alive /\ ~Capable(c)
      /\ alive \subseteq Pids
  BY DEF LimitsInv, TypeOK, GroupsTypeOK
<1>2. LimitsInv'
  BY LimitsInvNext
<1>3. p \in Pids /\ task' \in [Pids -> Tasks] /\ task[p] \in Tasks /\ task'[p] \in Tasks
  BY <1>1, <1>2 DEF LimitsInv, TypeOK, GroupsTypeOK
<1>4. CASE Kept
  BY <1>3, <1>4, CeilingIs
<1>5. ASSUME p \in alive, task'[p] = task[p] PROVE Kept
  <2>1. /\ task[p].nice = task'[p].nice /\ task'[p].max <= task[p].max
    BY <1>3, <1>5 DEF Tasks
  <2> QED BY <1>3, <1>5, <2>1, CeilingFalls
<1>6. ASSUME NEW r \in Pids, ChangeGroups(r) PROVE Kept
  <2>1. alive' = alive /\ task' = task
    BY <1>6 DEF ChangeGroups, SetGroups, setsid, setpgid
  <2> QED BY <1>5, <2>1
<1>7. ASSUME NEW r \in Pids, ExecProgram(r) PROVE Kept
  <2>1. p \in alive
    BY <1>7 DEF ExecProgram, Exec
  <2>2. task'[p].nice = task[p].nice /\ task'[p].max = task[p].max
    BY <1>3, <1>7, ExecEffect
  <2>3. task'[p].max <= task[p].max
    BY <1>3, <2>2 DEF Tasks
  <2> QED BY <1>3, <2>1, <2>2, <2>3, CeilingFalls
<1>8. ASSUME NEW r \in Pids, ExitProcess(r) PROVE Kept
  <2>1. p \in alive /\ p # r
    BY <1>8 DEF ExitProcess, ExitReaped, Exit
  <2>2. task' = [task EXCEPT ![r] = NoTask]
    BY <1>8 DEF ExitProcess
  <2> QED BY <1>1, <1>3, <1>5, <2>1, <2>2
<1>9. ASSUME NEW r \in Pids, NEW c \in Pids, ForkChild(r, c)
      PROVE  \/ Kept
             \/ /\ r \in alive /\ p \notin alive /\ real_parent'[p] = r
                /\ CeilingOf(task'[p]) <= CeilingOf(task[r])
  <2>1. /\ r \in alive /\ c \notin alive /\ alive' = alive \cup {c}
        /\ real_parent' = [real_parent EXCEPT ![c] = r]
        /\ task' = [task EXCEPT ![c] = task[r]]
    BY <1>9 DEF ForkChild, ForkFlagged, Fork, InUse
  <2>2. real_parent \in [Pids -> alive]
    BY DEF LimitsInv, TypeOK, GroupsTypeOK
  <2>3. CASE p = c
    <3>1. p \notin alive /\ real_parent'[p] = r /\ task'[p] = task[r]
      BY <1>1, <2>1, <2>2, <2>3
    <3>2. task[r] \in Tasks /\ task'[p].max <= task[r].max /\ task'[p].nice = task[r].nice
      BY <1>1, <3>1 DEF Tasks
    <3> QED BY <1>3, <2>1, <3>1, <3>2, CeilingFalls
  <2>4. CASE p # c
    BY <1>1, <1>3, <1>5, <2>1, <2>4
  <2> QED BY <2>3, <2>4
<1>10. ASSUME NEW c \in Pids, NEW which \in DOMAIN Who, NEW v \in Nicevals,
              NEW who \in Who[which] \cup {Self}, setpriority(c, which, who, v)
       PROVE  Kept
  BY <1>5, <1>10 DEF setpriority, groupVars
<1>11. ASSUME NEW c \in Pids, SetNext(c) PROVE Kept
  <2>1. p \in alive
    BY <1>11 DEF SetNext, groupVars
  <2>2. ~Capable(c)
    BY <1>1, <1>11, SetNextEffect
  <2>3. ASSUME NEW q \in Pids, NEW v \in MIN_NICE .. MAX_NICE,
               v < task[q].nice => can_nice(c, q, v), task' = [task EXCEPT ![q].nice = v]
        PROVE  Kept
    <3>1. CASE q # p
      BY <1>1, <1>3, <1>5, <2>1, <2>3, <3>1
    <3>2. CASE q = p
      <4>1. task'[p] = [task[p] EXCEPT !.nice = v]
        BY <1>1, <2>3, <3>2
      <4>2. task'[p].max = task[p].max /\ task'[p].nice = v
        <5> DEFINE u == [task[p] EXCEPT !.nice = v]
        <5>1. u.max = task[p].max /\ u.nice = v
          BY <1>3, EditedTasks
        <5> QED BY <4>1, <5>1
      <4>3. v >= task[p].nice \/ nice_to_rlimit(v) <= task[p].cur
        <5>1. v \in Int /\ task[p].nice \in Int
          BY <1>3, PrioritiesAssumption DEF Tasks
        <5> QED BY <2>2, <2>3, <3>2, <5>1 DEF can_nice
      <4>4. v >= task[p].nice \/ nice_to_rlimit(v) <= task[p].max
        <5>1. /\ task[p].cur \in Nat /\ task[p].max \in Nat /\ task[p].cur <= task[p].max
              /\ v \in Int /\ MAX_NICE \in Int
          BY <1>1, <1>3, PrioritiesAssumption DEF Tasks
        <5> QED BY <4>3, <5>1 DEF nice_to_rlimit
      <4> QED BY <1>3, <2>1, <4>2, <4>4, CeilingFalls
    <3> QED BY <3>1, <3>2
  <2>4. CASE task' = task
    BY <1>5, <2>1, <2>4
  <2> QED BY <1>11, <2>3, <2>4, SetNextEffect
<1>12. ASSUME NEW c \in Pids, SetReturn(c) PROVE Kept
  BY <1>5, <1>12 DEF SetReturn, groupVars
<1>13. ASSUME NEW c \in Pids, NEW pid \in Pids \cup {Self}, NEW s \in Limits, NEW h \in Limits,
              prlimit64(c, pid, [cur |-> s, max |-> h])
       PROVE  Kept
  BY <1>5, <1>13 DEF prlimit64, groupVars
<1>14. ASSUME NEW c \in Pids, do_prlimit(c) PROVE Kept
  <2>1. p \in alive
    BY <1>14 DEF do_prlimit, groupVars
  <2>2. ~Capable(c)
    BY <1>1, <1>14, PrlimitEffect
  <2>3. ASSUME NEW q \in Pids, NEW s \in Nat, NEW h \in Nat, h <= task[q].max,
               task' = [task EXCEPT ![q] = [task[q] EXCEPT !.cur = s, !.max = h]]
        PROVE  Kept
    <3>1. CASE q # p
      BY <1>1, <1>3, <1>5, <2>1, <2>3, <3>1
    <3>2. CASE q = p
      <4>1. task'[p] = [task[p] EXCEPT !.cur = s, !.max = h]
        BY <1>1, <2>3, <3>2
      <4>2. task'[p].max = h /\ task'[p].nice = task[p].nice
        <5> DEFINE u == [task[p] EXCEPT !.cur = s, !.max = h]
        <5>1. u.max = h /\ u.nice = task[p].nice
          BY <1>3 DEF Tasks
        <5> QED BY <4>1, <5>1
      <4> QED BY <1>3, <2>1, <2>3, <3>2, <4>2, CeilingFalls
    <3> QED BY <3>1, <3>2
  <2>4. CASE task' = task
    BY <1>5, <2>1, <2>4
  <2> QED BY <1>14, <2>2, <2>3, <2>4, PrlimitEffect
<1>15. ASSUME NEW r \in alive, p \notin alive, real_parent'[p] = r,
              CeilingOf(task'[p]) <= CeilingOf(task[r])
       PROVE  \E q \in alive : /\ q = p \/ (p \notin alive /\ real_parent'[p] = q)
                               /\ Ceiling(p)' <= Ceiling(q)
  BY <1>1, <1>3, <1>15, CeilingIs
<1>16. ASSUME NEW c \in Pids, CallReaper(c) PROVE Kept
  <2>1. alive' = alive /\ task' = task
    BY <1>16 DEF CallReaper, ReaperCall, prctl, walk_process_tree,
                 propagate_has_child_subreaper, WalkReturn, groupVars
  <2> QED BY <1>5, <2>1
<1> HIDE DEF Kept
<1>17. \/ Kept
       \/ \E r \in alive : /\ p \notin alive /\ real_parent'[p] = r
                           /\ CeilingOf(task'[p]) <= CeilingOf(task[r])
  BY <1>6, <1>7, <1>8, <1>9, <1>10, <1>11, <1>12, <1>13, <1>14,
     <1>16, Zenon DEF Next
<1> QED BY <1>4, <1>15, <1>17

\* Without a capability no calls of several processes on each other get a process above
\* the priority its hard limit or its present nice value stands for.
THEOREM CeilingIsKept == Spec => CeilingKept
<1>1. LimitsInv /\ [Next]_vars =>
        [(\A c \in alive : call[c] # Idle => ~Capable(c)) =>
           \A p \in alive' : \E q \in alive :
             /\ q = p \/ (p \notin alive /\ real_parent'[p] = q)
             /\ Ceiling(p)' <= Ceiling(q)]_vars
  BY CeilingStep
<1> QED BY <1>1, LimitsInvInit, LimitsInvNext, PTL DEF Spec, CeilingKept

-----------------------------------------------------------------------------
(* setpriority for a group.                                                 *)

\* How far a call has come with the members M of its group: who is not left was set or
\* refused, and the error says whether there was anyone and whether one was refused.
WholeSoFar(k, M) ==
  /\ k.left \subseteq M /\ k.set \subseteq M \ k.left
  /\ k.error = "ESRCH" => M \ k.left = {}
  /\ k.error = "0" => k.set = M \ k.left /\ k.set # {}
  /\ k.error \in {"EPERM", "EACCES"} => k.set # M \ k.left

\* The processes that a call alone has set still have its value.
SetInv ==
  \A c \in Pids : Setting(c) =>
    /\ call[c].which = "PRIO_PGRP" => WholeSoFar(call[c], Members(call[c].who))
    /\ call[c].alone =>
         /\ \A q \in Pids \ {c} : ~Setting(q)
         /\ \A p \in call[c].set : task[p].nice = call[c].niceval

\* A step that begins or advances no setpriority, and keeps the groups and the nice
\* values while one is in progress.
LEMMA SetFrame ==
  ASSUME TypeOK, SetInv,
         \A q \in Pids : call'[q].kind = "setpriority" => call'[q] = call[q],
         (\E q \in Pids : Setting(q)) =>
           UNCHANGED <<alive, pgrp>> /\ \A p \in Pids : task'[p].nice = task[p].nice
  PROVE  SetInv'
<1> SUFFICES ASSUME NEW c \in Pids, call'[c].kind = "setpriority"
             PROVE  /\ call'[c].which = "PRIO_PGRP" =>
                         WholeSoFar(call'[c], {r \in alive' : pgrp'[r] = call'[c].who})
                    /\ call'[c].alone =>
                         /\ \A q \in Pids \ {c} : call'[q].kind # "setpriority"
                         /\ \A p \in call'[c].set : task'[p].nice = call'[c].niceval
  BY Zenon DEF SetInv, Setting, Members
<1>1. call'[c] = call[c] /\ Setting(c) /\ UNCHANGED <<alive, pgrp>>
  BY DEF Setting
<1>2. \A p \in Pids : task'[p].nice = task[p].nice
  BY <1>1
<1>3. {r \in alive' : pgrp'[r] = call'[c].who} = Members(call[c].who)
  BY <1>1 DEF Members
<1>4. call[c].set \subseteq Pids
  BY <1>1, CallsByKind DEF Settings
<1> QED BY <1>1, <1>2, <1>3, <1>4 DEF SetInv, Setting

\* The begin of a call: its own record is fresh, the others are no longer alone.
LEMMA SetBegins ==
  ASSUME LimitsInv, SetInv, NEW c \in Pids, NEW which \in DOMAIN Who, NEW v \in Nicevals,
         NEW who \in Who[which] \cup {Self}, setpriority(c, which, who, v)
  PROVE  SetInv'
<1> DEFINE t == Target(c, which, who)
           k == [kind |-> "setpriority", which |-> which, who |-> t,
                 niceval |-> Clamp(v), left |-> Chosen(which, t), error |-> "ESRCH",
                 set |-> {}, alone |-> \A q \in Pids : ~Setting(q)]
<1>1. /\ UNCHANGED <<alive, pgrp, task>>
      /\ call' = [q \in Pids |-> IF q = c THEN k
                                 ELSE IF Setting(q) THEN [call[q] EXCEPT !.alone = FALSE]
                                 ELSE call[q]]
  BY DEF setpriority, groupVars
<1>2. /\ call'[c] = k
      /\ \A q \in Pids \ {c} : /\ Setting(q) => call'[q] = [call[q] EXCEPT !.alone = FALSE]
                               /\ ~Setting(q) => call'[q] = call[q]
  BY <1>1
<1>3. /\ k.kind = "setpriority" /\ k.which = which /\ k.who = t /\ k.left = Chosen(which, t)
      /\ k.error = "ESRCH" /\ k.set = {} /\ k.alone = (\A q \in Pids : ~Setting(q))
  OBVIOUS
<1>4. which = "PRIO_PGRP" => k.left = Members(t)
  BY <1>3 DEF Chosen
<1> HIDE DEF k
<1>5. \A g : {r \in alive' : pgrp'[r] = g} = Members(g)
  BY <1>1 DEF Members
<1>6. k.which = "PRIO_PGRP" => WholeSoFar(k, {r \in alive' : pgrp'[r] = k.who})
  BY <1>3, <1>4, <1>5 DEF WholeSoFar
<1>7. k.alone => \A q \in Pids \ {c} : call'[q].kind # "setpriority"
  BY <1>2, <1>3 DEF Setting
<1>8. ASSUME NEW q \in Pids \ {c}, call'[q].kind = "setpriority"
      PROVE  /\ ~call'[q].alone
             /\ call'[q].which = "PRIO_PGRP" =>
                  WholeSoFar(call'[q], {r \in alive' : pgrp'[r] = call'[q].who})
  <2>1. Setting(q) /\ call[q] \in Settings /\ call'[q] = [call[q] EXCEPT !.alone = FALSE]
    BY <1>2, <1>8, CallsByKind DEF Setting, LimitsInv
  <2>2. /\ call'[q].alone = FALSE /\ call'[q].which = call[q].which
        /\ call'[q].who = call[q].who /\ call'[q].left = call[q].left
        /\ call'[q].set = call[q].set /\ call'[q].error = call[q].error
    BY <2>1 DEF Settings
  <2> QED BY <2>1, <2>2, <1>5 DEF SetInv, WholeSoFar
<1> SUFFICES ASSUME NEW q \in Pids, call'[q].kind = "setpriority"
             PROVE  /\ call'[q].which = "PRIO_PGRP" =>
                         WholeSoFar(call'[q], {r \in alive' : pgrp'[r] = call'[q].who})
                    /\ call'[q].alone =>
                         /\ \A d \in Pids \ {q} : call'[d].kind # "setpriority"
                         /\ \A p \in call'[q].set : task'[p].nice = call'[q].niceval
  BY Zenon DEF SetInv, Setting, Members
<1>9. CASE q = c
  BY <1>2, <1>3, <1>6, <1>7, <1>9
<1> QED BY <1>8, <1>9

\* One process more: what becomes of the record and of the nice values.
LEMMA SetOne ==
  ASSUME LimitsInv, NEW c \in Pids, SetNext(c)
  PROVE  \E p, j :
           /\ p \in call[c].left
           /\ call' = [call EXCEPT ![c] = j]
           /\ j.kind = call[c].kind /\ j.which = call[c].which /\ j.who = call[c].who
           /\ j.niceval = call[c].niceval /\ j.alone = call[c].alone
           /\ j.left = call[c].left \ {p}
           /\ \/ /\ j.which # "PRIO_PGRP"
                 /\ task' = task /\ j.set = call[c].set
              \/ /\ j.error \in {"EPERM", "EACCES"}
                 /\ task' = task /\ j.set = call[c].set
              \/ /\ j.error = AfterSuccess(call[c].error)
                 /\ task' = [task EXCEPT ![p].nice = call[c].niceval]
                 /\ j.set = call[c].set \cup {p}
<1>1. call[c] \in Settings /\ call \in [Pids -> {Idle} \cup Settings \cup Limitings]
  BY CallsByKind DEF SetNext, LimitsInv, TypeOK
<1>2. PICK p \in call[c].left :
        \/ set_one_prio(c, p)
        \/ /\ call[c].which = "PRIO_USER"
           /\ call' = [call EXCEPT ![c].left = @ \ {p}] /\ UNCHANGED task
  BY DEF SetNext
<1> DEFINE S == call[c].left \ {p}
<1>3. CASE /\ call[c].which = "PRIO_USER"
           /\ call' = [call EXCEPT ![c].left = @ \ {p}] /\ UNCHANGED task
  <2> DEFINE j == [call[c] EXCEPT !.left = S]
  <2>1. call' = [call EXCEPT ![c] = j]
    BY <1>1, <1>3
  <2>2. /\ j.kind = call[c].kind /\ j.which = call[c].which /\ j.who = call[c].who
        /\ j.niceval = call[c].niceval /\ j.alone = call[c].alone
        /\ j.left = S /\ j.error = call[c].error /\ j.set = call[c].set
    BY <1>1 DEF Settings
  <2> HIDE DEF j
  <2> QED BY <1>3, <2>1, <2>2
<1>4. ASSUME NEW e \in {"EPERM", "EACCES"}, Refused(c, p, e)
      PROVE  \E j : /\ call' = [call EXCEPT ![c] = j]
                    /\ j.kind = call[c].kind /\ j.which = call[c].which /\ j.who = call[c].who
                    /\ j.niceval = call[c].niceval /\ j.alone = call[c].alone
                    /\ j.left = S /\ j.error = e /\ j.set = call[c].set /\ task' = task
  <2> DEFINE j == [call[c] EXCEPT !.left = S, !.error = e]
  <2>1. call' = [call EXCEPT ![c] = j] /\ task' = task
    BY <1>1, <1>4 DEF Refused
  <2>2. /\ j.kind = call[c].kind /\ j.which = call[c].which /\ j.who = call[c].who
        /\ j.niceval = call[c].niceval /\ j.alone = call[c].alone
        /\ j.left = S /\ j.error = e /\ j.set = call[c].set
    BY <1>1 DEF Settings
  <2> HIDE DEF j
  <2> QED BY <2>1, <2>2
<1>5. CASE /\ task' = [task EXCEPT ![p].nice = call[c].niceval]
           /\ call' = [call EXCEPT ![c].left = @ \ {p}, ![c].error = AfterSuccess(@),
                                   ![c].set = @ \cup {p}]
  <2> DEFINE j == [call[c] EXCEPT !.left = S, !.error = AfterSuccess(call[c].error),
                                  !.set = call[c].set \cup {p}]
  <2>1. call' = [call EXCEPT ![c] = j]
    BY <1>1, <1>5
  <2>2. /\ j.kind = call[c].kind /\ j.which = call[c].which /\ j.who = call[c].who
        /\ j.niceval = call[c].niceval /\ j.alone = call[c].alone
        /\ j.left = S /\ j.error = AfterSuccess(call[c].error) /\ j.set = call[c].set \cup {p}
    BY <1>1 DEF Settings
  <2> HIDE DEF j
  <2> QED BY <1>5, <2>1, <2>2
<1> QED BY <1>2, <1>3, <1>4, <1>5 DEF set_one_prio

\* One process more of the group is set or refused.
LEMMA SetAdvances ==
  ASSUME LimitsInv, SetInv, NEW c \in Pids, SetNext(c)
  PROVE  SetInv'
<1>1. PICK p, j :
        /\ p \in call[c].left
        /\ call' = [call EXCEPT ![c] = j]
        /\ j.kind = call[c].kind /\ j.which = call[c].which /\ j.who = call[c].who
        /\ j.niceval = call[c].niceval /\ j.alone = call[c].alone
        /\ j.left = call[c].left \ {p}
        /\ \/ /\ j.which # "PRIO_PGRP"
              /\ task' = task /\ j.set = call[c].set
           \/ /\ j.error \in {"EPERM", "EACCES"}
              /\ task' = task /\ j.set = call[c].set
           \/ /\ j.error = AfterSuccess(call[c].error)
              /\ task' = [task EXCEPT ![p].nice = call[c].niceval]
              /\ j.set = call[c].set \cup {p}
  BY SetOne
<1>2. /\ UNCHANGED <<alive, pgrp>> /\ Setting(c) /\ call[c] \in Settings
      /\ call \in [Pids -> {Idle} \cup Settings \cup Limitings] /\ task \in [Pids -> Tasks]
  BY CallsByKind DEF SetNext, groupVars, LimitsInv, TypeOK
<1>3. \A g : {r \in alive' : pgrp'[r] = g} = Members(g)
  BY <1>2 DEF Members
<1>4. call'[c] = j /\ \A q \in Pids \ {c} : call'[q] = call[q]
  BY <1>1, <1>2
<1>5. p \in Pids /\ call[c].set \subseteq Pids
      /\ call[c].error \in {"ESRCH", "0", "EPERM", "EACCES"}
  BY <1>1, <1>2 DEF Settings
<1>6. ASSUME j.which = "PRIO_PGRP" PROVE WholeSoFar(j, Members(j.who))
  <2> DEFINE M == Members(j.who)
  <2>1. WholeSoFar(call[c], M) /\ p \in M /\ p \notin call[c].set
    BY <1>1, <1>2, <1>6 DEF SetInv, WholeSoFar
  <2>2. M \ j.left = (M \ call[c].left) \cup {p}
    BY <1>1, <2>1
  <2> HIDE DEF M
  <2>3. CASE j.error \in {"EPERM", "EACCES"} /\ j.set = call[c].set
    <3>1. j.set \subseteq M \ j.left /\ j.set # M \ j.left /\ j.left \subseteq M
      BY <1>1, <2>1, <2>2, <2>3 DEF WholeSoFar
    <3> QED BY <2>3, <3>1 DEF WholeSoFar, M
  <2>4. CASE j.error = AfterSuccess(call[c].error) /\ j.set = call[c].set \cup {p}
    <3>1. j.set \subseteq M \ j.left /\ j.left \subseteq M /\ j.set # {}
      BY <1>1, <2>1, <2>2, <2>4 DEF WholeSoFar
    <3>2. j.error # "ESRCH"
      BY <1>5, <2>4 DEF AfterSuccess
    <3>3. ASSUME j.error = "0" PROVE j.set = M \ j.left
      <4>1. call[c].set = M \ call[c].left
        BY <1>5, <2>1, <2>4, <3>3 DEF WholeSoFar, AfterSuccess
      <4> QED BY <2>2, <2>4, <4>1
    <3>4. ASSUME j.error \in {"EPERM", "EACCES"} PROVE j.set # M \ j.left
      <4>1. call[c].set # M \ call[c].left /\ call[c].set \subseteq M \ call[c].left
        BY <1>5, <2>1, <2>4, <3>4 DEF WholeSoFar, AfterSuccess
      <4>2. p \notin M \ call[c].left
        BY <1>1
      <4> QED BY <2>2, <2>4, <4>1, <4>2
    <3> QED BY <3>1, <3>2, <3>3, <3>4 DEF WholeSoFar, M
  <2> QED BY <1>1, <1>6, <2>3, <2>4
<1>7. ASSUME j.alone
      PROVE  /\ \A q \in Pids \ {c} : ~Setting(q)
             /\ \A r \in j.set : task'[r].nice = j.niceval
  <2>1. /\ \A q \in Pids \ {c} : ~Setting(q)
        /\ \A r \in call[c].set : task[r].nice = call[c].niceval
    BY <1>1, <1>2, <1>7 DEF SetInv
  <2>2. CASE task' = task /\ j.set = call[c].set
    BY <1>1, <2>1, <2>2
  <2>3. CASE task' = [task EXCEPT ![p].nice = call[c].niceval] /\ j.set = call[c].set \cup {p}
    <3>1. task'[p] = [task[p] EXCEPT !.nice = call[c].niceval] /\ task[p] \in Tasks
      BY <1>2, <1>5, <2>3
    <3>2. task'[p].nice = call[c].niceval
      BY <3>1 DEF Tasks
    <3>3. \A r \in Pids \ {p} : task'[r] = task[r]
      BY <1>2, <2>3
    <3> QED BY <1>1, <1>5, <2>1, <2>3, <3>2, <3>3
  <2> QED BY <1>1, <2>1, <2>2, <2>3
<1>8. ASSUME NEW q \in Pids \ {c}, Setting(q)
      PROVE  /\ ~call[q].alone
             /\ call[q].which = "PRIO_PGRP" => WholeSoFar(call[q], Members(call[q].who))
  BY <1>2, <1>8 DEF SetInv
<1> SUFFICES ASSUME NEW q \in Pids, call'[q].kind = "setpriority"
             PROVE  /\ call'[q].which = "PRIO_PGRP" =>
                         WholeSoFar(call'[q], {r \in alive' : pgrp'[r] = call'[q].who})
                    /\ call'[q].alone =>
                         /\ \A d \in Pids \ {q} : call'[d].kind # "setpriority"
                         /\ \A r \in call'[q].set : task'[r].nice = call'[q].niceval
  BY Zenon DEF SetInv, Setting, Members
<1>9. CASE q = c
  BY <1>3, <1>4, <1>6, <1>7, <1>9 DEF Setting
<1>10. CASE q # c
  BY <1>3, <1>4, <1>8, <1>10 DEF Setting
<1> QED BY <1>9, <1>10

\* Every step keeps the invariant.
LEMMA SetInvNext ==
  ASSUME LimitsInv, SetInv, [Next]_vars
  PROVE  SetInv'
<1>1. TypeOK /\ \A q \in Pids : /\ Setting(q) <=> call[q] \in Settings
                              /\ call[q] = Idle => ~Setting(q)
  BY CallsByKind DEF LimitsInv
<1>2. ASSUME NEW p \in Pids, ChangeGroups(p) PROVE SetInv'
  BY <1>1, <1>2, SetFrame DEF ChangeGroups, WriteLock, Setting
<1>3. ASSUME NEW p \in Pids, NEW c \in Pids, ForkChild(p, c) PROVE SetInv'
  BY <1>1, <1>3, SetFrame DEF ForkChild, WriteLock, Setting
<1>4. ASSUME NEW p \in Pids, ExitProcess(p) PROVE SetInv'
  <2>1. \A q \in Pids : call'[q] = call[q] \/ call[q].kind = "prlimit"
    BY <1>4 DEF ExitProcess
  <2>2. \A q \in Pids : call[q].kind = "prlimit" => call'[q].kind = "prlimit"
    <3>1. \A k \in Limitings : [k EXCEPT !.target = Gone].kind = "prlimit"
      BY DEF Limitings
    <3> QED BY <1>1, <1>4, <3>1, CallsByKind DEF ExitProcess
  <2>3. \A q \in Pids : ~Setting(q)
    BY <1>4 DEF ExitProcess, WriteLock
  <2> QED BY <1>1, <2>1, <2>2, <2>3, SetFrame
<1>5. ASSUME NEW p \in Pids, ExecProgram(p) PROVE SetInv'
  <2>1. UNCHANGED <<alive, pgrp, call>>
    BY <1>5 DEF ExecProgram, Exec
  <2>2. \A q \in Pids : task'[q].nice = task[q].nice
    BY <1>5, ExecEffect
  <2> QED BY <1>1, <2>1, <2>2, SetFrame
<1>6. ASSUME NEW c \in Pids, CallReaper(c) PROVE SetInv'
  <2>1. UNCHANGED <<alive, pgrp, task, call>>
    BY <1>6 DEF CallReaper, ReaperCall, prctl, walk_process_tree,
                propagate_has_child_subreaper, WalkReturn, groupVars
  <2> QED BY <1>1, <2>1, SetFrame
<1>7. ASSUME NEW c \in Pids, SetReturn(c) PROVE SetInv'
  <2>1. UNCHANGED <<alive, pgrp, task>> /\ call' = [call EXCEPT ![c] = Idle]
    BY <1>7 DEF SetReturn, groupVars
  <2> QED BY <1>1, <2>1, SetFrame DEF Idle, TypeOK
<1>8. ASSUME NEW c \in Pids, NEW pid \in Pids \cup {Self}, NEW s \in Limits, NEW h \in Limits,
             prlimit64(c, pid, [cur |-> s, max |-> h])
      PROVE  SetInv'
  <2>1. /\ UNCHANGED <<alive, pgrp, task>>
        /\ call' = [call EXCEPT ![c] = [kind |-> "prlimit", target |-> Process(c, pid),
                                        new |-> [cur |-> s, max |-> h]]]
    BY <1>8 DEF prlimit64, groupVars
  <2> QED BY <1>1, <2>1, SetFrame DEF TypeOK
<1>9. ASSUME NEW c \in Pids, do_prlimit(c) PROVE SetInv'
  <2>1. UNCHANGED <<alive, pgrp>> /\ call' = [call EXCEPT ![c] = Idle]
    BY <1>9 DEF do_prlimit, groupVars
  <2>2. \A q \in Pids : task'[q].nice = task[q].nice
    <3>1. task \in [Pids -> Tasks]
      BY <1>1 DEF TypeOK
    <3>2. ASSUME NEW p \in Pids, NEW s \in Nat, NEW h \in Nat,
                 task' = [task EXCEPT ![p] = [task[p] EXCEPT !.cur = s, !.max = h]]
          PROVE  \A q \in Pids : task'[q].nice = task[q].nice
      <4>1. [task[p] EXCEPT !.cur = s, !.max = h].nice = task[p].nice
        BY <3>1 DEF Tasks
      <4> QED BY <3>1, <3>2, <4>1
    <3>3. CASE task' = task
      BY <3>3
    <3>4. \/ task' = task
          \/ \E p \in Pids, s, h \in Nat :
               /\ s <= h /\ (h <= task[p].max \/ Capable(c))
               /\ task' = [task EXCEPT ![p] = [task[p] EXCEPT !.cur = s, !.max = h]]
      BY <1>9, PrlimitEffect
    <3> QED BY <3>2, <3>3, <3>4, Zenon
  <2> QED BY <1>1, <2>1, <2>2, SetFrame DEF Idle, TypeOK
<1>10. CASE UNCHANGED vars
  BY <1>1, <1>10, SetFrame DEF vars, groupVars
<1>11. CASE Next
  BY <1>2, <1>3, <1>4, <1>5, <1>6, <1>7, <1>8, <1>9, <1>11, SetBegins, SetAdvances, Zenon DEF Next
<1> QED BY <1>10, <1>11

\* setpriority for a group returns 0 exactly when it has members and each was given the
\* value, and then they all have it if no other setpriority came between.
THEOREM GroupSetWhole == Spec => []SetWhole
<1>1. Init => SetInv
  <2>1. Init => \A c \in Pids : call[c] = Idle
    BY DEF Init
  <2> QED BY <2>1 DEF SetInv, Setting, Idle
<1>2. LimitsInv /\ SetInv => SetWhole
  <2> SUFFICES ASSUME LimitsInv, SetInv, NEW c \in alive, Setting(c),
                      call[c].which = "PRIO_PGRP", call[c].left = {}
               PROVE  LET M == Members(call[c].who)
                      IN  /\ call[c].error = "0" <=> M # {} /\ M \subseteq call[c].set
                          /\ call[c].error = "0" /\ call[c].alone =>
                               \A p \in M : task[p].nice = call[c].niceval
    BY DEF SetWhole
  <2> DEFINE M == Members(call[c].who)
  <2>1. c \in Pids
    BY DEF LimitsInv, TypeOK, GroupsTypeOK
  <2>2. call[c].error \in {"ESRCH", "0", "EPERM", "EACCES"}
    BY <2>1, CallsByKind DEF LimitsInv, Settings
  <2>3. WholeSoFar(call[c], M)
    BY <2>1 DEF SetInv
  <2>4. call[c].alone => \A p \in call[c].set : task[p].nice = call[c].niceval
    BY <2>1 DEF SetInv
  <2> HIDE DEF M
  <2>5. call[c].error = "0" <=> M # {} /\ M \subseteq call[c].set
    BY <2>2, <2>3 DEF WholeSoFar
  <2> QED BY <2>4, <2>5 DEF M
<1>3. LimitsInv /\ SetInv /\ [Next]_vars => LimitsInv' /\ SetInv'
  BY SetInvNext, LimitsInvNext
<1> QED BY <1>1, <1>2, <1>3, LimitsInvInit, PTL DEF Spec

-----------------------------------------------------------------------------
(* kMergeSort: induction and recursion on the naturals.  The library states  *)
(* them for a predicate given as an operator, which the provers cannot       *)
(* instantiate; here the predicate and the recursion are sets and functions. *)

\* Induction on the naturals with a set for the induction predicate.
LEMMA NatSetInduction ==
  ASSUME NEW S, 0 \in S, \A n \in Nat : n \in S => n + 1 \in S
  PROVE  \A n \in Nat : n \in S
<1> SUFFICES ASSUME Nat \ S # {} PROVE FALSE
  OBVIOUS
<1>1. IsWellFoundedOn(OpToRel(<, Nat), Nat)
  BY NatLessThanWellFounded
<1>2. PICK x \in Nat \ S : \A y \in Nat \ S : ~(<<y, x>> \in OpToRel(<, Nat))
  BY <1>1, WFMin
<1>3. \A y \in Nat \ S : ~(y < x)
  BY <1>2 DEF OpToRel
<1>4. x # 0 /\ x - 1 \in Nat /\ x - 1 < x
  OBVIOUS
<1> QED BY <1>3, <1>4

\* The same with all smaller numbers as hypothesis.
LEMMA NatSetStrongInduction ==
  ASSUME NEW S, \A n \in Nat : (\A k \in 0 .. n - 1 : k \in S) => n \in S
  PROVE  \A n \in Nat : n \in S
<1> DEFINE T == {n \in Nat : \A k \in 0 .. n - 1 : k \in S}
<1>1. 0 \in T
  OBVIOUS
<1>2. ASSUME NEW n \in Nat, n \in T PROVE n + 1 \in T
  <2>1. n \in S /\ \A k \in 0 .. n - 1 : k \in S
    BY <1>2
  <2>2. \A k \in 0 .. (n + 1) - 1 : k = n \/ k \in 0 .. n - 1
    OBVIOUS
  <2> QED BY <2>1, <2>2
<1> HIDE DEF T
<1>3. \A n \in Nat : n \in T
  BY <1>1, <1>2, NatSetInduction
<1> QED BY <1>3 DEF T

\* h[n] computes a value from n earlier ones.
Computes(h, S) == \A n \in Nat : h[n] \in [[0 .. n - 1 -> S] -> S]

\* The first n values that h computes.
Prefix(g, h, S, n) == 
  /\ g \in [0 .. n - 1 -> S] 
  /\ \A k \in 0 .. n - 1 : g[k] = h[k][[i \in 0 .. k - 1 |-> g[i]]]

\* There is only one of each length.
LEMMA PrefixesAgree ==
  ASSUME NEW S, NEW h, NEW n \in Nat, NEW m \in Nat, 
         NEW f, NEW g, Prefix(f, h, S, n), Prefix(g, h, S, m)
  PROVE  \A k \in Nat : k < n /\ k < m => f[k] = g[k]
<1> DEFINE T == {k \in Nat : k < n /\ k < m => f[k] = g[k]}
<1>1. ASSUME NEW k \in Nat, \A i \in 0 .. k - 1 : i \in T PROVE k \in T
  <2> SUFFICES ASSUME k < n, k < m PROVE f[k] = g[k]
    OBVIOUS
  <2>1. \A i \in 0 .. k - 1 : f[i] = g[i]
    <3> TAKE i \in 0 .. k - 1
    <3>1. i \in T /\ i \in Nat /\ i < n /\ i < m
      BY <1>1
    <3> QED BY <3>1
  <2>2. [i \in 0 .. k - 1 |-> f[i]] = [i \in 0 .. k - 1 |-> g[i]]
    BY <2>1
  <2>3. k \in 0 .. n - 1 /\ k \in 0 .. m - 1
    OBVIOUS
  <2>4. f[k] = h[k][[i \in 0 .. k - 1 |-> f[i]]]
    BY <2>3 DEF Prefix
  <2>5. g[k] = h[k][[i \in 0 .. k - 1 |-> g[i]]]
    BY <2>3 DEF Prefix
  <2> QED BY <2>2, <2>4, <2>5
<1> HIDE DEF T
<1>2. \A k \in Nat : k \in T
  BY <1>1, NatSetStrongInduction
<1> QED BY <1>2 DEF T

\* There is one of each length.
LEMMA PrefixExists ==
  ASSUME NEW S, NEW h, Computes(h, S)
  PROVE  \A n \in Nat : \E g : Prefix(g, h, S, n)
<1> DEFINE T == {n \in Nat : \E g : Prefix(g, h, S, n)}
<1>1. 0 \in T
  <2> DEFINE e == [i \in 0 .. 0 - 1 |-> 0]
  <2>1. 0 .. 0 - 1 = {}
    OBVIOUS
  <2>2. Prefix(e, h, S, 0)
    BY <2>1 DEF Prefix
  <2> QED BY <2>2
<1>2. ASSUME NEW n \in Nat, n \in T PROVE n + 1 \in T
  <2>1. PICK g : Prefix(g, h, S, n)
    BY <1>2
  <2>2. g \in [0 .. n - 1 -> S]
    BY <2>1 DEF Prefix
  <2>3. h[n][g] \in S
    BY <2>2 DEF Computes
  <2> DEFINE x == h[n][g]
             f == [i \in 0 .. (n + 1) - 1 |-> IF i = n THEN x ELSE g[i]]
  <2>4. f \in [0 .. (n + 1) - 1 -> S]
    <3> HIDE DEF x
    <3> SUFFICES ASSUME NEW i \in 0 .. (n + 1) - 1 PROVE (IF i = n THEN x ELSE g[i]) \in S
      OBVIOUS
    <3>1. i = n \/ i \in 0 .. n - 1
      OBVIOUS
    <3> QED BY <3>1, <2>2, <2>3 DEF x
  <2>5. f[n] = x /\ \A i \in 0 .. n - 1 : f[i] = g[i] /\ i # n
    OBVIOUS
  <2> HIDE DEF f
  <2>6. ASSUME NEW k \in 0 .. (n + 1) - 1 PROVE f[k] = h[k][[i \in 0 .. k - 1 |-> f[i]]]
    <3>1. \A i \in 0 .. k - 1 : i \in 0 .. n - 1
      OBVIOUS
    <3>2. [i \in 0 .. k - 1 |-> f[i]] = [i \in 0 .. k - 1 |-> g[i]]
      BY <3>1, <2>5
    <3>3. CASE k = n
      <4>1. [i \in 0 .. n - 1 |-> g[i]] = g
        BY <2>2
      <4> QED BY <3>2, <3>3, <4>1, <2>5
    <3>4. CASE k # n
      <4>1. k \in 0 .. n - 1
        BY <3>4
      <4>2. g[k] = h[k][[i \in 0 .. k - 1 |-> g[i]]]
        BY <2>1, <4>1 DEF Prefix
      <4> QED BY <4>1, <4>2, <3>2, <2>5
    <3> QED BY <3>3, <3>4
  <2>7. Prefix(f, h, S, n + 1)
    BY <2>4, <2>6 DEF Prefix
  <2> QED BY <2>7
<1> HIDE DEF T
<1>3. \A n \in Nat : n \in T
  BY <1>1, <1>2, NatSetInduction
<1> QED BY <1>3 DEF T

\* Every value of f is what h computes from the earlier ones.
Computed(f, h) == \A n \in Nat : f[n] = h[n][[i \in 0 .. n - 1 |-> f[i]]]

\* There is a function every value of which is computed from its earlier ones.
LEMMA CourseOfValues ==
  ASSUME NEW S, NEW h, Computes(h, S)
  PROVE  \E f \in [Nat -> S] : Computed(f, h)
<1> DEFINE G(n) == CHOOSE g : Prefix(g, h, S, n)
           f == [n \in Nat |-> G(n + 1)[n]]
<1>1. ASSUME NEW n \in Nat PROVE Prefix(G(n), h, S, n)
  BY PrefixExists
<1> HIDE DEF G
<1>2. \A n \in Nat : f[n] = G(n + 1)[n]
  OBVIOUS
<1>3. f \in [Nat -> S]
  <2> SUFFICES ASSUME NEW n \in Nat PROVE G(n + 1)[n] \in S
    OBVIOUS
  <2>1. Prefix(G(n + 1), h, S, n + 1) /\ n \in 0 .. (n + 1) - 1
    BY <1>1
  <2> QED BY <2>1 DEF Prefix
<1> HIDE DEF f
<1>4. ASSUME NEW n \in Nat PROVE f[n] = h[n][[i \in 0 .. n - 1 |-> f[i]]]
  <2>1. Prefix(G(n + 1), h, S, n + 1) /\ n \in 0 .. (n + 1) - 1
    BY <1>1
  <2>2. G(n + 1)[n] = h[n][[i \in 0 .. n - 1 |-> G(n + 1)[i]]]
    BY <2>1 DEF Prefix
  <2>3. \A i \in 0 .. n - 1 : f[i] = G(n + 1)[i]
    <3> TAKE i \in 0 .. n - 1
    <3>1. i \in Nat /\ i + 1 \in Nat /\ i < i + 1 /\ i < n + 1
      OBVIOUS
    <3>2. Prefix(G(i + 1), h, S, i + 1)
      BY <3>1, <1>1
    <3>3. G(i + 1)[i] = G(n + 1)[i]
      BY <3>1, <3>2, <2>1, n + 1 \in Nat, PrefixesAgree
    <3> QED BY <3>1, <3>3, <1>2
  <2>4. [i \in 0 .. n - 1 |-> f[i]] = [i \in 0 .. n - 1 |-> G(n + 1)[i]]
    BY <2>3
  <2> QED BY <2>2, <2>4, <1>2
<1>5. Computed(f, h)
  BY <1>4 DEF Computed
<1> QED BY <1>3, <1>5

-----------------------------------------------------------------------------
(* kMergeSort: the merge, turn by turn.                                      *)

\* i counts the elements of the left run as the merge's turns do.
Turns(i, a, l, m, r) ==
  /\ i \in [Nat -> Nat] /\ i[0] = 0
  /\ \A k \in Nat : i[k + 1] = IF FromLeft(a, l, m, r, i[k], k - i[k]) THEN i[k] + 1 ELSE i[k]

\* The counts of the merge's turns are the ones its loops compute.
LEMMA LeftTakenTurns ==
  ASSUME NEW arr, NEW l, NEW m, NEW r
  PROVE  Turns(LeftTaken(arr, l, m, r), arr, l, m, r)
<1> DEFINE Turn(k, n) == IF FromLeft(arr, l, m, r, n, k - 1 - n) THEN n + 1 ELSE n
           value(n, g) == IF n = 0 THEN 0 ELSE Turn(n, g[n - 1])
           h == [n \in Nat |-> [g \in [0 .. n - 1 -> Nat] |-> value(n, g)]]
           Eqn(i) == i = [k \in Nat |-> IF k = 0 THEN 0 ELSE Turn(k, i[k - 1])]
<1>1. \A k \in Nat, n \in Nat : Turn(k, n) \in Nat
  <2> HIDE DEF FromLeft
  <2> QED OBVIOUS
<1> HIDE DEF Turn
<1>2. Computes(h, Nat)
  <2> SUFFICES ASSUME NEW n \in Nat, NEW g \in [0 .. n - 1 -> Nat]
               PROVE  value(n, g) \in Nat
    BY DEF Computes
  <2>1. CASE n = 0
    BY <2>1
  <2>2. CASE n # 0
    <3>1. g[n - 1] \in Nat
      BY <2>2
    <3> QED BY <3>1, <1>1
  <2> QED BY <2>1, <2>2
<1>h. h = [n \in Nat |-> [g \in [0 .. n - 1 -> Nat] |-> value(n, g)]]
  OBVIOUS
<1> HIDE DEF h
<1>3. PICK f \in [Nat -> Nat] : Computed(f, h)
  BY <1>2, CourseOfValues
<1>4. ASSUME NEW n \in Nat PROVE f[n] = IF n = 0 THEN 0 ELSE Turn(n, f[n - 1])
  <2> DEFINE p == [i \in 0 .. n - 1 |-> f[i]]
  <2>1. p \in [0 .. n - 1 -> Nat] /\ (n # 0 => p[n - 1] = f[n - 1])
    OBVIOUS
  <2>2. f[n] = h[n][p]
    BY <1>3 DEF Computed
  <2> HIDE DEF p
  <2>3. h[n][p] = value(n, p)
    BY <2>1, <1>h
  <2> QED BY <2>1, <2>2, <2>3
<1>5. Eqn(f)
  BY <1>4
<1> HIDE DEF Eqn
<1>6. Eqn(LeftTaken(arr, l, m, r))
  <2>1. LeftTaken(arr, l, m, r) = CHOOSE i : Eqn(i)
    BY DEF LeftTaken, Eqn, Turn
  <2> QED BY <1>5, <2>1
<1> DEFINE i == LeftTaken(arr, l, m, r)
<1> HIDE DEF i
<1>7. i[0] = 0 /\ \A k \in Nat : i[k + 1] = Turn(k + 1, i[k])
  <2>0. Eqn(i)
    BY <1>6 DEF i
  <2>1. i = [k \in Nat |-> IF k = 0 THEN 0 ELSE Turn(k, i[k - 1])]
    BY <2>0 DEF Eqn
  <2>2. \A k \in Nat : i[k] = IF k = 0 THEN 0 ELSE Turn(k, i[k - 1])
    BY <2>1
  <2>3. ASSUME NEW k \in Nat PROVE i[k + 1] = Turn(k + 1, i[k])
    <3>1. k + 1 \in Nat /\ k + 1 # 0 /\ (k + 1) - 1 = k
      OBVIOUS
    <3>2. i[k + 1] = IF k + 1 = 0 THEN 0 ELSE Turn(k + 1, i[(k + 1) - 1])
      BY <3>1, <2>2
    <3> QED BY <3>1, <3>2
  <2> QED BY <2>2, <2>3
<1>8. i \in [Nat -> Nat]
  <2> DEFINE T == {k \in Nat : i[k] \in Nat}
  <2>1. 0 \in T
    BY <1>7
  <2>2. ASSUME NEW k \in Nat, k \in T PROVE k + 1 \in T
    <3>1. k + 1 \in Nat /\ i[k] \in Nat
      BY <2>2
    <3>2. Turn(k + 1, i[k]) \in Nat
      BY <3>1, <1>1
    <3> QED BY <3>1, <3>2, <1>7
  <2> HIDE DEF T
  <2>3. \A k \in Nat : k \in T
    BY <2>1, <2>2, NatSetInduction
  <2>4. \A k \in Nat : i[k] \in Nat
    BY <2>3 DEF T
  <2>5. Eqn(i)
    BY <1>6 DEF i
  <2>6. i = [k \in Nat |-> IF k = 0 THEN 0 ELSE Turn(k, i[k - 1])]
    BY <2>5 DEF Eqn
  <2>7. ASSUME NEW k \in Nat PROVE (IF k = 0 THEN 0 ELSE Turn(k, i[k - 1])) \in Nat
    BY <2>4, <2>6
  <2> QED BY <2>6, <2>7
<1>9. ASSUME NEW k \in Nat 
      PROVE  i[k + 1] = IF FromLeft(arr, l, m, r, i[k], k - i[k]) THEN i[k] + 1 ELSE i[k]
  <2>1. (k + 1) - 1 - i[k] = k - i[k]
    BY <1>8
  <2> QED BY <2>1, <1>7 DEF Turn
<1>10. Turns(i, arr, l, m, r)
  BY <1>7, <1>8, <1>9 DEF Turns
<1> QED BY <1>10 DEF i

\* a is an array on D, and l .. m and m + 1 .. r are two runs of it.
Runs(a, D, l, m, r) ==
  /\ a \in [D -> Int] /\ l \in Int /\ m \in Int /\ r \in Int
  /\ l <= m /\ m < r /\ l .. r \subseteq D

\* No turn takes more than a run has: what the loops' conditions are for.
LEMMA TurnsStayInside ==
  ASSUME NEW D, NEW a, NEW l, NEW m, NEW r, NEW i, Runs(a, D, l, m, r), Turns(i, a, l, m, r)
  PROVE  \A k \in Nat : k <= r - l + 1 => i[k] <= m - l + 1 /\ i[k] <= k /\ k - i[k] <= r - m
<1> DEFINE T == {k \in Nat : k <= r - l + 1 => i[k] <= m - l + 1 /\ i[k] <= k /\ k - i[k] <= r - m}
<1>0. l \in Int /\ m \in Int /\ r \in Int /\ l <= m /\ m < r
  BY DEF Runs
<1>1. 0 \in T
  BY <1>0 DEF Turns
<1>2. ASSUME NEW k \in Nat, k \in T PROVE k + 1 \in T
  <2> SUFFICES ASSUME k + 1 <= r - l + 1
               PROVE  i[k + 1] <= m - l + 1 /\ i[k + 1] <= k + 1 /\ (k + 1) - i[k + 1] <= r - m
    BY DEF T
  <2>1. PICK n \in Nat : n = i[k]
    BY DEF Turns
  <2>2. n <= m - l + 1 /\ n <= k /\ k - n <= r - m
    BY <1>2, <2>1, <1>0
  <2>3. i[k + 1] = IF FromLeft(a, l, m, r, n, k - n) THEN n + 1 ELSE n
    BY <2>1 DEF Turns
  <2>4. CASE FromLeft(a, l, m, r, n, k - n)
    <3>1. n < m - l + 1
      BY <2>4 DEF FromLeft
    <3>2. i[k + 1] = n + 1
      BY <2>3, <2>4
    <3> QED BY <3>1, <3>2, <2>2, <1>0
  <2>5. CASE ~FromLeft(a, l, m, r, n, k - n)
    <3>1. ~(n < m - l + 1) \/ k - n # r - m
      BY <2>5 DEF FromLeft
    <3>2. i[k + 1] = n
      BY <2>3, <2>5
    <3> QED BY <3>1, <3>2, <2>2, <1>0
  <2> QED BY <2>4, <2>5
<1> HIDE DEF T
<1>3. \A k \in Nat : k \in T
  BY <1>1, <1>2, NatSetInduction
<1> QED BY <1>3 DEF T

\* What was taken stays taken, from either run.
LEMMA TurnsGrow ==
  ASSUME NEW a, NEW l, NEW m, NEW r, NEW i, Turns(i, a, l, m, r), NEW k \in Nat
  PROVE  \A d \in Nat : i[k] <= i[k + d] /\ i[k + d] <= i[k] + d
<1> DEFINE T == {d \in Nat : i[k] <= i[k + d] /\ i[k + d] <= i[k] + d}
<1>0. i[k] \in Nat
  BY DEF Turns
<1>1. 0 \in T
  BY <1>0
<1>2. ASSUME NEW d \in Nat, d \in T PROVE d + 1 \in T
  <2>1. k + d \in Nat /\ k + (d + 1) = (k + d) + 1
    OBVIOUS
  <2>2. i[k + d] \in Nat
    BY <2>1 DEF Turns
  <2>3. i[(k + d) + 1] = i[k + d] \/ i[(k + d) + 1] = i[k + d] + 1
    BY <2>1 DEF Turns
  <2>4. i[k] <= i[k + d] /\ i[k + d] <= i[k] + d
    BY <1>2
  <2> QED BY <2>1, <2>2, <2>3, <2>4, <1>0
<1> HIDE DEF T
<1>3. \A d \in Nat : d \in T
  BY <1>1, <1>2, NatSetInduction
<1> QED BY <1>3 DEF T

\* The place the element merged into k comes from.
From(i, a, l, m, r, k) ==
  IF k \notin l .. r THEN k
  ELSE IF FromLeft(a, l, m, r, i[k - l], k - l - i[k - l]) THEN l + i[k - l]
  ELSE m + 1 + (k - l - i[k - l])

\* Every place of l .. r gets an element of its own run, the next one of that run.
LEMMA FromInside ==
  ASSUME NEW D, NEW a, NEW l, NEW m, NEW r, NEW i, Runs(a, D, l, m, r), Turns(i, a, l, m, r),
         NEW k \in l .. r
  PROVE  /\ i[k - l] \in Nat /\ k - l - i[k - l] \in Nat
         /\ FromLeft(a, l, m, r, i[k - l], k - l - i[k - l]) =>
              /\ From(i, a, l, m, r, k) = l + i[k - l] /\ l + i[k - l] \in l .. m
              /\ i[k + 1 - l] = i[k - l] + 1
         /\ ~FromLeft(a, l, m, r, i[k - l], k - l - i[k - l]) =>
              /\ From(i, a, l, m, r, k) = m + 1 + (k - l - i[k - l])
              /\ m + 1 + (k - l - i[k - l]) \in m + 1 .. r
              /\ i[k + 1 - l] = i[k - l]
<1>0. l \in Int /\ m \in Int /\ r \in Int /\ l <= m /\ m < r /\ k \in Int
  BY DEF Runs
<1>1. PICK t \in Nat : t = k - l
  BY <1>0
<1>2. PICK n \in Nat : n = i[t]
  BY DEF Turns
<1>3. t <= r - l
  BY <1>0, <1>1
<1>4. n <= m - l + 1 /\ n <= t /\ t - n <= r - m
  BY <1>0, <1>2, <1>3, TurnsStayInside
<1>5. k + 1 - l = t + 1
  BY <1>0, <1>1
<1>6. i[t + 1] = IF FromLeft(a, l, m, r, n, t - n) THEN n + 1 ELSE n
  BY <1>2 DEF Turns
<1>7. CASE FromLeft(a, l, m, r, n, t - n)
  <2>1. n < m - l + 1
    BY <1>7 DEF FromLeft
  <2>2. From(i, a, l, m, r, k) = l + n
    BY <1>1, <1>2, <1>7 DEF From
  <2>3. l + n \in l .. m
    BY <2>1, <1>0
  <2> QED BY <2>2, <2>3, <1>1, <1>2, <1>4, <1>5, <1>6, <1>7
<1>8. CASE ~FromLeft(a, l, m, r, n, t - n)
  <2>0. n = m - l + 1 \/ t - n # r - m
    BY <1>8, <1>4, <1>0 DEF FromLeft
  <2>1. t - n < r - m
    BY <2>0, <1>4, <1>0, <1>3
  <2>2. From(i, a, l, m, r, k) = m + 1 + (t - n)
    BY <1>1, <1>2, <1>8 DEF From
  <2>3. m + 1 + (t - n) \in m + 1 .. r
    BY <2>1, <1>4, <1>0
  <2> QED BY <2>2, <2>3, <1>1, <1>2, <1>4, <1>5, <1>6, <1>8
<1> QED BY <1>7, <1>8

\* No element is merged into two places.
LEMMA FromInjective ==
  ASSUME NEW D, NEW a, NEW l, NEW m, NEW r, NEW i, Runs(a, D, l, m, r), Turns(i, a, l, m, r),
         NEW k \in l .. r, NEW q \in l .. r, k < q
  PROVE  From(i, a, l, m, r, k) # From(i, a, l, m, r, q)
<1>0. l \in Int /\ m \in Int /\ r \in Int /\ l <= m /\ m < r /\ k \in Int /\ q \in Int
  BY DEF Runs
<1>1. PICK t \in Nat, u \in Nat, d \in Nat : t = k - l /\ u = q - l /\ u = t + 1 + d
  <2>1. k - l \in Nat /\ q - l \in Nat /\ q - k - 1 \in Nat
    BY <1>0
  <2>2. q - l = (k - l) + 1 + (q - k - 1)
    BY <1>0
  <2> QED BY <2>1, <2>2
<1>t. t + 1 \in Nat
  OBVIOUS
<1>i. i[t] \in Nat /\ i[u] \in Nat /\ i[t + 1] \in Nat
  BY <1>t DEF Turns
<1>2. PICK n \in Nat, p \in Nat, s \in Nat : n = i[t] /\ p = i[u] /\ s = i[t + 1]
  BY <1>i
<1>3. s <= p /\ p <= s + d
  <2>1. i[t + 1] <= i[(t + 1) + d] /\ i[(t + 1) + d] <= i[t + 1] + d
    BY <1>t, TurnsGrow
  <2> QED BY <2>1, <1>1, <1>2
<1>4. k + 1 - l = t + 1
  BY <1>0, <1>1
<1>5. \/ From(i, a, l, m, r, k) = l + n /\ l + n <= m /\ s = n + 1
      \/ From(i, a, l, m, r, k) = m + 1 + (t - n) /\ t - n \in Nat /\ s = n
  <2>1. /\ t - n \in Nat
        /\ \/ From(i, a, l, m, r, k) = l + n /\ l + n \in l .. m /\ s = n + 1
           \/ From(i, a, l, m, r, k) = m + 1 + (t - n) /\ s = n
    BY FromInside, <1>1, <1>2, <1>4
  <2> QED BY <2>1, <1>0
<1>6. \/ From(i, a, l, m, r, q) = l + p /\ l + p <= m
      \/ From(i, a, l, m, r, q) = m + 1 + (u - p) /\ u - p \in Nat
  <2>1. /\ u - p \in Nat
        /\ \/ From(i, a, l, m, r, q) = l + p /\ l + p \in l .. m
           \/ From(i, a, l, m, r, q) = m + 1 + (u - p)
    BY FromInside, <1>1, <1>2
  <2> QED BY <2>1, <1>0
<1>7. PICK x, y : x = From(i, a, l, m, r, k) /\ y = From(i, a, l, m, r, q)
  OBVIOUS
<1>8. \/ x = l + n /\ l + n <= m /\ s = n + 1
      \/ x = m + 1 + (t - n) /\ t - n \in Nat /\ s = n
  BY <1>5, <1>7
<1>9. \/ y = l + p /\ l + p <= m
      \/ y = m + 1 + (u - p) /\ u - p \in Nat
  BY <1>6, <1>7
<1>10. x # y
  BY ONLY <1>8, <1>9, <1>3, <1>1, n \in Nat, p \in Nat, s \in Nat, t \in Nat, u \in Nat, d \in Nat, <1>0
<1> QED BY <1>7, <1>10

\* b is the array a with the elements of the places l .. r put in another order.
Rearranged(b, a, D, l, r) ==
  \E from \in [D -> D] :
    /\ \A x, y \in D : x # y => from[x] # from[y]
    /\ \A x \in D : from[x] = x \/ (x \in l .. r /\ from[x] \in l .. r)
    /\ b = [x \in D |-> a[from[x]]]

\* The run l .. r of b is in ascending order.
Ascends(b, l, r) == \A k \in l .. r - 1 : b[k] <= b[k + 1]

\* merge in terms of the place each element comes from.
LEMMA MergedFrom ==
  ASSUME NEW D, NEW a, NEW l, NEW m, NEW r, Runs(a, D, l, m, r)
  PROVE  Merged(a, l, m, r) = [k \in D |-> a[From(LeftTaken(a, l, m, r), a, l, m, r, k)]]
<1> DEFINE i == LeftTaken(a, l, m, r)
           next(k) == IF k \notin l .. r THEN a[k]
                      ELSE IF FromLeft(a, l, m, r, i[k - l], k - l - i[k - l]) THEN a[l + i[k - l]]
                      ELSE a[m + 1 + (k - l - i[k - l])]
<1>1. D = DOMAIN a
  BY DEF Runs
<1>2. Merged(a, l, m, r) = [k \in D |-> next(k)]
  BY <1>1 DEF Merged
<1> HIDE DEF i
<1>3. ASSUME NEW k \in D PROVE next(k) = a[From(i, a, l, m, r, k)]
  <2>1. CASE k \notin l .. r
    BY <2>1 DEF From
  <2>2. CASE k \in l .. r /\ FromLeft(a, l, m, r, i[k - l], k - l - i[k - l])
    BY <2>2 DEF From
  <2>3. CASE k \in l .. r /\ ~FromLeft(a, l, m, r, i[k - l], k - l - i[k - l])
    BY <2>3 DEF From
  <2> QED BY <2>1, <2>2, <2>3
<1> HIDE DEF next
<1>4. Merged(a, l, m, r) = [k \in D |-> a[From(i, a, l, m, r, k)]]
  BY <1>2, <1>3
<1> QED BY <1>4 DEF i

\* The merge loses and duplicates nothing and leaves the rest of the array alone.
LEMMA MergedRearranges ==
  ASSUME NEW D, NEW a, NEW l, NEW m, NEW r, Runs(a, D, l, m, r)
  PROVE  Rearranged(Merged(a, l, m, r), a, D, l, r)
<1> DEFINE i == LeftTaken(a, l, m, r)
<1>1. Turns(i, a, l, m, r) /\ Merged(a, l, m, r) = [k \in D |-> a[From(i, a, l, m, r, k)]]
  BY LeftTakenTurns, MergedFrom
<1> HIDE DEF i
<1> DEFINE F(k) == From(i, a, l, m, r, k)
           from == [k \in D |-> F(k)]
<1>2. \A k \in D : k \notin l .. r => F(k) = k
  BY DEF From
<1>3. \A k \in l .. r : F(k) \in l .. r
  <2> TAKE k \in l .. r
  <2>1. F(k) \in l .. m \/ F(k) \in m + 1 .. r
    BY <1>1, FromInside
  <2>2. l \in Int /\ m \in Int /\ r \in Int /\ l <= m /\ m < r
    BY DEF Runs
  <2> HIDE DEF F
  <2> QED BY <2>1, <2>2
<1>4. \A k, q \in l .. r : k # q => F(k) # F(q)
  <2> TAKE k, q \in l .. r
  <2> HAVE k # q
  <2>1. k < q \/ q < k
    BY DEF Runs
  <2>2. ASSUME k < q PROVE F(k) # F(q)
    BY <2>2, <1>1, FromInjective
  <2>3. ASSUME q < k PROVE F(q) # F(k)
    BY <2>3, <1>1, FromInjective
  <2> QED BY <2>1, <2>2, <2>3
<1> HIDE DEF F
<1>5. l .. r \subseteq D
  BY DEF Runs
<1>6. \A k \in D : from[k] = F(k)
  OBVIOUS
<1>7. from \in [D -> D]
  <2> SUFFICES ASSUME NEW k \in D PROVE F(k) \in D
    OBVIOUS
  <2> QED BY <1>2, <1>3, <1>5
<1>8. Merged(a, l, m, r) = [x \in D |-> a[from[x]]]
  BY <1>1, <1>6 DEF F
<1> HIDE DEF from
<1>9. \A x, y \in D : x # y => from[x] # from[y]
  <2> TAKE x, y \in D
  <2> HAVE x # y
  <2>1. CASE x \in l .. r /\ y \in l .. r
    BY <2>1, <1>4, <1>6
  <2>2. CASE x \notin l .. r \/ y \notin l .. r
    BY <2>2, <1>2, <1>3, <1>6
  <2> QED BY <2>1, <2>2
<1>10. \A x \in D : from[x] = x \/ (x \in l .. r /\ from[x] \in l .. r)
  BY <1>2, <1>3, <1>6
<1> QED BY <1>7, <1>8, <1>9, <1>10 DEF Rearranged

\* Two ascending runs are merged into one.
LEMMA MergedAscends ==
  ASSUME NEW D, NEW a, NEW l, NEW m, NEW r, Runs(a, D, l, m, r),
         Ascends(a, l, m), Ascends(a, m + 1, r)
  PROVE  Ascends(Merged(a, l, m, r), l, r)
<1> DEFINE i == LeftTaken(a, l, m, r)
<1>1. Turns(i, a, l, m, r) /\ Merged(a, l, m, r) = [k \in D |-> a[From(i, a, l, m, r, k)]]
  BY LeftTakenTurns, MergedFrom
<1> HIDE DEF i
<1>0. /\ l \in Int /\ m \in Int /\ r \in Int /\ l <= m /\ m < r /\ l .. r \subseteq D 
      /\ a \in [D -> Int]
  BY DEF Runs
<1> SUFFICES ASSUME NEW k \in l .. r - 1
             PROVE  a[From(i, a, l, m, r, k)] <= a[From(i, a, l, m, r, k + 1)]
  <2>1. \A k \in l .. r - 1 : k \in D /\ k + 1 \in D
    BY <1>0
  <2>2. \A k \in l .. r - 1 : a[From(i, a, l, m, r, k)] <= a[From(i, a, l, m, r, k + 1)]
    OBVIOUS
  <2> DEFINE b == Merged(a, l, m, r)
  <2>3. \A k \in D : b[k] = a[From(i, a, l, m, r, k)]
    BY <1>1
  <2> HIDE DEF b
  <2>4. \A k \in l .. r - 1 : b[k] <= b[k + 1]
    BY <2>1, <2>2, <2>3
  <2> QED BY <2>4 DEF Ascends, b
<1>2. k \in l .. r /\ k + 1 \in l .. r /\ k \in Int
  BY <1>0
<1>3. PICK t \in Nat : t = k - l /\ t + 1 = k + 1 - l
  BY <1>0, <1>2
<1>4. PICK n \in Nat, s \in Nat : n = i[t] /\ s = i[t + 1]
  <2>1. t + 1 \in Nat
    OBVIOUS
  <2>2. i[t] \in Nat /\ i[t + 1] \in Nat
    BY <1>1, <2>1 DEF Turns
  <2> QED BY <2>2
<1> DEFINE x == From(i, a, l, m, r, k)
           y == From(i, a, l, m, r, k + 1)
<1>5. /\ t - n \in Nat
      /\ FromLeft(a, l, m, r, n, t - n) => x = l + n /\ x \in l .. m /\ s = n + 1
      /\ ~FromLeft(a, l, m, r, n, t - n) => x = m + 1 + (t - n) /\ x \in m + 1 .. r /\ s = n
  BY <1>1, <1>2, <1>3, <1>4, FromInside
<1>6. /\ (t + 1) - s \in Nat
      /\ FromLeft(a, l, m, r, s, (t + 1) - s) => y = l + s /\ y \in l .. m
      /\ ~FromLeft(a, l, m, r, s, (t + 1) - s) => y = m + 1 + ((t + 1) - s) /\ y \in m + 1 .. r
  <2>1. PICK q \in l .. r : q = k + 1
    BY <1>2
  <2>2. q - l = t + 1
    BY <2>1, <1>0, <1>2, <1>3
  <2>3. y = From(i, a, l, m, r, q)
    BY <2>1
  <2> HIDE DEF y
  <2>4. /\ q - l - i[q - l] \in Nat
        /\ FromLeft(a, l, m, r, i[q - l], q - l - i[q - l]) =>
              y = l + i[q - l] /\ l + i[q - l] \in l .. m
        /\ ~FromLeft(a, l, m, r, i[q - l], q - l - i[q - l]) =>
              y = m + 1 + (q - l - i[q - l]) /\ m + 1 + (q - l - i[q - l]) \in m + 1 .. r
    BY <1>1, <2>3, FromInside
  <2> QED BY <2>2, <2>4, <1>4
<1> HIDE DEF x, y
<1>9. a[x] <= a[y]
  <2>1. CASE FromLeft(a, l, m, r, n, t - n) /\ FromLeft(a, l, m, r, s, (t + 1) - s)
    <3>1. x \in l .. m - 1 /\ y = x + 1
      BY <2>1, <1>5, <1>6, <1>0
    <3> QED BY <3>1 DEF Ascends
  <2>2. CASE FromLeft(a, l, m, r, n, t - n) /\ ~FromLeft(a, l, m, r, s, (t + 1) - s)
    <3>1. x = l + n /\ y = m + 1 + (t - n) /\ y <= r
      BY <2>2, <1>5, <1>6, <1>0
    <3>2. t - n # r - m
      BY <3>1, <1>0
    <3> QED BY <3>1, <3>2, <2>2 DEF FromLeft
  <2>3. CASE ~FromLeft(a, l, m, r, n, t - n) /\ FromLeft(a, l, m, r, s, (t + 1) - s)
    <3>1. x = m + 1 + (t - n) /\ y = l + n /\ y <= m /\ x \in l .. r /\ y \in l .. r
      BY <2>3, <1>5, <1>6, <1>0
    <3>2. n < m - l + 1
      BY <3>1, <1>0
    <3>3. ~(a[l + n] <= a[m + 1 + (t - n)])
      BY <2>3, <3>2 DEF FromLeft
    <3>4. a[x] \in Int /\ a[y] \in Int
      BY <3>1, <1>0
    <3> QED BY <3>1, <3>3, <3>4
  <2>4. CASE ~FromLeft(a, l, m, r, n, t - n) /\ ~FromLeft(a, l, m, r, s, (t + 1) - s)
    <3>1. x \in m + 1 .. r - 1 /\ y = x + 1
      BY <2>4, <1>5, <1>6, <1>0
    <3> QED BY <3>1 DEF Ascends
  <2> QED BY <2>1, <2>2, <2>3, <2>4
<1> QED BY <1>9 DEF x, y

-----------------------------------------------------------------------------
(* kMergeSort: the recursion, and that it sorts.                             *)

\* A rearranged array is an array.
LEMMA RearrangedIsArray ==
  ASSUME NEW D, NEW a \in [D -> Int], NEW b, NEW l, NEW r, Rearranged(b, a, D, l, r)
  PROVE  b \in [D -> Int]
BY DEF Rearranged

\* Merging two runs of an array gives an array.
LEMMA MergedIsArray ==
  ASSUME NEW D, NEW a, NEW l, NEW m, NEW r, Runs(a, D, l, m, r)
  PROVE  Merged(a, l, m, r) \in [D -> Int]
<1>1. a \in [D -> Int]
  BY DEF Runs
<1> QED BY <1>1, MergedRearranges, RearrangedIsArray

\* Where mergeSort halves a run of n + 1 elements.
LEMMA Halves ==
  ASSUME NEW n \in Nat, n # 0
  PROVE  /\ n \div 2 \in 0 .. n - 1 /\ n - n \div 2 - 1 \in 0 .. n - 1
OBVIOUS

\* What sort[n] does to the run from lo on, given what it does to shorter runs.
SortStep(s, n, a, lo) ==
  IF n = 0 THEN a
  ELSE LET h == n \div 2
       IN Merged(s[n - h - 1][s[h][a][lo]][lo + h + 1], lo, lo + h, lo + n)

\* s is mergeSort on every run inside l .. r of every array on D.
SortsRuns(s, D, l, r) ==
  \A d \in 0 .. r - l, a \in [D -> Int] : \A lo \in l .. r - d :
    s[d][a][lo] = SortStep(s, d, a, lo)

\* mergeSort's recursion has a result: every call is for a shorter run of an array.
LEMMA mergeSortCalls ==
  ASSUME NEW D, NEW arr \in [D -> Int], NEW l \in Int, NEW r \in Int, l <= r, l .. r \subseteq D
  PROVE  \E s : mergeSort(arr, l, r) = s[r - l][arr][l] /\ SortsRuns(s, D, l, r)
<1> DEFINE A == [D -> Int]
           S == [A -> [l .. r -> A]]
           value(n, g, a, lo) == IF lo + n > r THEN a ELSE SortStep(g, n, a, lo)
           h == [n \in Nat |-> [g \in [0 .. n - 1 -> S] |-> [a \in A |-> [lo \in l .. r |-> value(n, g, a, lo)]]]]
<1>1. ASSUME NEW n \in Nat, NEW g \in [0 .. n - 1 -> S], NEW a \in A, NEW lo \in l .. r
      PROVE  value(n, g, a, lo) \in A
  <2>1. CASE lo + n > r
    BY <2>1
  <2>2. CASE ~(lo + n > r) /\ n = 0
    BY <2>2 DEF SortStep
  <2>3. CASE ~(lo + n > r) /\ n # 0
    <3>1. PICK p \in 0 .. n - 1 : p = n \div 2
      BY <2>3, Halves
    <3>2. n - p - 1 \in 0 .. n - 1
      OBVIOUS
    <3>3. lo + p + 1 \in l .. r /\ lo \in Int /\ lo + p \in Int /\ lo + n \in Int /\ lo + n <= r /\ l <= lo
      BY <2>3
    <3>4. g[p] \in S /\ g[n - p - 1] \in S
      BY <3>2
    <3>5. g[p][a][lo] \in A
      <4>1. g[p][a] \in [l .. r -> A]
        <5> HIDE DEF A
        <5> QED BY <3>4
      <4> QED BY <4>1
    <3> DEFINE x == g[n - p - 1][g[p][a][lo]][lo + p + 1]
    <3>6. x \in A
      <4> HIDE DEF A
      <4>1. g[n - p - 1][g[p][a][lo]] \in [l .. r -> A]
        BY <3>4, <3>5
      <4> QED BY <4>1, <3>3
    <3> HIDE DEF x
    <3>7. Runs(x, D, lo, lo + p, lo + n)
      <4>1. lo .. lo + n \subseteq l .. r
        BY <3>3
      <4> QED BY <4>1, <3>6, <3>3 DEF Runs
    <3>8. value(n, g, a, lo) = Merged(x, lo, lo + p, lo + n)
      BY <2>3, <3>1 DEF SortStep, x
    <3> QED BY <3>7, <3>8, MergedIsArray
  <2> QED BY <2>1, <2>2, <2>3
<1>2. Computes(h, S)
  <2> SUFFICES ASSUME NEW n \in Nat, NEW g \in [0 .. n - 1 -> S]
               PROVE  [a \in A |-> [lo \in l .. r |-> value(n, g, a, lo)]] \in S
    BY DEF Computes
  <2>1. ASSUME NEW a \in A PROVE [lo \in l .. r |-> value(n, g, a, lo)] \in [l .. r -> A]
    <3> HIDE DEF value
    <3> QED BY <1>1
  <2> HIDE DEF value
  <2> QED BY <2>1
<1>h. h = [n \in Nat |-> [g \in [0 .. n - 1 -> S] |-> [a \in A |-> [lo \in l .. r |-> value(n, g, a, lo)]]]]
  OBVIOUS
<1> HIDE DEF h, S
<1>3. PICK f \in [Nat -> S] : Computed(f, h)
  BY <1>2, CourseOfValues
<1>4. ASSUME NEW n \in Nat, NEW a \in A, NEW lo \in l .. r PROVE f[n][a][lo] = value(n, f, a, lo)
  <2> DEFINE p == [i \in 0 .. n - 1 |-> f[i]]
  <2>1. p \in [0 .. n - 1 -> S] /\ \A i \in 0 .. n - 1 : p[i] = f[i]
    OBVIOUS
  <2>2. f[n] = h[n][p]
    BY <1>3 DEF Computed
  <2> HIDE DEF p
  <2>3. h[n][p] = [b \in A |-> [lo1 \in l .. r |-> value(n, p, b, lo1)]]
    <3> HIDE DEF value, A
    <3> QED BY <2>1, <1>h
  <2>4. h[n][p][a][lo] = value(n, p, a, lo)
    <3> HIDE DEF value, A
    <3> QED BY <2>3
  <2>5. value(n, p, a, lo) = value(n, f, a, lo)
    <3>1. CASE n = 0
      BY <3>1 DEF SortStep
    <3>2. CASE n # 0
      <4>1. n \div 2 \in 0 .. n - 1 /\ n - n \div 2 - 1 \in 0 .. n - 1
        BY <3>2, Halves
      <4>2. p[n \div 2] = f[n \div 2] /\ p[n - n \div 2 - 1] = f[n - n \div 2 - 1]
        BY <4>1, <2>1
      <4> QED BY <4>2, Zenon DEF SortStep
    <3> QED BY <3>1, <3>2
  <2> QED BY <2>2, <2>4, <2>5
<1> DEFINE Eqn(q) == q = [d \in 0 .. r - l |-> [a \in A |-> [lo \in l .. r - d |-> SortStep(q, d, a, lo)]]]
           s == [d \in 0 .. r - l |-> [a \in A |-> [lo \in l .. r - d |-> f[d][a][lo]]]]
<1>5. \A d \in 0 .. r - l, a \in A : \A lo \in l .. r - d : s[d][a][lo] = f[d][a][lo]
  <2> HIDE DEF A
  <2> QED OBVIOUS
<1>s. s = [d \in 0 .. r - l |-> [a \in A |-> [lo \in l .. r - d |-> f[d][a][lo]]]]
  OBVIOUS
<1> HIDE DEF s
<1>6. ASSUME NEW d \in 0 .. r - l, NEW a \in A, NEW lo \in l .. r - d
      PROVE  f[d][a][lo] = SortStep(s, d, a, lo)
  <2>1. d \in Nat /\ lo \in l .. r /\ ~(lo + d > r)
    OBVIOUS
  <2>2. f[d][a][lo] = SortStep(f, d, a, lo)
    BY <1>4, <2>1
  <2>3. CASE d = 0
    BY <2>3, <2>2 DEF SortStep
  <2>4. CASE d # 0
    <3>1. PICK p \in 0 .. d - 1 : p = d \div 2
      BY <2>1, <2>4, Halves
    <3>2. /\ p \in 0 .. r - l /\ d - p - 1 \in 0 .. r - l 
          /\ lo \in l .. r - p /\ lo + p + 1 \in l .. r - (d - p - 1)
          /\ p \in Nat /\ d - p - 1 \in Nat /\ lo + p + 1 \in l .. r
      OBVIOUS
    <3>3. s[p][a][lo] = f[p][a][lo]
      BY <1>5, <3>2
    <3>4. f[p][a][lo] \in A
      <4> HIDE DEF A
      <4>1. f[p] \in S
        BY <3>2
      <4>2. f[p][a] \in [l .. r -> A]
        BY <4>1 DEF S
      <4> QED BY <4>2, <2>1
    <3>5. s[d - p - 1][f[p][a][lo]][lo + p + 1] = f[d - p - 1][f[p][a][lo]][lo + p + 1]
      <4> HIDE DEF A
      <4>1. PICK e \in 0 .. r - l, b \in A : e = d - p - 1 /\ b = f[p][a][lo]
        BY <3>2, <3>4
      <4>2. PICK w \in l .. r - e : w = lo + p + 1
        BY <3>2, <4>1
      <4>3. s[e][b][w] = f[e][b][w]
        BY <1>5
      <4> QED BY <4>1, <4>2, <4>3
    <3>6. s[d - p - 1][s[p][a][lo]][lo + p + 1] = f[d - p - 1][f[p][a][lo]][lo + p + 1]
      BY <3>3, <3>5
    <3>7. SortStep(f, d, a, lo) = Merged(f[d - p - 1][f[p][a][lo]][lo + p + 1], lo, lo + p, lo + d)
      BY <2>4, <3>1 DEF SortStep
    <3>8. SortStep(s, d, a, lo) = Merged(s[d - p - 1][s[p][a][lo]][lo + p + 1], lo, lo + p, lo + d)
      BY <2>4, <3>1 DEF SortStep
    <3> QED BY <2>2, <3>6, <3>7, <3>8
  <2> QED BY <2>3, <2>4
<1>7. Eqn(s)
  <2> HIDE DEF A
  <2>1. \A d \in 0 .. r - l, a \in A : \A lo \in l .. r - d : f[d][a][lo] = SortStep(s, d, a, lo)
    BY <1>6
  <2>2. \A d \in 0 .. r - l : [a \in A |-> [lo \in l .. r - d |-> f[d][a][lo]]]
                            = [a \in A |-> [lo \in l .. r - d |-> SortStep(s, d, a, lo)]]
    BY <2>1
  <2> QED BY <2>2, <1>s
<1> HIDE DEF Eqn
<1> DEFINE c == CHOOSE q : Eqn(q)
<1>8. Eqn(c)
  BY <1>7
<1>9. mergeSort(arr, l, r) = c[r - l][arr][l]
  <2>1. DOMAIN arr = D
    OBVIOUS
  <2> QED BY <2>1, Zenon DEF mergeSort, c, Eqn, SortStep
<1> HIDE DEF c
<1>10. \A d \in 0 .. r - l, a \in A : \A lo \in l .. r - d : c[d][a][lo] = SortStep(c, d, a, lo)
  <2>1. c = [d \in 0 .. r - l |-> [a \in A |-> [lo \in l .. r - d |-> SortStep(c, d, a, lo)]]]
    BY <1>8 DEF Eqn
  <2> DEFINE v(d, a, lo) == SortStep(c, d, a, lo)
  <2>2. c = [d \in 0 .. r - l |-> [a \in A |-> [lo \in l .. r - d |-> v(d, a, lo)]]]
    BY <2>1
  <2> HIDE DEF A, v
  <2>3. \A d \in 0 .. r - l, a \in A : \A lo \in l .. r - d : c[d][a][lo] = v(d, a, lo)
    BY <2>2
  <2> QED BY <2>3 DEF v
<1>11. SortsRuns(c, D, l, r)
  BY <1>10 DEF SortsRuns
<1> QED BY <1>9, <1>11

\* Rearranging a part of a run rearranges the run.
LEMMA RearrangedWithin ==
  ASSUME NEW D, NEW a, NEW b, NEW l, NEW r, NEW x, NEW y,
         Rearranged(b, a, D, x, y), x .. y \subseteq l .. r
  PROVE  Rearranged(b, a, D, l, r)
<1>1. PICK from \in [D -> D] :
        /\ \A u, v \in D : u # v => from[u] # from[v]
        /\ \A u \in D : from[u] = u \/ (u \in x .. y /\ from[u] \in x .. y)
        /\ b = [u \in D |-> a[from[u]]]
  BY DEF Rearranged
<1>2. \A u \in D : from[u] = u \/ (u \in l .. r /\ from[u] \in l .. r)
  BY <1>1
<1> QED BY <1>1, <1>2 DEF Rearranged

\* Rearranging twice is rearranging once.
LEMMA RearrangedTwice ==
  ASSUME NEW D, NEW a, NEW b, NEW c, NEW l, NEW r,
         Rearranged(b, a, D, l, r), Rearranged(c, b, D, l, r)
  PROVE  Rearranged(c, a, D, l, r)
<1>1. PICK f \in [D -> D] :
        /\ \A u, v \in D : u # v => f[u] # f[v]
        /\ \A u \in D : f[u] = u \/ (u \in l .. r /\ f[u] \in l .. r)
        /\ b = [u \in D |-> a[f[u]]]
  BY DEF Rearranged
<1>2. PICK g \in [D -> D] :
        /\ \A u, v \in D : u # v => g[u] # g[v]
        /\ \A u \in D : g[u] = u \/ (u \in l .. r /\ g[u] \in l .. r)
        /\ c = [u \in D |-> b[g[u]]]
  BY DEF Rearranged
<1> DEFINE from == [u \in D |-> f[g[u]]]
<1>3. from \in [D -> D] /\ \A u \in D : from[u] = f[g[u]]
  OBVIOUS
<1> HIDE DEF from
<1>4. \A u, v \in D : u # v => from[u] # from[v]
  <2> TAKE u, v \in D
  <2> HAVE u # v
  <2>1. g[u] \in D /\ g[v] \in D /\ g[u] # g[v]
    BY <1>2
  <2>2. f[g[u]] # f[g[v]]
    BY <2>1, <1>1
  <2> QED BY <2>2, <1>3
<1>5. \A u \in D : from[u] = u \/ (u \in l .. r /\ from[u] \in l .. r)
  <2> TAKE u \in D
  <2>1. g[u] \in D /\ (g[u] = u \/ (u \in l .. r /\ g[u] \in l .. r))
    BY <1>2
  <2>2. f[g[u]] = g[u] \/ (g[u] \in l .. r /\ f[g[u]] \in l .. r)
    BY <2>1, <1>1
  <2> QED BY <2>1, <2>2, <1>3
<1>6. c = [u \in D |-> a[from[u]]]
  <2>1. \A u \in D : b[g[u]] = a[from[u]]
    <3> TAKE u \in D
    <3>1. g[u] \in D /\ \A w \in D : b[w] = a[f[w]]
      BY <1>1
    <3> QED BY <3>1, <1>3
  <2> QED BY <2>1, <1>2
<1> QED BY <1>3, <1>4, <1>5, <1>6 DEF Rearranged

\* Rearranging l .. r leaves the other places alone.
LEMMA RearrangedElsewhere ==
  ASSUME NEW D, NEW a, NEW b, NEW l, NEW r, Rearranged(b, a, D, l, r), NEW x \in D, x \notin l .. r
  PROVE  b[x] = a[x]
BY DEF Rearranged

\* mergeSort puts the elements of l .. r in ascending order: it loses none, makes none
\* up and touches nothing else, for arrays and runs of any length.
THEOREM mergeSortSorts ==
  ASSUME NEW D, NEW arr \in [D -> Int], NEW l \in Int, NEW r \in Int, l <= r, l .. r \subseteq D
  PROVE  /\ Ascends(mergeSort(arr, l, r), l, r)
         /\ Rearranged(mergeSort(arr, l, r), arr, D, l, r)
<1>1. PICK s : mergeSort(arr, l, r) = s[r - l][arr][l] /\ SortsRuns(s, D, l, r)
  BY mergeSortCalls
<1> DEFINE Good(d) == \A a \in [D -> Int] : \A lo \in l .. r - d :
                        /\ Ascends(s[d][a][lo], lo, lo + d)
                        /\ Rearranged(s[d][a][lo], a, D, lo, lo + d)
           T == {d \in Nat : d <= r - l => Good(d)}
<1>2. ASSUME NEW d \in Nat, \A k \in 0 .. d - 1 : k \in T PROVE d \in T
  <2> SUFFICES ASSUME d <= r - l, NEW a \in [D -> Int], NEW lo \in l .. r - d
               PROVE  /\ Ascends(s[d][a][lo], lo, lo + d)
                      /\ Rearranged(s[d][a][lo], a, D, lo, lo + d)
    OBVIOUS
  <2>1. s[d][a][lo] = SortStep(s, d, a, lo)
    BY <1>1 DEF SortsRuns
  <2>2. CASE d = 0
    <3>1. s[d][a][lo] = a
      BY <2>1, <2>2 DEF SortStep
    <3>2. Ascends(a, lo, lo + d)
      BY <2>2 DEF Ascends
    <3>3. Rearranged(a, a, D, lo, lo + d)
      <4> DEFINE id == [x \in D |-> x]
      <4>1. id \in [D -> D] /\ (\A x \in D : id[x] = x) /\ a = [x \in D |-> a[id[x]]]
        OBVIOUS
      <4> HIDE DEF id
      <4> QED BY <4>1 DEF Rearranged
    <3> QED BY <3>1, <3>2, <3>3
  <2>3. CASE d # 0
    <3>1. PICK h \in 0 .. d - 1 : h = d \div 2
      BY <2>3, Halves
    <3>2. PICK e \in 0 .. d - 1 : e = d - h - 1
      OBVIOUS
    <3>3. /\ h \in Nat /\ e \in Nat /\ h <= r - l /\ e <= r - l
          /\ lo \in l .. r - h /\ lo + h + 1 \in l .. r - e /\ lo + h + 1 + e = lo + d /\ lo \in Int
      BY <3>2
    <3>4. Good(h) /\ Good(e)
      <4>1. h \in T /\ e \in T
        BY <1>2
      <4> HIDE DEF Good
      <4> QED BY <4>1, <3>3
    <3> HIDE DEF T
    <3> DEFINE b == s[h][a][lo]
               c == s[e][b][lo + h + 1]
    <3>5. Ascends(b, lo, lo + h) /\ Rearranged(b, a, D, lo, lo + h)
      BY <3>3, <3>4
    <3>6. b \in [D -> Int]
      <4> HIDE DEF b
      <4> QED BY <3>5, RearrangedIsArray
    <3>7. Ascends(c, lo + h + 1, lo + d) /\ Rearranged(c, b, D, lo + h + 1, lo + d)
      <4> HIDE DEF b
      <4> QED BY <3>3, <3>4, <3>6
    <3>8. s[d][a][lo] = Merged(c, lo, lo + h, lo + d)
      BY <2>1, <2>3, <3>1, <3>2 DEF SortStep
    <3> HIDE DEF b, c
    <3>9. c \in [D -> Int]
      BY <3>6, <3>7, RearrangedIsArray
    <3>10. lo .. lo + d \subseteq D
      <4>1. lo .. lo + d \subseteq l .. r
        OBVIOUS
      <4> QED BY <4>1
    <3>11. Runs(c, D, lo, lo + h, lo + d)
      BY <3>3, <3>9, <3>10 DEF Runs
    <3>12. Ascends(c, lo, lo + h)
      <4>1. \A k \in lo .. lo + h : k \in D /\ k \notin lo + h + 1 .. lo + d
        BY <3>3, <3>10
      <4>2. \A k \in lo .. lo + h : c[k] = b[k]
        BY <4>1, <3>7, RearrangedElsewhere
      <4>3. \A k \in lo .. lo + h - 1 : k \in lo .. lo + h /\ k + 1 \in lo .. lo + h
        BY <3>3
      <4> QED BY <4>2, <4>3, <3>5 DEF Ascends
    <3>13. Ascends(s[d][a][lo], lo, lo + d)
      BY <3>7, <3>8, <3>11, <3>12, MergedAscends
    <3>14. Rearranged(s[d][a][lo], c, D, lo, lo + d)
      BY <3>8, <3>11, MergedRearranges
    <3>15. lo .. lo + h \subseteq lo .. lo + d /\ lo + h + 1 .. lo + d \subseteq lo .. lo + d
      BY <3>3
    <3>16. Rearranged(b, a, D, lo, lo + d) /\ Rearranged(c, b, D, lo, lo + d)
      BY <3>5, <3>7, <3>15, RearrangedWithin
    <3>17. Rearranged(s[d][a][lo], a, D, lo, lo + d)
      BY <3>14, <3>16, RearrangedTwice
    <3> QED BY <3>13, <3>17
  <2> QED BY <2>2, <2>3
<1> HIDE DEF T
<1>3. \A d \in Nat : d \in T
  BY <1>2, NatSetStrongInduction
<1>4. r - l \in Nat /\ l \in l .. r - (r - l) /\ l + (r - l) = r
  OBVIOUS
<1>5. Good(r - l)
  <2> HIDE DEF Good
  <2>1. r - l \in T
    BY <1>3, <1>4
  <2> QED BY <1>4, <2>1 DEF T
<1> QED BY <1>1, <1>4, <1>5

\* An ascending run is ascending from any place to any later one.
LEMMA AscendsFar ==
  ASSUME NEW l \in Int, NEW r \in Int, NEW b, \A k \in l .. r : b[k] \in Int, Ascends(b, l, r),
         NEW x \in l .. r, NEW y \in l .. r, x <= y
  PROVE  b[x] <= b[y]
<1> DEFINE T == {d \in Nat : x + d <= r => b[x] <= b[x + d]}
<1>1. 0 \in T
  OBVIOUS
<1>2. ASSUME NEW d \in Nat, d \in T PROVE d + 1 \in T
  <2> SUFFICES ASSUME x + (d + 1) <= r PROVE b[x] <= b[x + (d + 1)]
    OBVIOUS
  <2>1. x + d \in l .. r - 1 /\ x + d \in l .. r /\ (x + d) + 1 \in l .. r /\ x + (d + 1) = (x + d) + 1
    OBVIOUS
  <2>2. b[x + d] <= b[(x + d) + 1]
    BY <2>1 DEF Ascends
  <2>3. b[x] <= b[x + d]
    BY <1>2, <2>1
  <2>4. b[x] \in Int /\ b[x + d] \in Int /\ b[(x + d) + 1] \in Int
    BY <2>1
  <2> QED BY <2>1, <2>2, <2>3, <2>4
<1> HIDE DEF T
<1>3. \A d \in Nat : d \in T
  BY <1>1, <1>2, NatSetInduction
<1>4. y - x \in Nat /\ x + (y - x) = y /\ y <= r
  OBVIOUS
<1>5. y - x \in T
  BY <1>3, <1>4
<1> QED BY <1>4, <1>5 DEF T

\* In a sorted array the place of an element is its rank.
LEMMA PlaceIsRank ==
  ASSUME NEW n \in Nat, NEW a \in [0 .. n - 1 -> Int], NEW b,
         Ascends(b, 0, n - 1), Rearranged(b, a, 0 .. n - 1, 0, n - 1), NEW k \in 0 .. n - 1
  PROVE  /\ Cardinality({j \in 0 .. n - 1 : a[j] < b[k]}) <= k
         /\ Cardinality({j \in 0 .. n - 1 : a[j] <= b[k]}) > k
<1> DEFINE D == 0 .. n - 1
           Smaller == {j \in D : a[j] < b[k]}
           NotAbove == {j \in D : a[j] <= b[k]}
<1>1. PICK from \in [D -> D] :
        /\ \A x, y \in D : x # y => from[x] # from[y]
        /\ b = [x \in D |-> a[from[x]]]
  BY DEF Rearranged
<1>2. \A x \in D : b[x] = a[from[x]] /\ b[x] \in Int /\ from[x] \in D
  BY <1>1
<1>3. \A x, y \in D : x <= y => b[x] <= b[y]
  BY <1>2, AscendsFar, 0 \in Int, n - 1 \in Int
<1>4. IsFiniteSet(D) /\ Cardinality(D) = n
  BY FS_Interval, 0 \in Int, n - 1 \in Int
<1>5. /\ IsFiniteSet(Smaller) /\ Cardinality(Smaller) \in Nat
      /\ IsFiniteSet(NotAbove) /\ Cardinality(NotAbove) \in Nat
  BY <1>4, FS_Subset, FS_CardinalityType
<1> HIDE DEF D
<1>6. Cardinality(NotAbove) > k
  <2> DEFINE f == [x \in 0 .. k |-> from[x]]
  <2>1. \A x \in 0 .. k : x \in D /\ x <= k /\ k \in D
    BY DEF D
  <2>2. \A x \in 0 .. k : from[x] \in NotAbove
    BY <2>1, <1>2, <1>3
  <2>3. f \in Injection(0 .. k, NotAbove)
    BY <2>1, <2>2, <1>1 DEF Injection, IsInjective
  <2>4. Cardinality(0 .. k) = k + 1
    BY FS_Interval, 0 \in Int, k \in Int
  <2> HIDE DEF f, NotAbove
  <2>5. Cardinality(0 .. k) <= Cardinality(NotAbove)
    BY <2>3, <1>5, FS_Injection
  <2> QED BY <2>4, <2>5, <1>5
<1>7. Cardinality(Smaller) <= k
  <2> DEFINE f == [x \in k .. n - 1 |-> from[x]]
             Rest == D \ Smaller
  <2>1. \A x \in k .. n - 1 : x \in D /\ k <= x /\ k \in D
    BY DEF D
  <2>2. \A x \in k .. n - 1 : from[x] \in Rest
    <3> TAKE x \in k .. n - 1
    <3>1. from[x] \in D /\ b[k] <= a[from[x]] /\ b[k] \in Int /\ a[from[x]] \in Int
      BY <2>1, <1>2, <1>3
    <3> QED BY <3>1
  <2>3. f \in Injection(k .. n - 1, Rest)
    BY <2>1, <2>2, <1>1 DEF Injection, IsInjective
  <2>4. Cardinality(k .. n - 1) = n - k
    BY FS_Interval, n - 1 \in Int, k \in Int
  <2>5. IsFiniteSet(Rest) /\ Cardinality(Rest) = n - Cardinality(Smaller)
    <3>1. D \cap Smaller = Smaller
      OBVIOUS
    <3> HIDE DEF Smaller
    <3> QED BY <3>1, <1>4, FS_Difference
  <2> HIDE DEF f, Rest, Smaller
  <2>6. Cardinality(k .. n - 1) <= Cardinality(Rest)
    BY <2>3, <2>5, FS_Injection
  <2> QED BY <2>4, <2>5, <2>6, <1>5
<1> QED BY <1>6, <1>7 DEF D

\* What the sort does for the call: the array it leaves holds at each place an element
\* of the array's, one whose rank is that place.
LEMMA SortRanks ==
  ASSUME NEW n \in Nat \ {0}, NEW a \in Array(n)
  PROVE  /\ mergeSort(a, 0, n - 1) \in Array(n)
         /\ \A k \in 0 .. n - 1 :
              /\ Cardinality({j \in DOMAIN a : a[j] < mergeSort(a, 0, n - 1)[k]}) <= k
              /\ Cardinality({j \in DOMAIN a : a[j] <= mergeSort(a, 0, n - 1)[k]}) > k
<1> DEFINE b == mergeSort(a, 0, n - 1)
<1>1. a \in [0 .. n - 1 -> Int] /\ DOMAIN a = 0 .. n - 1
  BY SortAssumption DEF Array
<1>2. n \in Nat /\ 0 \in Int /\ n - 1 \in Int /\ 0 <= n - 1
  OBVIOUS
<1>3. Ascends(b, 0, n - 1) /\ Rearranged(b, a, 0 .. n - 1, 0, n - 1)
  BY <1>1, <1>2, mergeSortSorts
<1> HIDE DEF b
<1>4. b \in Array(n)
  BY <1>3 DEF Rearranged, Array
<1>5. \A k \in 0 .. n - 1 :
              /\ Cardinality({j \in DOMAIN a : a[j] < b[k]}) <= k
              /\ Cardinality({j \in DOMAIN a : a[j] <= b[k]}) > k
  BY <1>1, <1>2, <1>3, PlaceIsRank
<1> QED BY <1>4, <1>5 DEF b

-----------------------------------------------------------------------------
(* kMergeSort: the system call.                                              *)

\* The places of a call that holds a buffer it will free.
Allocated == {"copyin", "sort", "copyout", "free"}
Places == Allocated \cup {"user", "check", "oops"}

\* What ResultIsPrefix says of p's finished call.
ResultOf(p) ==
  \E n \in 0 .. arg[p].size :
    /\ returned[p] = "0" => n = arg[p].size
    /\ \A i \in n .. arg[p].size - 1 : sorted[p][i] = Garbage
    /\ \A i \in 0 .. n - 1 :
         /\ Cardinality({j \in DOMAIN taken[p] : taken[p][j] < sorted[p][i]}) <= i
         /\ Cardinality({j \in DOMAIN taken[p] : taken[p][j] <= sorted[p][i]}) > i

\* Every program has its arrays, arguments and place in the call.
PerCaller ==
  /\ pc \in [Caller -> Places]
  /\ DOMAIN arg = Caller /\ DOMAIN unsorted = Caller /\ DOMAIN sorted = Caller
  /\ DOMAIN kernelBuffer = Caller /\ DOMAIN returned = Caller /\ DOMAIN taken = Caller

\* Where p's call has got to: the result array is untouched up to the second copy,
\* and from the first one on the buffer holds what was taken, sorted by then or not,
\* whatever the program does to its array.
CallUnderWay(p) ==
  /\ arg[p].size \in Nat
  /\ pc[p] \in Allocated => arg[p].size >= MinSize
  /\ pc[p] \in Places \ {"user"} => unsorted[p] \in Array(arg[p].size)
  /\ pc[p] \in {"check", "copyin", "sort", "copyout"} => sorted[p] = Unwritten(arg[p].size)
  /\ pc[p] \in {"sort", "copyout", "free"} => taken[p] \in Array(arg[p].size)
  /\ pc[p] = "sort" => kernelBuffer[p] = taken[p]
  /\ pc[p] \in {"copyout", "free"} => kernelBuffer[p] = mergeSort(taken[p], 0, arg[p].size - 1)
  /\ pc[p] = "free" => sorted[p] = kernelBuffer[p]
  /\ pc[p] = "user" /\ returned[p] # "none" => ResultOf(p)

\* ResultIsPrefix is not inductive: it says nothing of the calls under way.
CallInv == PerCaller /\ \A p \in Caller : CallUnderWay(p)

\* Nothing of q's call changes.
Untouched(q) ==
  /\ pc'[q] = pc[q] /\ arg'[q] = arg[q] /\ unsorted'[q] = unsorted[q] /\ sorted'[q] = sorted[q]
  /\ kernelBuffer'[q] = kernelBuffer[q] /\ returned'[q] = returned[q] /\ taken'[q] = taken[q]

\* A call that nothing happens to stays where it has got to.
LEMMA UntouchedKeeps ==
  ASSUME NEW q \in Caller, CallUnderWay(q), Untouched(q)
  PROVE  CallUnderWay(q)'
BY DEF CallUnderWay, Untouched, ResultOf

\* At the start no call is under way.
LEMMA CallInvInit == SortInit => CallInv
<1> SUFFICES ASSUME SortInit PROVE CallInv
  OBVIOUS
<1>1. PerCaller
  BY DEF SortInit, PerCaller, Places
<1>2. ASSUME NEW p \in Caller PROVE CallUnderWay(p)
  BY DEF SortInit, CallUnderWay, Allocated
<1> QED BY <1>1, <1>2 DEF CallInv

\* The program enters the call with an unwritten result array.
LEMMA SyscallKeeps ==
  ASSUME CallInv, NEW p \in Caller, NEW n \in Sizes, NEW in, NEW out, Syscall(p, n, in, out)
  PROVE  CallInv'
<1>0. PerCaller /\ n \in Nat
  BY SortAssumption DEF CallInv
<1>1. PICK a \in Array(n) : unsorted' = [unsorted EXCEPT ![p] = a]
  BY DEF Syscall
<1>2. PerCaller'
  BY <1>0, <1>1 DEF PerCaller, Syscall, Places
<1>3. \A q \in Caller \ {p} : Untouched(q)
  BY <1>0, <1>1 DEF PerCaller, Syscall, Untouched
<1>4. /\ pc'[p] = "check" /\ arg'[p].size = n /\ unsorted'[p] = a
      /\ sorted'[p] = Unwritten(n)
  BY <1>0, <1>1 DEF PerCaller, Syscall
<1>5. CallUnderWay(p)'
  BY <1>0, <1>4 DEF CallUnderWay, Allocated
<1> QED BY <1>2, <1>3, <1>5, UntouchedKeeps DEF CallInv

\* A write to the array is none of a call's business once it is copied.
LEMMA UserWriteKeeps ==
  ASSUME CallInv, NEW p \in Caller, NEW i, NEW v \in Elements, UserWrite(p, i, v)
  PROVE  CallInv'
<1>0. PerCaller /\ CallUnderWay(p) /\ pc[p] \in Places \ {"user"} /\ i \in DOMAIN unsorted[p]
  BY DEF CallInv, UserWrite, Places, Allocated
<1>2. PerCaller'
  BY <1>0 DEF PerCaller, UserWrite
<1>3. \A q \in Caller \ {p} : Untouched(q)
  BY <1>0 DEF PerCaller, UserWrite, Untouched
<1>4. unsorted'[p] = [unsorted[p] EXCEPT ![i] = v]
  BY <1>0 DEF PerCaller, UserWrite
<1>5. unsorted'[p] \in Array(arg[p].size)
  <2>1. unsorted[p] \in Array(arg[p].size)
    BY <1>0 DEF CallUnderWay
  <2> QED BY <2>1, <1>4, <1>0 DEF Array
<1>6. /\ pc'[p] = pc[p] /\ arg'[p] = arg[p] /\ sorted'[p] = sorted[p] /\ taken'[p] = taken[p]
      /\ kernelBuffer'[p] = kernelBuffer[p] /\ returned'[p] = returned[p] /\ pc[p] # "user"
  BY <1>0 DEF UserWrite
<1>7. CallUnderWay(p)'
  BY <1>0, <1>5, <1>6 DEF CallUnderWay
<1> QED BY <1>2, <1>3, <1>7, UntouchedKeeps DEF CallInv

\* A call whose arguments are refused has written nothing.
LEMMA CheckKeeps ==
  ASSUME CallInv, NEW p \in Caller, Check(p) \/ CheckWithoutMemory(p)
  PROVE  CallInv'
<1>0. PerCaller /\ CallUnderWay(p) /\ pc[p] = "check"
  BY DEF CallInv, Check, CheckWithoutMemory
<1>1. /\ arg' = arg /\ unsorted' = unsorted /\ sorted' = sorted /\ taken' = taken
  BY DEF Check, CheckWithoutMemory
<1>2. PerCaller'
  BY <1>0, <1>1 DEF PerCaller, Check, CheckWithoutMemory, Return, Places, Allocated
<1>3. \A q \in Caller \ {p} : Untouched(q)
  BY <1>0, <1>1 DEF PerCaller, Check, CheckWithoutMemory, Return, Untouched
<1>4. arg[p].size \in Nat /\ unsorted[p] \in Array(arg[p].size) /\ sorted[p] = Unwritten(arg[p].size)
  BY <1>0 DEF CallUnderWay, Places
<1>5. CASE pc'[p] = "user" /\ returned'[p] = ArgError(arg[p]) /\ ArgError(arg[p]) # "none"
  <2>1. returned'[p] # "0"
    BY <1>5 DEF ArgError
  <2>2. \A i \in 0 .. arg[p].size - 1 : sorted[p][i] = Garbage
    BY <1>4 DEF Unwritten
  <2>3. 0 \in 0 .. arg[p].size /\ 0 .. 0 - 1 = {}
    BY <1>4
  <2>4. ResultOf(p)'
    BY <1>1, <2>1, <2>2, <2>3 DEF ResultOf
  <2> QED 
    <3>1. CallUnderWay(p)'
      BY <1>1, <1>4, <1>5, <2>4 DEF CallUnderWay, Allocated
    <3> QED BY <1>2, <1>3, <3>1, UntouchedKeeps DEF CallInv
<1>6. CASE pc'[p] \in {"copyin", "oops"} /\ ArgError(arg[p]) = "none"
  <2>1. arg[p].size >= MinSize
    BY <1>4, <1>6, SortAssumption DEF ArgError
  <2>2. CallUnderWay(p)'
    BY <1>1, <1>4, <1>6, <2>1 DEF CallUnderWay, Allocated, Places
  <2> QED BY <1>2, <1>3, <2>2, UntouchedKeeps DEF CallInv
<1>7. \/ pc'[p] = "user" /\ returned'[p] = ArgError(arg[p]) /\ ArgError(arg[p]) # "none"
      \/ pc'[p] \in {"copyin", "oops"} /\ ArgError(arg[p]) = "none"
  BY <1>0 DEF PerCaller, Check, CheckWithoutMemory, Return
<1> QED BY <1>5, <1>6, <1>7

\* The first copy takes all of the array or ends the call with nothing written.
LEMMA CopyInKeeps ==
  ASSUME CallInv, NEW p \in Caller, copy_from_user(p)
  PROVE  CallInv'
<1>0. PerCaller /\ CallUnderWay(p) /\ pc[p] = "copyin"
  BY DEF CallInv, copy_from_user
<1>1. arg' = arg /\ unsorted' = unsorted /\ sorted' = sorted
  BY DEF copy_from_user, CopyFails
<1>2. PerCaller'
  BY <1>0, <1>1 DEF PerCaller, copy_from_user, CopyFails, Return, Places, Allocated
<1>3. \A q \in Caller \ {p} : Untouched(q)
  BY <1>0, <1>1 DEF PerCaller, copy_from_user, CopyFails, Return, Untouched
<1>4. /\ arg[p].size \in Nat /\ unsorted[p] \in Array(arg[p].size) /\ sorted[p] = Unwritten(arg[p].size)
      /\ arg[p].size >= MinSize
  BY <1>0 DEF CallUnderWay, Places, Allocated
<1>5. \/ pc'[p] = "sort" /\ kernelBuffer'[p] = unsorted[p] /\ taken'[p] = unsorted[p]
      \/ pc'[p] = "user" /\ returned'[p] = "EFAULT"
  BY <1>0 DEF PerCaller, copy_from_user, CopyFails, Return
<1>6. CASE pc'[p] = "sort" /\ kernelBuffer'[p] = unsorted[p] /\ taken'[p] = unsorted[p]
  <2>1. CallUnderWay(p)'
    BY <1>1, <1>4, <1>6 DEF CallUnderWay, Allocated, Places
  <2> QED BY <1>2, <1>3, <2>1, UntouchedKeeps DEF CallInv
<1>7. CASE pc'[p] = "user" /\ returned'[p] = "EFAULT"
  <2>2. \A i \in 0 .. arg[p].size - 1 : sorted[p][i] = Garbage
    BY <1>4 DEF Unwritten
  <2>3. 0 \in 0 .. arg[p].size /\ 0 .. 0 - 1 = {}
    BY <1>4
  <2>4. ResultOf(p)'
    BY <1>1, <1>7, <2>2, <2>3 DEF ResultOf
  <2>5. CallUnderWay(p)'
    BY <1>1, <1>4, <1>7, <2>4 DEF CallUnderWay, Allocated
  <2> QED BY <1>2, <1>3, <2>5, UntouchedKeeps DEF CallInv
<1> QED BY <1>5, <1>6, <1>7

\* mergeSort works on the call's own buffer.
LEMMA SortKeeps ==
  ASSUME CallInv, NEW p \in Caller, Sort(p)
  PROVE  CallInv'
<1>0. PerCaller /\ CallUnderWay(p) /\ pc[p] = "sort"
  BY DEF CallInv, Sort
<1>1. arg' = arg /\ unsorted' = unsorted /\ sorted' = sorted /\ taken' = taken /\ returned' = returned
  BY DEF Sort
<1>2. PerCaller'
  BY <1>0, <1>1 DEF PerCaller, Sort, Places, Allocated
<1>3. \A q \in Caller \ {p} : Untouched(q)
  BY <1>0, <1>1 DEF PerCaller, Sort, Untouched
<1>4. pc'[p] = "copyout" /\ kernelBuffer'[p] = mergeSort(kernelBuffer[p], 0, arg[p].size - 1)
  BY <1>0 DEF PerCaller, Sort
<1>5. kernelBuffer[p] = taken[p]
  BY <1>0 DEF CallUnderWay
<1>6. CallUnderWay(p)'
  BY <1>0, <1>1, <1>4, <1>5 DEF CallUnderWay, Allocated, Places
<1> QED BY <1>2, <1>3, <1>6, UntouchedKeeps DEF CallInv

\* The sorted buffer holds at each place an element of that rank.
LEMMA BufferRanks ==
  ASSUME NEW p \in Caller, CallUnderWay(p), pc[p] \in {"copyout", "free"}
  PROVE  /\ kernelBuffer[p] \in Array(arg[p].size)
         /\ \A k \in 0 .. arg[p].size - 1 :
              /\ Cardinality({j \in DOMAIN taken[p] : taken[p][j] < kernelBuffer[p][k]}) <= k
              /\ Cardinality({j \in DOMAIN taken[p] : taken[p][j] <= kernelBuffer[p][k]}) > k
<1>1. arg[p].size \in Nat \ {0} /\ taken[p] \in Array(arg[p].size)
  BY SortAssumption DEF CallUnderWay, Allocated
<1>2. kernelBuffer[p] = mergeSort(taken[p], 0, arg[p].size - 1)
  BY DEF CallUnderWay
<1> QED BY <1>1, <1>2, SortRanks

\* The second copy writes all of the result or a prefix of it.
LEMMA CopyOutKeeps ==
  ASSUME CallInv, NEW p \in Caller, copy_to_user(p)
  PROVE  CallInv'
<1>0. PerCaller /\ CallUnderWay(p) /\ pc[p] = "copyout"
  BY DEF CallInv, copy_to_user
<1>1. arg' = arg /\ unsorted' = unsorted /\ taken' = taken
  BY DEF copy_to_user, CopyFails
<1>4. /\ arg[p].size \in Nat /\ unsorted[p] \in Array(arg[p].size) /\ sorted[p] = Unwritten(arg[p].size)
      /\ arg[p].size >= MinSize /\ taken[p] \in Array(arg[p].size)
      /\ kernelBuffer[p] = mergeSort(taken[p], 0, arg[p].size - 1)
  BY <1>0 DEF CallUnderWay, Places, Allocated
<1>5. CASE /\ sorted' = [sorted EXCEPT ![p] = kernelBuffer[p]]
           /\ pc' = [pc EXCEPT ![p] = "free"]
           /\ UNCHANGED <<arg, unsorted, kernelBuffer, returned, calls, kmallocs, faulted, taken>>
  <2>1. PerCaller'
    BY <1>0, <1>5 DEF PerCaller, Places, Allocated
  <2>2. \A q \in Caller \ {p} : Untouched(q)
    BY <1>0, <1>5 DEF PerCaller, Untouched
  <2>3. pc'[p] = "free" /\ sorted'[p] = kernelBuffer[p] /\ kernelBuffer' = kernelBuffer
    BY <1>0, <1>5 DEF PerCaller
  <2>4. CallUnderWay(p)'
    BY <1>1, <1>4, <2>3 DEF CallUnderWay, Allocated, Places
  <2> QED BY <2>1, <2>2, <2>4, UntouchedKeeps DEF CallInv
<1>6. ASSUME NEW n \in 0 .. arg[p].size - 1, CopyFails(p),
             sorted' = [sorted EXCEPT ![p] = [i \in DOMAIN @ |->
                          IF i < n THEN kernelBuffer[p][i] ELSE @[i]]]
      PROVE  CallInv'
  <2>1. PerCaller'
    BY <1>0, <1>6 DEF PerCaller, CopyFails, Return, Places, Allocated
  <2>2. \A q \in Caller \ {p} : Untouched(q)
    BY <1>0, <1>6 DEF PerCaller, CopyFails, Return, Untouched
  <2>3. pc'[p] = "user" /\ returned'[p] = "EFAULT"
    BY <1>0, <1>6 DEF PerCaller, CopyFails, Return
  <2>4. sorted'[p] = [i \in DOMAIN sorted[p] |-> IF i < n THEN kernelBuffer[p][i] ELSE sorted[p][i]]
    BY <1>0, <1>6 DEF PerCaller
  <2>5. \A i \in 0 .. arg[p].size - 1 : 
           sorted'[p][i] = IF i < n THEN kernelBuffer[p][i] ELSE Garbage
    BY <2>4, <1>4 DEF Unwritten
  <2>6. /\ \A i \in n .. arg[p].size - 1 : i \in 0 .. arg[p].size - 1 /\ ~(i < n)
        /\ \A i \in 0 .. n - 1 : i \in 0 .. arg[p].size - 1 /\ i < n
        /\ n \in 0 .. arg[p].size
    BY <1>4
  <2>7. \A k \in 0 .. arg[p].size - 1 :
              /\ Cardinality({j \in DOMAIN taken[p] : taken[p][j] < kernelBuffer[p][k]}) <= k
              /\ Cardinality({j \in DOMAIN taken[p] : taken[p][j] <= kernelBuffer[p][k]}) > k
    BY <1>0, BufferRanks
  <2>8. ResultOf(p)'
    <3>1. \A i \in n .. arg[p].size - 1 : sorted'[p][i] = Garbage
      BY <2>5, <2>6
    <3>2. \A i \in 0 .. n - 1 : sorted'[p][i] = kernelBuffer[p][i]
      BY <2>5, <2>6
    <3>3. \A i \in 0 .. n - 1 :
              /\ Cardinality({j \in DOMAIN taken[p] : taken[p][j] < sorted'[p][i]}) <= i
              /\ Cardinality({j \in DOMAIN taken[p] : taken[p][j] <= sorted'[p][i]}) > i
      BY <3>2, <2>6, <2>7
    <3>4. returned'[p] # "0"
      BY <2>3
    <3> QED BY <3>1, <3>3, <3>4, <2>6, <1>1 DEF ResultOf
  <2>9. CallUnderWay(p)'
    BY <1>1, <1>4, <2>3, <2>8 DEF CallUnderWay, Allocated
  <2> QED BY <2>1, <2>2, <2>9, UntouchedKeeps DEF CallInv
<1> QED BY <1>5, <1>6 DEF copy_to_user

\* A call that returns 0 has written all of the result.
LEMMA kfreeKeeps ==
  ASSUME CallInv, NEW p \in Caller, kfree(p)
  PROVE  CallInv'
<1>0. PerCaller /\ CallUnderWay(p) /\ pc[p] = "free"
  BY DEF CallInv, kfree
<1>1. arg' = arg /\ unsorted' = unsorted /\ sorted' = sorted /\ taken' = taken
  BY DEF kfree
<1>2. PerCaller'
  BY <1>0, <1>1 DEF PerCaller, kfree, Return, Places, Allocated
<1>3. \A q \in Caller \ {p} : Untouched(q)
  BY <1>0, <1>1 DEF PerCaller, kfree, Return, Untouched
<1>4. pc'[p] = "user" /\ returned'[p] = "0"
  BY <1>0 DEF PerCaller, kfree, Return
<1>5. arg[p].size \in Nat /\ sorted[p] = kernelBuffer[p]
  BY <1>0 DEF CallUnderWay
<1>6. \A k \in 0 .. arg[p].size - 1 :
              /\ Cardinality({j \in DOMAIN taken[p] : taken[p][j] < sorted[p][k]}) <= k
              /\ Cardinality({j \in DOMAIN taken[p] : taken[p][j] <= sorted[p][k]}) > k
  BY <1>0, <1>5, BufferRanks
<1>7. arg[p].size \in 0 .. arg[p].size /\ arg[p].size .. arg[p].size - 1 = {}
  BY <1>5
<1>8. ResultOf(p)'
  BY <1>1, <1>6, <1>7 DEF ResultOf
<1>9. CallUnderWay(p)'
  BY <1>1, <1>4, <1>5, <1>8 DEF CallUnderWay, Allocated
<1> QED BY <1>2, <1>3, <1>9, UntouchedKeeps DEF CallInv

\* Every step keeps every call's invariant.
LEMMA CallInvNext == CallInv /\ [SortNext]_sortVars => CallInv'
<1> SUFFICES ASSUME CallInv, [SortNext]_sortVars PROVE CallInv'
  OBVIOUS
<1>1. CASE UNCHANGED sortVars
  <2>1. PerCaller' /\ \A q \in Caller : Untouched(q)
    BY <1>1 DEF CallInv, PerCaller, Untouched, sortVars
  <2> QED BY <2>1, UntouchedKeeps DEF CallInv
<1>2. CASE SortNext
  BY <1>2, SyscallKeeps, UserWriteKeeps, CheckKeeps, CopyInKeeps, SortKeeps, CopyOutKeeps, kfreeKeeps
  DEF SortNext, Kernel
<1> QED BY <1>1, <1>2

\* For any number of programs, any arrays and any sizes: whatever a call returns, the
\* result array holds a prefix of the sorted order of what the call took from user
\* space, all of it when the call returned 0.
THEOREM SortedOrPrefix == SortSpec => []ResultIsPrefix
<1>1. CallInv => ResultIsPrefix
  BY DEF CallInv, CallUnderWay, ResultOf, ResultIsPrefix
<1> QED BY <1>1, CallInvInit, CallInvNext, PTL DEF SortSpec

\* The programs whose call holds a buffer.
Holding == {p \in Caller : pc[p] \in Allocated}

\* The inductive invariant of the buffers; the counts are numbers.
LeakInv == pc \in [Caller -> Places] /\ faulted \in Nat /\ kmallocs = faulted + Cardinality(Holding)

\* Only finitely many programs hold a buffer.
LEMMA HoldingFinite ==
  IsFiniteSet(Holding) /\ Cardinality(Holding) \in Nat /\ IsFiniteSet(Holding') /\ Cardinality(Holding') \in Nat
BY SortAssumption, FS_Subset, FS_CardinalityType DEF Holding

\* A step of p's call that allocates, frees or loses its buffer, or does none of it.
LEMMA HoldingSteps ==
  ASSUME pc \in [Caller -> Places], NEW p \in Caller, NEW x \in Places, pc' = [pc EXCEPT ![p] = x]
  PROVE  /\ pc' \in [Caller -> Places]
         /\ pc[p] \notin Allocated /\ x \in Allocated => Cardinality(Holding') = Cardinality(Holding) + 1
         /\ pc[p] \in Allocated /\ x \notin Allocated => Cardinality(Holding') = Cardinality(Holding) - 1
         /\ (pc[p] \in Allocated <=> x \in Allocated) => Cardinality(Holding') = Cardinality(Holding)
<1>0. pc' \in [Caller -> Places]
  OBVIOUS
<1>1. \A q \in Caller : pc'[q] = IF q = p THEN x ELSE pc[q]
  OBVIOUS
<1>2. ASSUME pc[p] \notin Allocated, x \in Allocated PROVE Cardinality(Holding') = Cardinality(Holding) + 1
  <2>1. Holding' = Holding \cup {p} /\ p \notin Holding
    BY <1>1, <1>2 DEF Holding
  <2> QED BY <2>1, HoldingFinite, FS_AddElement
<1>3. ASSUME pc[p] \in Allocated, x \notin Allocated PROVE Cardinality(Holding') = Cardinality(Holding) - 1
  <2>1. Holding' = Holding \ {p} /\ p \in Holding
    BY <1>1, <1>3 DEF Holding
  <2> QED BY <2>1, HoldingFinite, FS_RemoveElement
<1>4. ASSUME pc[p] \in Allocated <=> x \in Allocated PROVE Cardinality(Holding') = Cardinality(Holding)
  <2>1. Holding' = Holding
    BY <1>1, <1>4 DEF Holding
  <2> QED BY <2>1
<1> QED BY <1>0, <1>2, <1>3, <1>4

\* At the start there is no buffer.
LEMMA LeakInvInit == SortInit => LeakInv
<1> SUFFICES ASSUME SortInit PROVE LeakInv
  OBVIOUS
<1>1. pc \in [Caller -> Places]
  BY DEF SortInit, Places
<1>2. Holding = {}
  BY DEF SortInit, Holding, Allocated
<1> QED BY <1>1, <1>2, FS_EmptySet DEF SortInit, LeakInv

\* Every step of a call keeps the account: kmalloc and kfree change both sides, and so
\* does a failing copy, which returns without kfree.
LEMMA LeakInvNext == LeakInv /\ [SortNext]_sortVars => LeakInv'
<1> SUFFICES ASSUME LeakInv, [SortNext]_sortVars PROVE LeakInv'
  OBVIOUS
<1>0. pc \in [Caller -> Places] /\ faulted \in Nat /\ kmallocs = faulted + Cardinality(Holding)
  BY DEF LeakInv
<1>1. CASE pc' = pc /\ faulted' = faulted /\ kmallocs' = kmallocs
  <2>1. Holding' = Holding
    BY <1>1 DEF Holding
  <2> QED BY <1>0, <1>1, <2>1 DEF LeakInv
<1>2. ASSUME NEW p \in Caller, NEW x \in Places, pc' = [pc EXCEPT ![p] = x],
             \/ /\ pc[p] \notin Allocated /\ x \in Allocated
                /\ kmallocs' = kmallocs + 1 /\ faulted' = faulted
             \/ /\ pc[p] \in Allocated /\ x \notin Allocated
                /\ kmallocs' = kmallocs - 1 /\ faulted' = faulted
             \/ /\ pc[p] \in Allocated /\ x \notin Allocated
                /\ kmallocs' = kmallocs /\ faulted' = faulted + 1
             \/ /\ pc[p] \in Allocated <=> x \in Allocated
                /\ kmallocs' = kmallocs /\ faulted' = faulted
      PROVE  LeakInv'
  <2>1. /\ pc' \in [Caller -> Places]
        /\ pc[p] \notin Allocated /\ x \in Allocated => Cardinality(Holding') = Cardinality(Holding) + 1
        /\ pc[p] \in Allocated /\ x \notin Allocated => Cardinality(Holding') = Cardinality(Holding) - 1
        /\ (pc[p] \in Allocated <=> x \in Allocated) => Cardinality(Holding') = Cardinality(Holding)
    BY <1>0, <1>2, HoldingSteps
  <2>2. Cardinality(Holding) \in Nat /\ Cardinality(Holding') \in Nat
    BY HoldingFinite
  <2>3. faulted' \in Nat /\ kmallocs' = faulted' + Cardinality(Holding')
    BY <1>0, <1>2, <2>1, <2>2
  <2> QED BY <2>1, <2>3 DEF LeakInv
<1>3. CASE UNCHANGED sortVars
  BY <1>1, <1>3 DEF sortVars
<1>4. CASE SortNext
  <2>1. PICK p \in Caller :
          \/ \E n \in Sizes, in, out \in {NULL, "array"} : Syscall(p, n, in, out)
          \/ \E i \in 0 .. Max(Sizes) - 1, v \in Elements : UserWrite(p, i, v)
          \/ Kernel(p)
    BY <1>4 DEF SortNext
  <2> USE DEF Allocated, Places
  <2>2. CASE \E n \in Sizes, in, out \in {NULL, "array"} : Syscall(p, n, in, out)
    <3>1. pc[p] = "user" /\ pc' = [pc EXCEPT ![p] = "check"] /\ kmallocs' = kmallocs /\ faulted' = faulted
      BY <2>2 DEF Syscall
    <3> QED BY <3>1, <1>2
  <2>3. CASE \E i \in 0 .. Max(Sizes) - 1, v \in Elements : UserWrite(p, i, v)
    <3>1. pc' = pc /\ kmallocs' = kmallocs /\ faulted' = faulted
      BY <2>3 DEF UserWrite
    <3> QED BY <3>1, <1>1
  <2>4. CASE Check(p)
    <3>1. \/ pc' = [pc EXCEPT ![p] = "user"] /\ kmallocs' = kmallocs
          \/ pc' = [pc EXCEPT ![p] = "copyin"] /\ kmallocs' = kmallocs + 1
      BY <2>4 DEF Check, Return
    <3>2. pc[p] = "check" /\ faulted' = faulted
      BY <2>4 DEF Check
    <3> QED BY <3>1, <3>2, <1>2
  <2>5. CASE CheckWithoutMemory(p)
    <3>1. pc[p] = "check" /\ pc' = [pc EXCEPT ![p] = "oops"] /\ kmallocs' = kmallocs /\ faulted' = faulted
      BY <2>5 DEF CheckWithoutMemory
    <3> QED BY <3>1, <1>2
  <2>6. CASE copy_from_user(p)
    <3>1. \/ pc' = [pc EXCEPT ![p] = "sort"] /\ kmallocs' = kmallocs /\ faulted' = faulted
          \/ pc' = [pc EXCEPT ![p] = "user"] /\ kmallocs' = kmallocs /\ faulted' = faulted + 1
      BY <2>6 DEF copy_from_user, CopyFails, Return
    <3>2. pc[p] = "copyin"
      BY <2>6 DEF copy_from_user
    <3> QED BY <3>1, <3>2, <1>2
  <2>7. CASE Sort(p)
    <3>1. pc[p] = "sort" /\ pc' = [pc EXCEPT ![p] = "copyout"] /\ kmallocs' = kmallocs /\ faulted' = faulted
      BY <2>7 DEF Sort
    <3> QED BY <3>1, <1>2
  <2>8. CASE copy_to_user(p)
    <3>1. \/ pc' = [pc EXCEPT ![p] = "free"] /\ kmallocs' = kmallocs /\ faulted' = faulted
          \/ pc' = [pc EXCEPT ![p] = "user"] /\ kmallocs' = kmallocs /\ faulted' = faulted + 1
      BY <2>8 DEF copy_to_user, CopyFails, Return
    <3>2. pc[p] = "copyout"
      BY <2>8 DEF copy_to_user
    <3> QED BY <3>1, <3>2, <1>2
  <2>9. CASE kfree(p)
    <3>1. pc[p] = "free" /\ pc' = [pc EXCEPT ![p] = "user"] /\ kmallocs' = kmallocs - 1 /\ faulted' = faulted
      BY <2>9 DEF kfree, Return
    <3> QED BY <3>1, <1>2
  <2> QED BY <2>1, <2>2, <2>3, <2>4, <2>5, <2>6, <2>7, <2>8, <2>9 DEF Kernel
<1> QED BY <1>3, <1>4

\* The two failing copies are the only steps of kMergeSort that lose a buffer, however
\* many programs are in the call.
THEOREM LeakOnlyOnFault == SortSpec => []LeaksOnlyOnFault
<1>1. LeakInv => LeaksOnlyOnFault
  BY DEF LeakInv, Holding, Allocated, LeaksOnlyOnFault
<1> QED BY <1>1, LeakInvInit, LeakInvNext, PTL DEF SortSpec

=============================================================================
